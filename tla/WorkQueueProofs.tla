-------------------------- MODULE WorkQueueProofs --------------------------
(***************************************************************************)
(* Proofs about WorkQueue, for any sets of items, queues and clients: its  *)
(* inductive invariant and the safety of its lists and threads; that it    *)
(* implements WorkSpec; that k_work_flush waits long enough and            *)
(* k_work_cancel_sync is released by an item that is idle; and that the    *)
(* timeout of a scheduled item and its flag agree.                         *)
(***************************************************************************)
EXTENDS WorkQueue, ListFacts

-----------------------------------------------------------------------------
(* The inductive invariant *)

\* The list of a queue holds no item twice.
ListsDistinct == \A q \in Queues : Distinct(pending[q])

\* K_WORK_QUEUED, k_work.queue and the pending lists agree.
QueuedPlace ==
  \A w \in Works, q \in Queues :
    w \in ToSet(pending[q]) <=> "QUEUED" \in flags[w] /\ queue[w] = q

\* K_WORK_RUNNING, k_work.queue and what the threads execute agree.
RunningPlace ==
  \A w \in Works, q \in Queues :
    cur[q] = w <=> "RUNNING" \in flags[w] /\ queue[w] = q

\* An item that is queued or running has a queue.
HasQueue ==
  \A w \in Works : flags[w] \cap {"QUEUED", "RUNNING"} # {} => queue[w] \in Queues

\* Flusher c is queued on q, or executed there.
FlusherAt(c, q) == c \in ToSet(pending[q]) \/ cur[q] = c

\* A flusher is in one place at most, and its client waits meanwhile.
FlusherPlace ==
  \A c \in Clients :
    /\ \A q \in Queues : FlusherAt(c, q) => pc[c] = "flush" /\ sem[c] = 0
    /\ \A q, r \in Queues : FlusherAt(c, q) /\ FlusherAt(c, r) => q = r
    /\ \A q \in Queues : ~(c \in ToSet(pending[q]) /\ cur[q] = c)

\* The records of pending_cancels belong to clients that wait.
CancellersWait == \A c \in ToSet(cancels) : pc[c] = "cancel" /\ sem[c] = 0

\* Only flushers carry K_WORK_FLUSHING.
OnlyFlushersFlush == \A w \in Works : "FLUSHING" \notin flags[w]

\* A thread executes something exactly while it is in a handler, and a queue
\* that was never started is empty.
ThreadState ==
  \A q \in Queues :
    /\ qpc[q] = "run" <=> cur[q] # None
    /\ qpc[q] = "none" => pending[q] = <<>> /\ qflags[q] = {}

Places == /\ ListsDistinct /\ QueuedPlace /\ RunningPlace /\ HasQueue
          /\ FlusherPlace /\ CancellersWait /\ OnlyFlushersFlush /\ ThreadState

QueueState == NoLostNotify /\ PluggedIsIdle /\ DeadIsEmpty

IInv == TypeOK /\ Places /\ QueueState

-----------------------------------------------------------------------------
(* Types of the operators *)

\* queue_flusher_locked: the flusher joins the list, the rest stays.
LEMMA FlusherList ==
  ASSUME NEW p \in Seq(Items), NEW fl, NEW w \in Works, NEW c \in Clients,
         "QUEUED" \in fl => w \in ToSet(p)
  PROVE  /\ queue_flusher_locked(p, fl, w, c) \in Seq(Items)
         /\ ToSet(queue_flusher_locked(p, fl, w, c)) = ToSet(p) \cup {c}
         /\ Distinct(p) /\ c \notin ToSet(p)
              => Distinct(queue_flusher_locked(p, fl, w, c))
<1>1. c \in Items
  BY DEF Items
<1>2. CASE "QUEUED" \in fl
  <2> DEFINE I == {j \in 1..Len(p) : p[j] = w}
             k == SelectInSeq(p, LAMBDA i : i = w)
  <2>1. I # {} /\ I \in SUBSET Nat
    BY <1>2, ListElements
  <2>2. k = Min(I)
    BY <2>1 DEF SelectInSeq
  <2>3. queue_flusher_locked(p, fl, w, c) = InsertAt(p, k + 1, c)
    BY <1>2 DEF queue_flusher_locked
  <2> HIDE DEF k
  <2>4. k \in 1..Len(p)
    <3>1. Min(I) \in I
      <4> HIDE DEF I
      <4> QED BY <2>1, MinOfNats
    <3> QED BY <3>1, <2>2
  <2>5. /\ InsertAt(p, k + 1, c) \in Seq(Items)
        /\ ToSet(InsertAt(p, k + 1, c)) = ToSet(p) \cup {c}
        /\ Distinct(p) /\ c \notin ToSet(p) => Distinct(InsertAt(p, k + 1, c))
    BY <1>1, <2>4, InsertList, Zenon
  <2> QED BY <2>3, <2>5, Zenon
<1>3. CASE "QUEUED" \notin fl
  BY <1>1, <1>3, PrependList DEF queue_flusher_locked
<1> QED BY <1>2, <1>3

\* finalize_cancel_locked: only ever shortens the list of cancellers.
LEMMA CancellerList ==
  ASSUME cancels \in Seq(Clients), NEW i
  PROVE  /\ finalize_cancel_locked(i) \in Seq(Clients)
         /\ ToSet(finalize_cancel_locked(i)) \subseteq ToSet(cancels)
<1> DEFINE T(c) == target[c] = i
           I == {k \in 1..Len(cancels) : T(cancels[k])}
<1>1. CASE "CANCELING" \in flags[i] /\ I # {}
  <2>1. I \in SUBSET Nat
    OBVIOUS
  <2>2. finalize_cancel_locked(i) = RemoveAt(cancels, Min(I))
    BY <1>1 DEF finalize_cancel_locked, RemoveFirstMatch, SelectInSeq
  <2>3. Min(I) \in I
    <3> HIDE DEF I
    <3> QED BY <1>1, <2>1, MinOfNats
  <2>4. Min(I) \in 1..Len(cancels)
    BY <2>3
  <2> HIDE DEF I
  <2> QED BY <2>2, <2>4, RemoveAtList
<1>2. CASE ~("CANCELING" \in flags[i] /\ I # {})
  <2>1. finalize_cancel_locked(i) = cancels
    BY <1>2 DEF finalize_cancel_locked, RemoveFirstMatch
  <2> QED BY <2>1
<1> QED BY <1>1, <1>2

\* A plain set of work flags that only differs from a's in K_WORK_DELAYED.
SameButDelayed(a, b) == a \ {"DELAYED"} = b \ {"DELAYED"}

\* submit_to_queue_locked keeps the invariant, whoever calls it.
LEMMA SubmitKeepsPlaces ==
  ASSUME IInv, TypeOK',
         NEW w \in Works, NEW q \in Queues \cup {None}, NEW ctx,
         NEW fl \in SUBSET WorkFlag, SameButDelayed(fl, flags[w]),
         submit_to_queue_locked(w, q, ctx, fl),
         UNCHANGED <<qflags, cur, pc, sem, cancels>>
  PROVE  Places' /\ QueueState'
<1> USE DEF SameButDelayed
<1>0. w \in Items /\ w \notin Clients /\ w # None
  BY WorkQueueAssumption DEF Items
<1>1. CASE ~Submittable(w, q, ctx, fl)
  <2>1. /\ flags' = [flags EXCEPT ![w] = fl]
        /\ UNCHANGED <<queue, pending, qpc>>
    BY <1>1 DEF submit_to_queue_locked
  <2>2. \A x \in Works, f \in {"QUEUED", "RUNNING", "FLUSHING"} :
          f \in flags'[x] <=> f \in flags[x]
    BY <1>0, <2>1 DEF IInv, TypeOK, Items
  <2>3. ListsDistinct' /\ FlusherPlace' /\ CancellersWait' /\ ThreadState'
    BY <2>1 DEF IInv, Places, ListsDistinct, FlusherPlace, FlusherAt,
                CancellersWait, ThreadState
  <2>4. QueuedPlace' /\ RunningPlace' /\ HasQueue' /\ OnlyFlushersFlush'
    BY <2>1, <2>2 DEF IInv, Places, QueuedPlace, RunningPlace, HasQueue,
                      OnlyFlushersFlush
  <2>5. QueueState'
    BY <2>1 DEF IInv, QueueState, NoLostNotify, PluggedIsIdle, DeadIsEmpty
  <2> QED BY <2>3, <2>4, <2>5 DEF Places
<1>2. CASE Submittable(w, q, ctx, fl)
  <2> DEFINE r == SubmitQueue(w, q)
  <2>1. /\ flags' = [flags EXCEPT ![w] = fl \cup {"QUEUED"}]
        /\ queue' = [queue EXCEPT ![w] = r]
        /\ pending' = [pending EXCEPT ![r] = Append(@, w)]
        /\ qpc' = [qpc EXCEPT ![r] = IF @ = "wait" THEN "loop" ELSE @]
    BY <1>2 DEF submit_to_queue_locked, notify_queue_locked
  <2>2. /\ r \in Queues
        /\ "STARTED" \in qflags[r]
        /\ "PLUGGED" \in qflags[r] => "DRAIN" \in qflags[r]
        /\ "RUNNING" \in flags[w] => r = queue[w]
        /\ "QUEUED" \notin fl /\ "QUEUED" \notin flags[w]
    BY <1>2 DEF Submittable, queue_submit_locked, SubmitQueue, IInv, TypeOK
  <2> HIDE DEF r
  <2>3. \A x \in Queues : pending[x] \in Seq(Items)
    BY DEF IInv, TypeOK
  <2>4. w \notin ToSet(pending[r])
    BY <2>2 DEF IInv, Places, QueuedPlace
  <2>5. \A x \in Queues :
          /\ ToSet(pending'[x]) = IF x = r THEN ToSet(pending[x]) \cup {w}
                                           ELSE ToSet(pending[x])
          /\ Distinct(pending'[x])
          /\ x # r => pending'[x] = pending[x]
    <3>1. pending'[r] = Append(pending[r], w) /\ \A x \in Queues \ {r} : pending'[x] = pending[x]
      BY <2>1, <2>2 DEF IInv, TypeOK
    <3>2. Distinct(pending[r]) /\ \A x \in Queues : Distinct(pending[x])
      BY <2>2 DEF IInv, Places, ListsDistinct
    <3>3. pending[r] \in Seq(Items)
      BY <2>2, <2>3
    <3>4. /\ ToSet(Append(pending[r], w)) = ToSet(pending[r]) \cup {w}
          /\ Distinct(pending[r]) /\ w \notin ToSet(pending[r]) => Distinct(Append(pending[r], w))
      BY <1>0, <3>3, AppendList
    <3>5. ToSet(pending'[r]) = ToSet(pending[r]) \cup {w} /\ Distinct(pending'[r])
      BY <2>4, <3>1, <3>2, <3>4
    <3> QED BY <3>1, <3>2, <3>5
  <2>6. \A x \in Works : flags'[x] = IF x = w THEN fl \cup {"QUEUED"} ELSE flags[x]
    BY <1>0, <2>1 DEF IInv, TypeOK, Items
  <2>7. \A x \in Works : queue'[x] = IF x = w THEN r ELSE queue[x]
    BY <2>1 DEF IInv, TypeOK
  <2>8. \A x \in Queues : qpc'[x] = IF x = r /\ qpc[x] = "wait" THEN "loop" ELSE qpc[x]
    BY <2>1 DEF IInv, TypeOK
  <2>9. ListsDistinct'
    BY <2>5 DEF ListsDistinct
  <2>10. QueuedPlace'
    <3> SUFFICES ASSUME NEW x \in Works, NEW y \in Queues
                 PROVE  x \in ToSet(pending'[y]) <=> "QUEUED" \in flags'[x] /\ queue'[x] = y
      BY DEF QueuedPlace
    <3>1. x \in ToSet(pending[y]) <=> "QUEUED" \in flags[x] /\ queue[x] = y
      BY DEF IInv, Places, QueuedPlace
    <3>2. CASE x = w
      BY <3>1, <3>2, <2>2, <2>5, <2>6, <2>7
    <3>3. CASE x # w
      BY <3>1, <3>3, <2>5, <2>6, <2>7
    <3> QED BY <3>2, <3>3
  <2>11. RunningPlace'
    BY <2>6, <2>7, <2>2 DEF IInv, Places, RunningPlace
  <2>12. HasQueue' /\ OnlyFlushersFlush'
    BY <2>6, <2>7, <2>2 DEF IInv, Places, HasQueue, OnlyFlushersFlush
  <2>13. FlusherPlace'
    <3>1. \A c \in Clients, x \in Queues :
            c \in ToSet(pending'[x]) <=> c \in ToSet(pending[x])
      BY <1>0, <2>5
    <3> QED BY <3>1 DEF IInv, Places, FlusherPlace, FlusherAt
  <2>14. CancellersWait'
    BY DEF IInv, Places, CancellersWait
  <2>15. qpc[r] # "none" /\ qpc[r] # "dead"
    BY <2>2 DEF IInv, Places, ThreadState, QueueState, DeadIsEmpty
  <2>16. ThreadState'
    BY <2>5, <2>8, <2>15 DEF IInv, Places, ThreadState
  <2>17. QueueState'
    BY <2>2, <2>5, <2>8, <2>15 DEF IInv, QueueState, NoLostNotify, PluggedIsIdle, DeadIsEmpty
  <2> QED BY <2>9, <2>10, <2>11, <2>12, <2>13, <2>14, <2>16, <2>17 DEF Places
<1> QED BY <1>1, <1>2

\* work_flush_locked keeps the invariant.  Item w may have been submitted by
\* the same call before (k_work_flush_delayable), so that it is on list p and
\* not yet on pending[q].
LEMMA FlushKeepsPlaces ==
  ASSUME IInv, TypeOK',
         NEW w \in Works, NEW c \in Clients, pc[c] = "idle",
         NEW q \in Queues, NEW fl \in SUBSET WorkFlag, NEW p \in Seq(Items),
         work_flush_locked(c, w, fl, q, p),
         queue' = [queue EXCEPT ![w] = q],
         UNCHANGED <<qflags, cur, cancels>>,
         fl \cap {"QUEUED", "RUNNING"} # {},
         "RUNNING" \in fl <=> "RUNNING" \in flags[w],
         "FLUSHING" \notin fl,
         flags[w] \cap {"QUEUED", "RUNNING"} # {} => q = queue[w],
         "QUEUED" \in flags[w] => "QUEUED" \in fl,
         "QUEUED" \in fl /\ "QUEUED" \notin flags[w]
           => "STARTED" \in qflags[q] /\ ("PLUGGED" \in qflags[q] => "DRAIN" \in qflags[q]),
         Distinct(p),
         ToSet(p) = ToSet(pending[q]) \cup (IF "QUEUED" \in fl THEN {w} ELSE {})
  PROVE  Places' /\ QueueState'
<1>0. /\ w \in Items /\ w \notin Clients /\ w # None
      /\ c \in Items /\ c \notin Works /\ c # None
  BY WorkQueueAssumption DEF Items
<1> DEFINE np == queue_flusher_locked(p, fl, w, c)
<1>1. /\ pending' = [pending EXCEPT ![q] = np]
      /\ qpc' = [qpc EXCEPT ![q] = IF @ = "wait" THEN "loop" ELSE @]
      /\ flags' = [flags EXCEPT ![w] = fl, ![c] = {"FLUSHING"}]
      /\ pc' = [pc EXCEPT ![c] = "flush"]
      /\ sem' = [sem EXCEPT ![c] = 0]
  BY DEF work_flush_locked, notify_queue_locked, Block
<1>2. \A x \in Queues : ~FlusherAt(c, x)
  BY DEF IInv, Places, FlusherPlace
<1>3. c \notin ToSet(p)
  BY <1>0, <1>2 DEF FlusherAt
<1>4. "QUEUED" \in fl => w \in ToSet(p)
  OBVIOUS
<1>5. /\ ToSet(np) = ToSet(p) \cup {c}
      /\ Distinct(np)
  <2>1. /\ ToSet(np) = ToSet(p) \cup {c}
        /\ Distinct(p) /\ c \notin ToSet(p) => Distinct(np)
    BY <1>4, FlusherList, SMTT(30)
  <2> QED BY <2>1, <1>3
<1> HIDE DEF np
<1>6. /\ pending'[q] = np
      /\ \A x \in Queues \ {q} : pending'[x] = pending[x]
  BY <1>1 DEF IInv, TypeOK
<1>7. \A x \in Works : /\ flags'[x] = IF x = w THEN fl ELSE flags[x]
                       /\ queue'[x] = IF x = w THEN q ELSE queue[x]
  BY <1>0, <1>1 DEF IInv, TypeOK, Items
<1>8. \A x \in Queues : qpc'[x] = IF x = q /\ qpc[x] = "wait" THEN "loop" ELSE qpc[x]
  BY <1>1 DEF IInv, TypeOK
<1>9. \A x \in Clients : /\ pc'[x] = IF x = c THEN "flush" ELSE pc[x]
                         /\ sem'[x] = IF x = c THEN 0 ELSE sem[x]
  BY <1>1 DEF IInv, TypeOK
<1>10. ListsDistinct'
  BY <1>5, <1>6 DEF IInv, Places, ListsDistinct
<1>11. \A x \in Works, y \in Queues :
         x \in ToSet(pending'[y])
           <=> x \in ToSet(pending[y]) \/ (x = w /\ y = q /\ "QUEUED" \in fl)
  BY <1>0, <1>5, <1>6
<1>12. QueuedPlace'
  <2> SUFFICES ASSUME NEW x \in Works, NEW y \in Queues
               PROVE  x \in ToSet(pending'[y]) <=> "QUEUED" \in flags'[x] /\ queue'[x] = y
    BY DEF QueuedPlace
  <2>1. x \in ToSet(pending[y]) <=> "QUEUED" \in flags[x] /\ queue[x] = y
    BY DEF IInv, Places, QueuedPlace
  <2>2. CASE x = w
    BY <2>1, <2>2, <1>7, <1>11
  <2>3. CASE x # w
    BY <2>1, <2>3, <1>7, <1>11
  <2> QED BY <2>2, <2>3
<1>13. RunningPlace'
  BY <1>7 DEF IInv, Places, RunningPlace
<1>14. HasQueue' /\ OnlyFlushersFlush'
  BY <1>7 DEF IInv, Places, HasQueue, OnlyFlushersFlush
<1>15. \A x \in Clients, y \in Queues :
         x \in ToSet(pending'[y]) <=> x \in ToSet(pending[y]) \/ (x = c /\ y = q)
  BY <1>0, <1>5, <1>6
<1>16. FlusherPlace'
  BY <1>2, <1>9, <1>15 DEF IInv, Places, FlusherPlace, FlusherAt
<1>17. CancellersWait'
  <2>1. c \notin ToSet(cancels)
    BY DEF IInv, Places, CancellersWait
  <2>2. ToSet(cancels) \subseteq Clients
    BY ListElements DEF IInv, TypeOK
  <2> QED BY <1>9, <2>1, <2>2 DEF IInv, Places, CancellersWait
<1>18. \/ "STARTED" \in qflags[q] /\ ("PLUGGED" \in qflags[q] => "DRAIN" \in qflags[q])
       \/ pending[q] # <<>> \/ cur[q] = w
  <2>1. CASE "QUEUED" \in flags[w]
    <3>1. w \in ToSet(pending[q])
      BY <2>1 DEF IInv, Places, QueuedPlace
    <3> QED BY <3>1, EmptyList
  <2>2. CASE "QUEUED" \notin flags[w] /\ "QUEUED" \in fl
    BY <2>2
  <2>3. CASE "QUEUED" \notin fl
    BY <2>3 DEF IInv, Places, RunningPlace
  <2> QED BY <2>1, <2>2, <2>3
<1>19. qpc[q] # "none" /\ qpc[q] # "dead"
  BY <1>0, <1>18 DEF IInv, Places, ThreadState, QueueState, DeadIsEmpty
<1>20. ThreadState'
  BY <1>6, <1>8, <1>19 DEF IInv, Places, ThreadState
<1>21. QueueState'
  BY <1>0, <1>6, <1>8, <1>18, <1>19
    DEF IInv, QueueState, NoLostNotify, PluggedIsIdle, DeadIsEmpty
<1> QED BY <1>10, <1>12, <1>13, <1>14, <1>16, <1>17, <1>20, <1>21 DEF Places

\* cancel_async_locked keeps the invariant; the client that calls it, if any,
\* may go on to wait.
LEMMA CancelKeepsPlaces ==
  ASSUME IInv, TypeOK',
         NEW w \in Works, NEW fl \in SUBSET WorkFlag, SameButDelayed(fl, flags[w]),
         cancel_async_locked(w, fl),
         UNCHANGED <<queue, qflags, qpc, cur>>,
         CancellersWait',
         \A c \in Clients : pc[c] = "flush" => pc'[c] = "flush" /\ sem'[c] = sem[c]
  PROVE  Places' /\ QueueState'
<1> DEFINE dequeue == "QUEUED" \in fl /\ "CANCELING" \notin fl
<1>0. w \in Items /\ w \notin Clients
  BY WorkQueueAssumption DEF Items
<1>1. /\ flags' = [flags EXCEPT ![w] = CanceledFlags(fl)]
      /\ dequeue => pending' = [pending EXCEPT ![queue[w]] = RemoveFirst(@, w)]
      /\ ~dequeue => pending' = pending
  BY DEF cancel_async_locked
<1>2. /\ "QUEUED" \in CanceledFlags(fl) <=> "QUEUED" \in flags[w] /\ ~dequeue
      /\ "RUNNING" \in CanceledFlags(fl) <=> "RUNNING" \in flags[w]
      /\ "FLUSHING" \in CanceledFlags(fl) <=> "FLUSHING" \in flags[w]
      /\ "QUEUED" \in fl <=> "QUEUED" \in flags[w]
  BY DEF CanceledFlags, SameButDelayed
<1>3. \A x \in Works : flags'[x] = IF x = w THEN CanceledFlags(fl) ELSE flags[x]
  BY <1>0, <1>1 DEF IInv, TypeOK, Items
<1>4. \A y \in Queues :
        /\ Distinct(pending'[y])
        /\ ToSet(pending'[y]) = IF dequeue /\ y = queue[w] THEN ToSet(pending[y]) \ {w}
                                                           ELSE ToSet(pending[y])
        /\ pending[y] = <<>> => pending'[y] = <<>>
  <2> SUFFICES ASSUME NEW y \in Queues
               PROVE  /\ Distinct(pending'[y])
                      /\ ToSet(pending'[y]) = IF dequeue /\ y = queue[w]
                                                THEN ToSet(pending[y]) \ {w}
                                                ELSE ToSet(pending[y])
                      /\ pending[y] = <<>> => pending'[y] = <<>>
    OBVIOUS
  <2>1. pending[y] \in Seq(Items) /\ pending'[y] \in Seq(Items)
    BY DEF IInv, TypeOK
  <2>2. Distinct(pending[y])
    BY DEF IInv, Places, ListsDistinct
  <2>3. CASE dequeue /\ y = queue[w]
    <3>1. pending'[y] = RemoveFirst(pending[y], w)
      BY <1>1, <2>3 DEF IInv, TypeOK
    <3>2. /\ ToSet(RemoveFirst(pending[y], w)) = ToSet(pending[y]) \ {w}
          /\ Distinct(RemoveFirst(pending[y], w))
      BY <2>1, <2>2, RemoveList
    <3>3. pending[y] = <<>> => pending'[y] = <<>>
      BY <2>1, <3>1, <3>2, EmptyList
    <3> QED BY <2>3, <3>1, <3>2, <3>3
  <2>4. CASE ~(dequeue /\ y = queue[w])
    <3>1. pending'[y] = pending[y]
      BY <1>1, <2>4 DEF IInv, TypeOK
    <3> QED BY <2>2, <2>4, <3>1
  <2> QED BY <2>3, <2>4
<1> HIDE DEF dequeue
<1>5. ListsDistinct'
  BY <1>4 DEF ListsDistinct
<1>6. QueuedPlace'
  <2> SUFFICES ASSUME NEW x \in Works, NEW y \in Queues
               PROVE  x \in ToSet(pending'[y]) <=> "QUEUED" \in flags'[x] /\ queue'[x] = y
    BY DEF QueuedPlace
  <2>1. x \in ToSet(pending[y]) <=> "QUEUED" \in flags[x] /\ queue[x] = y
    BY DEF IInv, Places, QueuedPlace
  <2>2. CASE x = w
    BY <2>1, <2>2, <1>2, <1>3, <1>4
  <2>3. CASE x # w
    BY <2>1, <2>3, <1>3, <1>4
  <2> QED BY <2>2, <2>3
<1>7. RunningPlace'
  BY <1>2, <1>3 DEF IInv, Places, RunningPlace
<1>8. HasQueue' /\ OnlyFlushersFlush'
  BY <1>2, <1>3 DEF IInv, Places, HasQueue, OnlyFlushersFlush
<1>9. FlusherPlace'
  <2>1. \A x \in Clients, y \in Queues :
          x \in ToSet(pending'[y]) <=> x \in ToSet(pending[y])
    BY <1>0, <1>4
  <2> QED BY <2>1 DEF IInv, Places, FlusherPlace, FlusherAt
<1>10. ThreadState'
  BY <1>4 DEF IInv, Places, ThreadState
<1>11. QueueState'
  BY <1>4 DEF IInv, QueueState, NoLostNotify, PluggedIsIdle, DeadIsEmpty
<1> QED BY <1>5, <1>6, <1>7, <1>8, <1>9, <1>10, <1>11 DEF Places

-----------------------------------------------------------------------------
(* Types *)

\* What submit_to_queue_locked changes keeps its type.
LEMMA SubmitType ==
  ASSUME TypeOK, NEW w \in Works, NEW q \in Queues \cup {None}, NEW ctx,
         NEW fl \in SUBSET WorkFlag, submit_to_queue_locked(w, q, ctx, fl)
  PROVE  /\ flags' \in [Items -> SUBSET WorkFlag]
         /\ queue' \in [Works -> Queues \cup {None}]
         /\ pending' \in [Queues -> Seq(Items)]
         /\ qpc' \in [Queues -> {"none", "loop", "wait", "run", "dead"}]
<1>0. w \in Items
  BY DEF Items
<1>1. CASE ~Submittable(w, q, ctx, fl)
  BY <1>1 DEF submit_to_queue_locked, TypeOK
<1>2. CASE Submittable(w, q, ctx, fl)
  <2> DEFINE r == SubmitQueue(w, q)
  <2>1. /\ flags' = [flags EXCEPT ![w] = fl \cup {"QUEUED"}]
        /\ queue' = [queue EXCEPT ![w] = r]
        /\ pending' = [pending EXCEPT ![r] = Append(@, w)]
        /\ qpc' = [qpc EXCEPT ![r] = IF @ = "wait" THEN "loop" ELSE @]
    BY <1>2 DEF submit_to_queue_locked, notify_queue_locked
  <2>2. r \in Queues
    BY <1>2 DEF Submittable, queue_submit_locked, SubmitQueue, TypeOK
  <2> HIDE DEF r
  <2>3. pending[r] \in Seq(Items)
    BY <2>2 DEF TypeOK
  <2>4. Append(pending[r], w) \in Seq(Items)
    BY <1>0, <2>3, AppendList
  <2> QED BY <2>1, <2>2, <2>4 DEF TypeOK, WorkFlag
<1> QED BY <1>1, <1>2

\* What cancel_async_locked changes keeps its type.
LEMMA CancelType ==
  ASSUME TypeOK, NEW w \in Works, NEW fl \in SUBSET WorkFlag, cancel_async_locked(w, fl)
  PROVE  /\ flags' \in [Items -> SUBSET WorkFlag]
         /\ pending' \in [Queues -> Seq(Items)]
         /\ owed' \in [Clients -> SUBSET {"RUNNING", "QUEUED"}]
<1> DEFINE dequeue == "QUEUED" \in fl /\ "CANCELING" \notin fl
<1>1. /\ flags' = [flags EXCEPT ![w] = CanceledFlags(fl)]
      /\ \/ pending' = pending
         \/ pending' = [pending EXCEPT ![queue[w]] = RemoveFirst(@, w)]
      /\ \/ owed' = owed
         \/ owed' = [c \in Clients |-> IF target[c] = w THEN owed[c] \ {"QUEUED"} ELSE owed[c]]
  BY DEF cancel_async_locked
<1>2. CanceledFlags(fl) \in SUBSET WorkFlag
  BY DEF CanceledFlags, WorkFlag
<1>3. \A q \in Queues : RemoveFirst(pending[q], w) \in Seq(Items)
  BY RemoveList DEF TypeOK
<1>4. pending' \in [Queues -> Seq(Items)]
  <2>1. CASE pending' = pending
    BY <2>1 DEF TypeOK
  <2>2. CASE pending' = [pending EXCEPT ![queue[w]] = RemoveFirst(@, w)]
    <3>1. pending' = [x \in Queues |-> IF x = queue[w] THEN RemoveFirst(pending[x], w)
                                                       ELSE pending[x]]
      BY <2>2 DEF TypeOK
    <3> QED BY <1>3, <3>1 DEF TypeOK
  <2> QED BY <1>1, <2>1, <2>2
<1>5. flags' \in [Items -> SUBSET WorkFlag]
  BY <1>1, <1>2 DEF TypeOK
<1>6. owed' \in [Clients -> SUBSET {"RUNNING", "QUEUED"}]
  <2>1. \A c \in Clients : owed[c] \in SUBSET {"RUNNING", "QUEUED"}
    BY DEF TypeOK
  <2>2. CASE owed' = owed
    BY <2>2 DEF TypeOK
  <2>3. CASE owed' = [c \in Clients |-> IF target[c] = w THEN owed[c] \ {"QUEUED"} ELSE owed[c]]
    BY <2>1, <2>3
  <2> QED BY <1>1, <2>2, <2>3
<1> QED BY <1>4, <1>5, <1>6

\* What work_flush_locked changes keeps its type.
LEMMA FlushType ==
  ASSUME TypeOK, NEW w \in Works, NEW c \in Clients,
         NEW q \in Queues, NEW fl \in SUBSET WorkFlag, NEW p \in Seq(Items),
         "QUEUED" \in fl => w \in ToSet(p),
         work_flush_locked(c, w, fl, q, p)
  PROVE  /\ flags' \in [Items -> SUBSET WorkFlag]
         /\ pending' \in [Queues -> Seq(Items)]
         /\ qpc' \in [Queues -> {"none", "loop", "wait", "run", "dead"}]
         /\ pc' \in [Clients -> {"idle", "flush", "cancel", "drain", "join", "tjoin"}]
         /\ target' \in [Clients -> Works \cup Queues \cup {None}]
         /\ sem' \in [Clients -> {0, 1}]
         /\ owed' \in [Clients -> SUBSET {"RUNNING", "QUEUED"}]
<1>1. queue_flusher_locked(p, fl, w, c) \in Seq(Items)
  BY FlusherList
<1> QED BY <1>1 DEF work_flush_locked, notify_queue_locked, Block, TypeOK, WorkFlag

\* Flags without K_WORK_DELAYED are flags.
LEMMA UnscheduledType ==
  ASSUME TypeOK, NEW d \in Delayable
  PROVE  /\ d \in Works
         /\ UnscheduledFlags(d) \in SUBSET WorkFlag
         /\ SameButDelayed(UnscheduledFlags(d), flags[d])
         /\ UnscheduledList(d) \in SUBSET Delayable
BY WorkQueueAssumption DEF TypeOK, UnscheduledFlags, UnscheduledList, SameButDelayed, Items

\* cancel_sync_locked, for a client that was idle.
LEMMA CancelSyncEffect ==
  ASSUME IInv, NEW c \in Clients, pc[c] = "idle", NEW w \in Works, NEW fl,
         cancel_sync_locked(c, w, fl)
  PROVE  /\ pc' \in [Clients -> {"idle", "flush", "cancel", "drain", "join", "tjoin"}]
         /\ target' \in [Clients -> Works \cup Queues \cup {None}]
         /\ sem' \in [Clients -> {0, 1}]
         /\ cancels' \in Seq(Clients)
         /\ CancellersWait'
         /\ \A x \in Clients : pc[x] = "flush" => pc'[x] = "flush" /\ sem'[x] = sem[x]
<1>0. cancels \in Seq(Clients) /\ ToSet(cancels) \subseteq Clients
  BY ListElements DEF IInv, TypeOK
<1>1. CASE UNCHANGED <<cancels, pc, target, sem>>
  BY <1>1 DEF IInv, TypeOK, Places, CancellersWait
<1>2. CASE /\ cancels' = Append(cancels, c)
           /\ Block(c, "cancel", w)
           /\ sem' = [sem EXCEPT ![c] = 0]
  <2>1. cancels' \in Seq(Clients) /\ ToSet(cancels') = ToSet(cancels) \cup {c}
    BY <1>0, <1>2, AppendList
  <2>2. \A x \in Clients : /\ pc'[x] = IF x = c THEN "cancel" ELSE pc[x]
                           /\ sem'[x] = IF x = c THEN 0 ELSE sem[x]
    BY <1>2 DEF Block, IInv, TypeOK
  <2>3. CancellersWait'
    BY <1>0, <2>1, <2>2 DEF IInv, Places, CancellersWait
  <2>4. \A x \in Clients : pc[x] = "flush" => pc'[x] = "flush" /\ sem'[x] = sem[x]
    BY <2>2
  <2>5. /\ pc' \in [Clients -> {"idle", "flush", "cancel", "drain", "join", "tjoin"}]
        /\ target' \in [Clients -> Works \cup Queues \cup {None}]
        /\ sem' \in [Clients -> {0, 1}]
    BY <1>2 DEF Block, IInv, TypeOK
  <2> QED BY <2>1, <2>3, <2>4, <2>5
<1> QED BY <1>1, <1>2 DEF cancel_sync_locked

-----------------------------------------------------------------------------
(* One lemma for each action *)

\* The invariant is kept by k_work_submit_to_queue.
LEMMA SubmitStep ==
  ASSUME IInv, NEW ctx, NEW q \in Queues \cup {None}, NEW w \in Works,
         k_work_submit_to_queue(ctx, q, w)
  PROVE  IInv'
<1>1. /\ submit_to_queue_locked(w, q, ctx, flags[w])
      /\ UNCHANGED <<qflags, cur, timerVars, clientVars>>
  BY DEF k_work_submit_to_queue
<1>2. flags[w] \in SUBSET WorkFlag /\ SameButDelayed(flags[w], flags[w])
  BY DEF IInv, TypeOK, Items, SameButDelayed
<1>3. TypeOK'
  BY <1>1, <1>2, SubmitType DEF IInv, TypeOK, timerVars, clientVars
<1>4. UNCHANGED <<qflags, cur, pc, sem, cancels>>
  BY <1>1 DEF clientVars
<1> QED BY <1>1, <1>2, <1>3, <1>4, SubmitKeepsPlaces DEF IInv

\* The invariant is kept by k_work_flush.
LEMMA FlushStep ==
  ASSUME IInv, NEW c \in Clients, NEW w \in Works, k_work_flush(c, w)
  PROVE  IInv'
<1> DEFINE q == queue[w]
           p == pending[queue[w]]
<1>1. /\ pc[c] = "idle"
      /\ flags[w] \cap {"QUEUED", "RUNNING"} # {}
      /\ work_flush_locked(c, w, flags[w], q, p)
      /\ UNCHANGED <<queue, qflags, cur, timerVars, cancels>>
  BY DEF k_work_flush
<1>2. q \in Queues
  BY <1>1 DEF IInv, Places, HasQueue
<1>3. p \in Seq(Items) /\ Distinct(p)
  BY <1>2 DEF IInv, TypeOK, Places, ListsDistinct
<1>4. "QUEUED" \in flags[w] => w \in ToSet(p)
  BY <1>2 DEF IInv, Places, QueuedPlace
<1>5. flags[w] \in SUBSET WorkFlag /\ "FLUSHING" \notin flags[w]
  BY DEF IInv, TypeOK, Items, Places, OnlyFlushersFlush
<1>6. TypeOK'
  BY <1>1, <1>2, <1>3, <1>4, <1>5, FlushType DEF IInv, TypeOK, timerVars
<1>7. queue' = [queue EXCEPT ![w] = q]
  BY <1>1 DEF IInv, TypeOK
<1>8. ToSet(p) = ToSet(pending[q]) \cup (IF "QUEUED" \in flags[w] THEN {w} ELSE {})
  BY <1>4
<1> HIDE DEF p, q
<1>9. Places' /\ QueueState'
  BY <1>1, <1>2, <1>3, <1>5, <1>6, <1>7, <1>8, FlushKeepsPlaces DEF q
<1> QED BY <1>6, <1>9 DEF IInv

\* The invariant is kept by k_work_cancel.
LEMMA CancelStep ==
  ASSUME IInv, NEW ctx, NEW w \in Works, k_work_cancel(ctx, w)
  PROVE  IInv'
<1>1. /\ cancel_async_locked(w, flags[w])
      /\ UNCHANGED <<queue, threadVars, timerVars, pc, target, sem, cancels>>
  BY DEF k_work_cancel
<1>2. flags[w] \in SUBSET WorkFlag /\ SameButDelayed(flags[w], flags[w])
  BY DEF IInv, TypeOK, Items, SameButDelayed
<1>3. TypeOK'
  BY <1>1, <1>2, CancelType DEF IInv, TypeOK, threadVars, timerVars
<1>4. CancellersWait' /\ UNCHANGED <<queue, qflags, qpc, cur, pc, sem>>
  BY <1>1 DEF IInv, Places, CancellersWait, threadVars
<1> QED BY <1>1, <1>2, <1>3, <1>4, CancelKeepsPlaces DEF IInv

\* The invariant is kept by k_work_cancel_sync.
LEMMA CancelSyncStep ==
  ASSUME IInv, NEW c \in Clients, NEW w \in Works, k_work_cancel_sync(c, w)
  PROVE  IInv'
<1>1. /\ pc[c] = "idle"
      /\ cancel_async_locked(w, flags[w])
      /\ cancel_sync_locked(c, w, flags[w])
      /\ UNCHANGED <<queue, threadVars, timerVars>>
  BY DEF k_work_cancel_sync
<1>2. flags[w] \in SUBSET WorkFlag /\ SameButDelayed(flags[w], flags[w])
  BY DEF IInv, TypeOK, Items, SameButDelayed
<1>3. TypeOK'
  BY <1>1, <1>2, CancelType, CancelSyncEffect DEF IInv, TypeOK, threadVars, timerVars
<1>4. /\ CancellersWait' /\ UNCHANGED <<queue, qflags, qpc, cur>>
      /\ \A x \in Clients : pc[x] = "flush" => pc'[x] = "flush" /\ sem'[x] = sem[x]
  BY <1>1, CancelSyncEffect DEF threadVars
<1> QED BY <1>1, <1>2, <1>3, <1>4, CancelKeepsPlaces DEF IInv

\* The invariant is kept by k_work_cancel_delayable.
LEMMA CancelDelayableStep ==
  ASSUME IInv, NEW ctx, NEW d \in Delayable, k_work_cancel_delayable(ctx, d)
  PROVE  IInv'
<1> DEFINE fl == UnscheduledFlags(d)
<1>1. /\ armed' = UnscheduledList(d)
      /\ cancel_async_locked(d, fl)
      /\ UNCHANGED <<queue, threadVars, dqueue, firing, fault, pc, target, sem, cancels>>
  BY DEF k_work_cancel_delayable
<1>2. /\ d \in Works /\ fl \in SUBSET WorkFlag /\ SameButDelayed(fl, flags[d])
      /\ UnscheduledList(d) \in SUBSET Delayable
  BY UnscheduledType DEF IInv
<1> HIDE DEF fl
<1>3. TypeOK'
  BY <1>1, <1>2, CancelType DEF IInv, TypeOK, threadVars
<1>4. CancellersWait' /\ UNCHANGED <<queue, qflags, qpc, cur, pc, sem>>
  BY <1>1 DEF IInv, Places, CancellersWait, threadVars
<1> QED BY <1>1, <1>2, <1>3, <1>4, CancelKeepsPlaces DEF IInv

\* The invariant is kept by k_work_cancel_delayable_sync.
LEMMA CancelDelayableSyncStep ==
  ASSUME IInv, NEW c \in Clients, NEW d \in Delayable, k_work_cancel_delayable_sync(c, d)
  PROVE  IInv'
<1> DEFINE fl == UnscheduledFlags(d)
<1>1. /\ pc[c] = "idle"
      /\ armed' = UnscheduledList(d)
      /\ cancel_async_locked(d, fl)
      /\ cancel_sync_locked(c, d, fl)
      /\ UNCHANGED <<queue, threadVars, dqueue, firing, fault>>
  BY DEF k_work_cancel_delayable_sync
<1>2. /\ d \in Works /\ fl \in SUBSET WorkFlag /\ SameButDelayed(fl, flags[d])
      /\ UnscheduledList(d) \in SUBSET Delayable
  BY UnscheduledType DEF IInv
<1> HIDE DEF fl
<1>3. TypeOK'
  BY <1>1, <1>2, CancelType, CancelSyncEffect DEF IInv, TypeOK, threadVars
<1>4. /\ CancellersWait' /\ UNCHANGED <<queue, qflags, qpc, cur>>
      /\ \A x \in Clients : pc[x] = "flush" => pc'[x] = "flush" /\ sem'[x] = sem[x]
  BY <1>1, <1>2, CancelSyncEffect DEF threadVars
<1> QED BY <1>1, <1>2, <1>3, <1>4, CancelKeepsPlaces DEF IInv

\* Steps that leave the items, the lists and the threads of the queues alone.
LEMMA QuietStep ==
  ASSUME IInv, TypeOK', UNCHANGED <<pending, queue, qflags, qpc, cur, pc, sem, cancels>>,
         \A x \in Works, f \in {"QUEUED", "RUNNING", "FLUSHING"} :
           f \in flags'[x] <=> f \in flags[x]
  PROVE  IInv'
<1>1. ListsDistinct' /\ FlusherPlace' /\ CancellersWait' /\ ThreadState'
  BY DEF IInv, Places, ListsDistinct, FlusherPlace, FlusherAt, CancellersWait, ThreadState
<1>2. QueuedPlace' /\ RunningPlace' /\ HasQueue' /\ OnlyFlushersFlush'
  BY DEF IInv, Places, QueuedPlace, RunningPlace, HasQueue, OnlyFlushersFlush
<1>3. QueueState'
  BY DEF IInv, QueueState, NoLostNotify, PluggedIsIdle, DeadIsEmpty
<1> QED BY <1>1, <1>2, <1>3 DEF IInv, Places

\* schedule_for_queue_locked, for k_work_schedule_ and k_work_reschedule_for_queue.
LEMMA ScheduleLocked ==
  ASSUME IInv, NEW ctx, NEW q \in Queues, NEW d \in Delayable, NEW delay \in Delays,
         NEW fl \in SUBSET WorkFlag, SameButDelayed(fl, flags[d]),
         NEW list \in SUBSET Delayable,
         schedule_for_queue_locked(ctx, q, d, delay, fl, list),
         UNCHANGED <<qflags, cur, firing, clientVars>>
  PROVE  IInv'
<1>0. d \in Works /\ d \in Items
  BY WorkQueueAssumption DEF Items
<1>1. CASE delay = "no_wait"
  <2>1. /\ submit_to_queue_locked(d, q, ctx, fl)
        /\ armed' = list
        /\ UNCHANGED <<dqueue, fault>>
    BY <1>1 DEF schedule_for_queue_locked
  <2>2. TypeOK'
    BY <1>0, <2>1, SubmitType DEF IInv, TypeOK, clientVars
  <2>3. UNCHANGED <<qflags, cur, pc, sem, cancels>>
    BY DEF clientVars
  <2> QED BY <1>0, <2>1, <2>2, <2>3, SubmitKeepsPlaces DEF IInv
<1>2. CASE delay # "no_wait"
  <2>1. /\ flags' = [flags EXCEPT ![d] = fl \cup {"DELAYED"}]
        /\ dqueue' = [dqueue EXCEPT ![d] = q]
        /\ UNCHANGED <<queue, pending, qpc>>
    BY <1>2 DEF schedule_for_queue_locked
  <2>6. z_add_timeout(d, delay, list)
    BY <1>2 DEF schedule_for_queue_locked
  <2>2. fl \cup {"DELAYED"} \in SUBSET WorkFlag
    BY DEF WorkFlag
  <2>7. fault \in BOOLEAN
    BY DEF IInv, TypeOK
  <2>3. fault' \in BOOLEAN /\ armed' \in SUBSET Delayable
    <3>1. CASE delay = "forever"
      BY <2>6, <2>7, <3>1 DEF z_add_timeout
    <3>2. CASE delay # "forever"
      <4>1. fault' = (d \in list) /\ armed' = list \cup {d}
        BY <2>6, <3>2 DEF z_add_timeout
      <4> QED BY <4>1
    <3> QED BY <3>1, <3>2
  <2>4. TypeOK'
    BY <1>0, <2>1, <2>2, <2>3 DEF IInv, TypeOK, clientVars
  <2>5. \A x \in Works, f \in {"QUEUED", "RUNNING", "FLUSHING"} :
          f \in flags'[x] <=> f \in flags[x]
    BY <1>0, <2>1 DEF IInv, TypeOK, Items, SameButDelayed
  <2> QED BY <2>1, <2>4, <2>5, QuietStep DEF clientVars
<1> QED BY <1>1, <1>2

\* The invariant is kept by k_work_schedule_for_queue and k_work_reschedule_for_queue.
LEMMA ScheduleStep ==
  ASSUME IInv, NEW ctx, NEW q \in Queues, NEW d \in Delayable, NEW delay \in Delays,
         \/ k_work_schedule_for_queue(ctx, q, d, delay)
         \/ k_work_reschedule_for_queue(ctx, q, d, delay)
  PROVE  IInv'
<1>1. CASE k_work_schedule_for_queue(ctx, q, d, delay)
  <2>1. /\ flags[d] \in SUBSET WorkFlag /\ SameButDelayed(flags[d], flags[d])
        /\ armed \in SUBSET Delayable
    BY WorkQueueAssumption DEF IInv, TypeOK, Items, SameButDelayed
  <2> QED BY <1>1, <2>1, ScheduleLocked DEF k_work_schedule_for_queue
<1>2. CASE k_work_reschedule_for_queue(ctx, q, d, delay)
  BY <1>2, UnscheduledType, ScheduleLocked DEF k_work_reschedule_for_queue, IInv
<1> QED BY <1>1, <1>2

\* The invariant is kept by k_work_flush_delayable: submits the item and queues the flusher behind it.
LEMMA FlushDelayableStep ==
  ASSUME IInv, NEW c \in Clients, NEW d \in Delayable, k_work_flush_delayable(c, d)
  PROVE  IInv'
<1> DEFINE fl  == UnscheduledFlags(d)
           sub == d \in armed /\ "DELAYED" \in flags[d] /\ Submittable(d, dqueue[d], None, fl)
           fl2 == IF sub THEN fl \cup {"QUEUED"} ELSE fl
           q   == IF sub THEN SubmitQueue(d, dqueue[d]) ELSE queue[d]
           p   == IF sub THEN Append(pending[q], d) ELSE pending[q]
<1>0. d \in Works /\ d \in Items
  BY WorkQueueAssumption DEF Items
<1>1. /\ pc[c] = "idle"
      /\ armed' = UnscheduledList(d)
      /\ queue' = [queue EXCEPT ![d] = q]
      /\ UNCHANGED <<qflags, cur, dqueue, firing, fault, cancels>>
  BY DEF k_work_flush_delayable
<1>2. /\ fl \in SUBSET WorkFlag /\ SameButDelayed(fl, flags[d])
      /\ UnscheduledList(d) \in SUBSET Delayable
  BY UnscheduledType DEF IInv
<1>3. sub => /\ q \in Queues /\ "STARTED" \in qflags[q]
             /\ "PLUGGED" \in qflags[q] => "DRAIN" \in qflags[q]
             /\ "QUEUED" \notin fl
             /\ "RUNNING" \in flags[d] => q = queue[d]
  BY WorkQueueAssumption
    DEF Submittable, queue_submit_locked, SubmitQueue, IInv, TypeOK
<1>4. CASE /\ fl2 \cap {"QUEUED", "RUNNING"} = {}
           /\ flags' = [flags EXCEPT ![d] = fl2]
           /\ UNCHANGED <<pending, qpc, pc, target, sem, owed>>
  <2>1. ~sub /\ q = queue[d] /\ fl2 = fl
    BY <1>4
  <2>2. queue' = queue
    BY <1>1, <2>1 DEF IInv, TypeOK
  <2>3. TypeOK'
    BY <1>0, <1>1, <1>2, <1>4, <2>1, <2>2 DEF IInv, TypeOK
  <2>4. \A x \in Works, f \in {"QUEUED", "RUNNING", "FLUSHING"} :
          f \in flags'[x] <=> f \in flags[x]
    BY <1>0, <1>2, <1>4, <2>1 DEF IInv, TypeOK, Items, SameButDelayed
  <2> QED BY <1>1, <1>4, <2>2, <2>3, <2>4, QuietStep
<1>5. CASE /\ fl2 \cap {"QUEUED", "RUNNING"} # {}
           /\ work_flush_locked(c, d, fl2, q, p)
  <2> HIDE DEF fl
  <2>1. /\ "RUNNING" \in fl <=> "RUNNING" \in flags[d]
        /\ "QUEUED" \in fl <=> "QUEUED" \in flags[d]
        /\ "FLUSHING" \in fl <=> "FLUSHING" \in flags[d]
    BY <1>2 DEF SameButDelayed
  <2>2. "FLUSHING" \notin flags[d]
    BY <1>0 DEF IInv, Places, OnlyFlushersFlush
  <2> HIDE DEF sub
  <2>3. /\ fl2 \in SUBSET WorkFlag
        /\ "RUNNING" \in fl2 <=> "RUNNING" \in flags[d]
        /\ "QUEUED" \in flags[d] => "QUEUED" \in fl2
        /\ "FLUSHING" \notin fl2
        /\ "QUEUED" \in fl2 /\ "QUEUED" \notin flags[d] => sub
    BY <1>2, <2>1, <2>2 DEF WorkFlag
  <2>4. flags[d] \cap {"QUEUED", "RUNNING"} # {} => q = queue[d]
    BY <1>3, <2>1
  <2>5. q \in Queues
    <3>1. CASE sub
      BY <1>3, <3>1
    <3>2. CASE ~sub
      <4>1. flags[d] \cap {"QUEUED", "RUNNING"} # {} /\ q = queue[d]
        BY <1>5, <2>1, <3>2
      <4> QED BY <1>0, <4>1 DEF IInv, Places, HasQueue
    <3> QED BY <3>1, <3>2
  <2> HIDE DEF q
  <2>6. pending[q] \in Seq(Items) /\ Distinct(pending[q])
    BY <2>5 DEF IInv, TypeOK, Places, ListsDistinct
  <2>7. d \in ToSet(pending[q]) <=> "QUEUED" \in flags[d] /\ queue[d] = q
    BY <1>0, <2>5 DEF IInv, Places, QueuedPlace
  <2>8. /\ p \in Seq(Items) /\ Distinct(p)
        /\ ToSet(p) = ToSet(pending[q]) \cup (IF "QUEUED" \in fl2 THEN {d} ELSE {})
    <3>1. CASE sub
      <4>1. d \notin ToSet(pending[q])
        BY <1>3, <2>1, <2>7, <3>1
      <4>2. /\ Append(pending[q], d) \in Seq(Items)
            /\ ToSet(Append(pending[q], d)) = ToSet(pending[q]) \cup {d}
            /\ Distinct(Append(pending[q], d))
        BY <1>0, <2>6, <4>1, AppendList
      <4> QED BY <3>1, <4>2
    <3>2. CASE ~sub
      <4>1. "QUEUED" \in fl2 => d \in ToSet(pending[q])
        BY <2>1, <2>4, <2>7, <3>2
      <4> QED BY <2>6, <3>2, <4>1
    <3> QED BY <3>1, <3>2
  <2> HIDE DEF p, fl2
  <2>9. "QUEUED" \in fl2 => d \in ToSet(p)
    BY <2>8
  <2>10. queue' \in [Works -> Queues \cup {None}]
    BY <1>1, <2>5 DEF IInv, TypeOK
  <2>11. TypeOK'
    <3>1. /\ flags' \in [Items -> SUBSET WorkFlag]
          /\ pending' \in [Queues -> Seq(Items)]
          /\ qpc' \in [Queues -> {"none", "loop", "wait", "run", "dead"}]
          /\ pc' \in [Clients -> {"idle", "flush", "cancel", "drain", "join", "tjoin"}]
          /\ target' \in [Clients -> Works \cup Queues \cup {None}]
          /\ sem' \in [Clients -> {0, 1}]
          /\ owed' \in [Clients -> SUBSET {"RUNNING", "QUEUED"}]
      BY <1>0, <1>5, <2>3, <2>5, <2>8, <2>9, FlushType DEF IInv
    <3> QED BY <1>1, <1>2, <2>10, <3>1 DEF IInv, TypeOK
  <2>12. "QUEUED" \in fl2 /\ "QUEUED" \notin flags[d]
           => "STARTED" \in qflags[q] /\ ("PLUGGED" \in qflags[q] => "DRAIN" \in qflags[q])
    BY <1>3, <2>3 DEF q
  <2>13. Places' /\ QueueState'
    BY <1>0, <1>1, <1>5, <2>3, <2>4, <2>5, <2>8, <2>11, <2>12, FlushKeepsPlaces
  <2> QED BY <2>11, <2>13 DEF IInv
<1> QED BY <1>4, <1>5 DEF k_work_flush_delayable

\* The invariant is kept by sys_clock_announce, which takes a timeout off the list.
LEMMA ExpireStep ==
  ASSUME IInv, NEW d \in Delayable, Expire(d)
  PROVE  IInv'
<1>1. TypeOK'
  BY DEF Expire, IInv, TypeOK, itemVars, threadVars, clientVars
<1> QED BY <1>1, QuietStep DEF Expire, itemVars, threadVars, clientVars

\* The invariant is kept by work_timeout.
LEMMA TimeoutStep ==
  ASSUME IInv, work_timeout
  PROVE  IInv'
<1> DEFINE d  == firing
           fl == flags[firing] \ {"DELAYED"}
<1>0. d \in Works /\ firing' = None
  BY WorkQueueAssumption DEF work_timeout, IInv, TypeOK
<1>1. CASE "DELAYED" \notin flags[firing] /\ UNCHANGED <<itemVars, qpc>>
  <2>1. TypeOK'
    BY <1>0, <1>1 DEF work_timeout, IInv, TypeOK, itemVars, clientVars
  <2> QED BY <1>1, <2>1, QuietStep DEF work_timeout, itemVars, clientVars
<1>2. CASE submit_to_queue_locked(firing, dqueue[firing], None, flags[firing] \ {"DELAYED"})
  <2>1. fl \in SUBSET WorkFlag /\ SameButDelayed(fl, flags[d])
    BY <1>0 DEF IInv, TypeOK, Items, SameButDelayed
  <2>2. dqueue[firing] \in Queues \cup {None}
    BY DEF work_timeout, IInv, TypeOK
  <2>3. TypeOK'
    BY <1>0, <1>2, <2>1, <2>2, SubmitType DEF work_timeout, IInv, TypeOK, clientVars
  <2>4. UNCHANGED <<qflags, cur, pc, sem, cancels>>
    BY DEF work_timeout, clientVars
  <2> QED BY <1>0, <1>2, <2>1, <2>2, <2>3, <2>4, SubmitKeepsPlaces DEF IInv
<1> QED BY <1>1, <1>2 DEF work_timeout

\* The invariant is kept by work_queue_main, from the list to the handler.
LEMMA RunNextStep ==
  ASSUME IInv, NEW q \in Queues, RunNext(q)
  PROVE  IInv'
<1> DEFINE i == Head(pending[q])
<1>1. /\ qpc[q] = "loop"
      /\ pending[q] # <<>>
      /\ pending' = [pending EXCEPT ![q] = Tail(@)]
      /\ qflags' = [qflags EXCEPT ![q] = @ \cup {"BUSY"}]
      /\ flags' = [flags EXCEPT ![i] = (@ \cup {"RUNNING"}) \ {"QUEUED"}]
      /\ cur' = [cur EXCEPT ![q] = i]
      /\ qpc' = [qpc EXCEPT ![q] = "run"]
      /\ owed' = [c \in Clients |-> IF target[c] = i /\ "QUEUED" \in owed[c]
                                      THEN {"RUNNING"} ELSE owed[c]]
      /\ UNCHANGED <<queue, timerVars, pc, target, sem, cancels>>
  BY DEF RunNext
<1>2. pending[q] \in Seq(Items) /\ Distinct(pending[q])
  BY DEF IInv, TypeOK, Places, ListsDistinct
<1>3. /\ Tail(pending[q]) \in Seq(Items)
      /\ i \in Items /\ i \in ToSet(pending[q])
      /\ ToSet(Tail(pending[q])) = ToSet(pending[q]) \ {i}
      /\ Distinct(Tail(pending[q]))
  BY <1>1, <1>2, TailList
<1> HIDE DEF i
<1>4. cur[q] = None /\ i # None
  BY <1>1, <1>3, WorkQueueAssumption DEF IInv, Places, ThreadState, Items
<1>5. TypeOK'
  <2>1. owed' \in [Clients -> SUBSET {"RUNNING", "QUEUED"}]
    BY <1>1 DEF IInv, TypeOK
  <2>2. flags' \in [Items -> SUBSET WorkFlag]
    BY <1>1, <1>3 DEF IInv, TypeOK, WorkFlag
  <2>3. pending' \in [Queues -> Seq(Items)]
    BY <1>1, <1>3 DEF IInv, TypeOK
  <2>4. /\ qflags' \in [Queues -> SUBSET QFlag]
        /\ qpc' \in [Queues -> {"none", "loop", "wait", "run", "dead"}]
        /\ cur' \in [Queues -> Items \cup {None}]
    BY <1>1, <1>3 DEF IInv, TypeOK, QFlag
  <2> QED BY <1>1, <2>1, <2>2, <2>3, <2>4 DEF IInv, TypeOK, timerVars
<1>6. \A x \in Queues :
        /\ ToSet(pending'[x]) = IF x = q THEN ToSet(pending[x]) \ {i} ELSE ToSet(pending[x])
        /\ Distinct(pending'[x])
        /\ x # q => pending'[x] = pending[x] /\ qflags'[x] = qflags[x]
        /\ cur'[x] = IF x = q THEN i ELSE cur[x]
        /\ qpc'[x] = IF x = q THEN "run" ELSE qpc[x]
  BY <1>1, <1>3 DEF IInv, TypeOK, Places, ListsDistinct
<1>7. \A x \in Works : flags'[x] = IF x = i THEN (flags[x] \cup {"RUNNING"}) \ {"QUEUED"}
                                            ELSE flags[x]
  BY <1>1, <1>3 DEF IInv, TypeOK, Items
<1>7a. queue' = queue /\ pc' = pc /\ sem' = sem
  BY <1>1
<1>8. i \in Works => "QUEUED" \in flags[i] /\ queue[i] = q /\ "RUNNING" \notin flags[i]
  <2> SUFFICES ASSUME i \in Works
               PROVE  "QUEUED" \in flags[i] /\ queue[i] = q /\ "RUNNING" \notin flags[i]
    OBVIOUS
  <2>1. "QUEUED" \in flags[i] /\ queue[i] = q
    BY <1>3 DEF IInv, Places, QueuedPlace
  <2>2. cur[q] = i <=> "RUNNING" \in flags[i] /\ queue[i] = q
    BY DEF IInv, Places, RunningPlace
  <2> QED BY <1>4, <2>1, <2>2
<1>9. ListsDistinct'
  BY <1>6 DEF ListsDistinct
<1>10. QueuedPlace'
  <2> SUFFICES ASSUME NEW x \in Works, NEW y \in Queues
               PROVE  x \in ToSet(pending'[y]) <=> "QUEUED" \in flags'[x] /\ queue'[x] = y
    BY DEF QueuedPlace
  <2>1. x \in ToSet(pending[y]) <=> "QUEUED" \in flags[x] /\ queue[x] = y
    BY DEF IInv, Places, QueuedPlace
  <2>0. ToSet(pending'[y]) = IF y = q THEN ToSet(pending[y]) \ {i} ELSE ToSet(pending[y])
    BY <1>6
  <2>2. CASE x = i
    BY <1>7, <1>7a, <1>8, <2>0, <2>1, <2>2
  <2>3. CASE x # i
    BY <1>7, <1>7a, <2>0, <2>1, <2>3
  <2> QED BY <2>2, <2>3
<1>11. RunningPlace'
  <2> SUFFICES ASSUME NEW x \in Works, NEW y \in Queues
               PROVE  cur'[y] = x <=> "RUNNING" \in flags'[x] /\ queue'[x] = y
    BY DEF RunningPlace
  <2>1. cur[y] = x <=> "RUNNING" \in flags[x] /\ queue[x] = y
    BY DEF IInv, Places, RunningPlace
  <2>0. cur'[y] = IF y = q THEN i ELSE cur[y]
    BY <1>6
  <2>2. CASE x = i
    BY <1>7, <1>7a, <1>8, <2>0, <2>1, <2>2
  <2>3. CASE x # i
    <3>1. x # None
      BY WorkQueueAssumption
    <3> QED BY <1>4, <1>7, <1>7a, <2>0, <2>1, <2>3, <3>1
  <2> QED BY <2>2, <2>3
<1>12. HasQueue' /\ OnlyFlushersFlush'
  BY <1>1, <1>7, <1>8 DEF IInv, Places, HasQueue, OnlyFlushersFlush
<1>13. FlusherPlace'
  <2>1. \A c \in Clients, y \in Queues :
          (c \in ToSet(pending'[y]) \/ cur'[y] = c) <=> FlusherAt(c, y)
    <3> SUFFICES ASSUME NEW c \in Clients, NEW y \in Queues
                 PROVE  (c \in ToSet(pending'[y]) \/ cur'[y] = c) <=> FlusherAt(c, y)
      OBVIOUS
    <3>1. /\ ToSet(pending'[y]) = IF y = q THEN ToSet(pending[y]) \ {i} ELSE ToSet(pending[y])
          /\ cur'[y] = IF y = q THEN i ELSE cur[y]
      BY <1>6
    <3>2. c # None
      BY WorkQueueAssumption
    <3> QED BY <1>3, <1>4, <3>1, <3>2 DEF FlusherAt
  <2>2. \A c \in Clients, y \in Queues : ~(c \in ToSet(pending'[y]) /\ cur'[y] = c)
    <3> SUFFICES ASSUME NEW c \in Clients, NEW y \in Queues
                 PROVE  ~(c \in ToSet(pending'[y]) /\ cur'[y] = c)
      OBVIOUS
    <3>1. /\ ToSet(pending'[y]) = IF y = q THEN ToSet(pending[y]) \ {i} ELSE ToSet(pending[y])
          /\ cur'[y] = IF y = q THEN i ELSE cur[y]
      BY <1>6
    <3>2. ~(c \in ToSet(pending[y]) /\ cur[y] = c)
      BY DEF IInv, Places, FlusherPlace
    <3> QED BY <3>1, <3>2
  <2> QED BY <1>7a, <2>1, <2>2 DEF IInv, Places, FlusherPlace, FlusherAt
<1>14. CancellersWait'
  BY <1>1 DEF IInv, Places, CancellersWait
<1>15. ThreadState'
  <2>1. \A x \in Queues : x # q => UNCHANGED <<pending[x], qflags[x], cur[x], qpc[x]>>
    BY <1>6
  <2>2. qpc'[q] = "run" /\ cur'[q] # None
    BY <1>4, <1>6
  <2> QED BY <2>1, <2>2 DEF IInv, Places, ThreadState
<1>16. QueueState'
  <2>1. \A x \in Queues : x # q => UNCHANGED <<pending[x], qflags[x], cur[x], qpc[x]>>
    BY <1>6
  <2>2. ~("PLUGGED" \in qflags[q] /\ "DRAIN" \notin qflags[q])
    BY <1>1 DEF IInv, QueueState, PluggedIsIdle
  <2>3. ~("PLUGGED" \in qflags'[q] /\ "DRAIN" \notin qflags'[q])
    BY <1>1, <2>2 DEF IInv, TypeOK
  <2>4. qpc'[q] = "run"
    BY <1>6
  <2> QED BY <2>1, <2>3, <2>4 DEF IInv, QueueState, NoLostNotify, PluggedIsIdle, DeadIsEmpty
<1> QED BY <1>5, <1>9, <1>10, <1>11, <1>12, <1>13, <1>14, <1>15, <1>16 DEF IInv, Places

\* The invariant is kept by work_queue_main, after the handler.
LEMMA HandlerDoneStep ==
  ASSUME IInv, NEW q \in Queues, HandlerDone(q)
  PROVE  IInv'
<1> DEFINE i == cur[q]
           nc == finalize_cancel_locked(i)
           released == finalize_flush_locked(i) \cup (ToSet(cancels) \ ToSet(nc))
<1>1. /\ qpc[q] = "run"
      /\ flags' = [flags EXCEPT ![i] = @ \ {"RUNNING", "FLUSHING", "CANCELING"}]
      /\ cancels' = nc
      /\ sem' = [c \in Clients |-> IF c \in released THEN 1 ELSE sem[c]]
      /\ owed' = [c \in Clients |-> IF target[c] = i THEN owed[c] \ {"RUNNING"} ELSE owed[c]]
      /\ qflags' = [qflags EXCEPT ![q] = @ \ {"BUSY"}]
      /\ cur' = [cur EXCEPT ![q] = None]
      /\ qpc' = [qpc EXCEPT ![q] = "loop"]
      /\ UNCHANGED <<queue, pending, timerVars, pc, target>>
  BY DEF HandlerDone
<1>2. i \in Items /\ i # None
  BY <1>1 DEF IInv, TypeOK, Places, ThreadState
<1>3. nc \in Seq(Clients) /\ ToSet(nc) \subseteq ToSet(cancels)
  BY CancellerList DEF IInv, TypeOK
<1>4. finalize_flush_locked(i) = {} \/ finalize_flush_locked(i) = {i}
  BY DEF finalize_flush_locked
<1> HIDE DEF i, nc
<1>5. TypeOK'
  <2>1. \A c \in Clients : owed[c] \in SUBSET {"RUNNING", "QUEUED"}
    BY DEF IInv, TypeOK
  <2>2. owed' \in [Clients -> SUBSET {"RUNNING", "QUEUED"}]
    BY <1>1, <2>1
  <2>3. sem' \in [Clients -> {0, 1}]
    BY <1>1 DEF IInv, TypeOK
  <2>4. flags' \in [Items -> SUBSET WorkFlag]
    BY <1>1, <1>2 DEF IInv, TypeOK
  <2>5. /\ qflags' \in [Queues -> SUBSET QFlag]
        /\ qpc' \in [Queues -> {"none", "loop", "wait", "run", "dead"}]
        /\ cur' \in [Queues -> Items \cup {None}]
    BY <1>1 DEF IInv, TypeOK
  <2> QED BY <1>1, <1>3, <2>2, <2>3, <2>4, <2>5 DEF IInv, TypeOK, timerVars
<1>6. \A x \in Queues :
        /\ cur'[x] = IF x = q THEN None ELSE cur[x]
        /\ qpc'[x] = IF x = q THEN "loop" ELSE qpc[x]
        /\ qflags'[x] = IF x = q THEN qflags[x] \ {"BUSY"} ELSE qflags[x]
  BY <1>1 DEF IInv, TypeOK
<1>7. UNCHANGED <<queue, pending, pc>>
  BY <1>1
<1>8. \A x \in Works : flags'[x] = IF x = i THEN flags[x] \ {"RUNNING", "FLUSHING", "CANCELING"}
                                            ELSE flags[x]
  BY <1>1, <1>2 DEF IInv, TypeOK, Items
<1>9. ListsDistinct'
  BY <1>7 DEF IInv, Places, ListsDistinct
<1>10. QueuedPlace' /\ HasQueue' /\ OnlyFlushersFlush'
  <2>1. \A x \in Works : /\ "QUEUED" \in flags'[x] <=> "QUEUED" \in flags[x]
                         /\ "RUNNING" \in flags'[x] => "RUNNING" \in flags[x]
                         /\ "FLUSHING" \in flags'[x] => "FLUSHING" \in flags[x]
    BY <1>8
  <2>2. QueuedPlace'
    BY <1>7, <2>1 DEF IInv, Places, QueuedPlace
  <2>3. HasQueue'
    BY <1>7, <2>1 DEF IInv, Places, HasQueue
  <2>4. OnlyFlushersFlush'
    BY <2>1 DEF IInv, Places, OnlyFlushersFlush
  <2> QED BY <2>2, <2>3, <2>4
<1>11. RunningPlace'
  <2> SUFFICES ASSUME NEW x \in Works, NEW y \in Queues
               PROVE  cur'[y] = x <=> "RUNNING" \in flags'[x] /\ queue'[x] = y
    BY DEF RunningPlace
  <2>1. cur[y] = x <=> "RUNNING" \in flags[x] /\ queue[x] = y
    BY DEF IInv, Places, RunningPlace
  <2>2. cur[q] = x <=> "RUNNING" \in flags[x] /\ queue[x] = q
    BY DEF IInv, Places, RunningPlace
  <2>3. cur'[y] = IF y = q THEN None ELSE cur[y]
    BY <1>6
  <2>4. x # None
    BY WorkQueueAssumption
  <2> QED BY <1>7, <1>8, <2>1, <2>2, <2>3, <2>4 DEF i
<1>12. \A c \in Clients : pc[c] = "flush" /\ c # i => sem'[c] = sem[c]
  <2>1. ToSet(cancels) \subseteq Clients
    BY ListElements DEF IInv, TypeOK
  <2> QED BY <1>1, <1>4, <2>1 DEF IInv, Places, CancellersWait
<1>13. FlusherPlace'
  <2> SUFFICES ASSUME NEW c \in Clients
               PROVE  /\ \A x \in Queues : FlusherAt(c, x)' => pc'[c] = "flush" /\ sem'[c] = 0
                      /\ \A x, y \in Queues : FlusherAt(c, x)' /\ FlusherAt(c, y)' => x = y
                      /\ \A x \in Queues : ~(c \in ToSet(pending'[x]) /\ cur'[x] = c)
    BY DEF FlusherPlace
  <2>1. c # None
    BY WorkQueueAssumption
  <2>2. \A x \in Queues : /\ FlusherAt(c, x)' => FlusherAt(c, x)
                          /\ FlusherAt(c, x)' => x # q \/ c \in ToSet(pending[q])
                          /\ cur'[x] = c => cur[x] = c
    BY <1>6, <1>7, <2>1 DEF FlusherAt
  <2>3. /\ \A x \in Queues : FlusherAt(c, x) => pc[c] = "flush" /\ sem[c] = 0
        /\ \A x, y \in Queues : FlusherAt(c, x) /\ FlusherAt(c, y) => x = y
        /\ \A x \in Queues : ~(c \in ToSet(pending[x]) /\ cur[x] = c)
    BY DEF IInv, Places, FlusherPlace
  <2>4. c = i => FlusherAt(c, q) /\ c \notin ToSet(pending[q])
    BY <2>3 DEF FlusherAt, i
  <2>5. \A x \in Queues : FlusherAt(c, x)' => c # i
    BY <2>2, <2>3, <2>4
  <2>6. \A x \in Queues : FlusherAt(c, x)' => pc'[c] = "flush" /\ sem'[c] = 0
    BY <1>7, <1>12, <2>2, <2>3, <2>5
  <2>7. \A x \in Queues : ~(c \in ToSet(pending'[x]) /\ cur'[x] = c)
    BY <1>7, <2>2, <2>3
  <2> QED BY <2>2, <2>3, <2>6, <2>7
<1>14. CancellersWait'
  <2> SUFFICES ASSUME NEW c \in ToSet(cancels') PROVE pc'[c] = "cancel" /\ sem'[c] = 0
    BY DEF CancellersWait
  <2>1. c \in ToSet(nc) /\ c \in ToSet(cancels) /\ c \in Clients
    BY <1>1, <1>3, ListElements DEF IInv, TypeOK
  <2>2. pc[c] = "cancel" /\ sem[c] = 0
    BY <2>1 DEF IInv, Places, CancellersWait
  <2>3. c # i
    <3>1. c = i => FlusherAt(c, q)
      BY DEF FlusherAt, i
    <3> QED BY <2>1, <2>2, <3>1 DEF IInv, Places, FlusherPlace
  <2>4. c \notin released
    BY <1>4, <2>1, <2>3
  <2> QED BY <1>1, <1>7, <2>1, <2>2, <2>4
<1>15. ThreadState'
  <2>1. \A x \in Queues : x # q => UNCHANGED <<pending[x], qflags[x], cur[x], qpc[x]>>
    BY <1>6, <1>7
  <2>2. qpc'[q] = "loop" /\ cur'[q] = None
    BY <1>6
  <2> QED BY <2>1, <2>2 DEF IInv, Places, ThreadState
<1>16. QueueState'
  BY <1>1, <1>6, <1>7 DEF IInv, QueueState, NoLostNotify, PluggedIsIdle, DeadIsEmpty
<1> QED BY <1>5, <1>9, <1>10, <1>11, <1>13, <1>14, <1>15, <1>16 DEF IInv, Places

\* Steps that change neither items nor lists nor what is executed: control of
\* queues and threads, and clients that come and go.
LEMMA ControlStep ==
  ASSUME IInv, TypeOK', UNCHANGED <<flags, queue, pending, cur, cancels>>,
         \A c \in Clients : /\ pc[c] = "flush" /\ sem[c] = 0 => UNCHANGED <<pc[c], sem[c]>>
                            /\ pc[c] = "cancel" /\ sem[c] = 0 => UNCHANGED <<pc[c], sem[c]>>,
         \A q \in Queues : /\ qpc'[q] = "run" <=> qpc[q] = "run"
                           /\ qpc'[q] = "none" => pending[q] = <<>> /\ qflags'[q] = {},
         QueueState'
  PROVE  IInv'
<1>1. ListsDistinct' /\ QueuedPlace' /\ RunningPlace' /\ HasQueue' /\ OnlyFlushersFlush'
  BY DEF IInv, Places, ListsDistinct, QueuedPlace, RunningPlace, HasQueue, OnlyFlushersFlush
<1>2. FlusherPlace'
  BY DEF IInv, Places, FlusherPlace, FlusherAt
<1>3. CancellersWait'
  <2>1. ToSet(cancels) \subseteq Clients
    BY ListElements DEF IInv, TypeOK
  <2> QED BY <2>1 DEF IInv, Places, CancellersWait
<1>4. ThreadState'
  BY DEF IInv, Places, ThreadState
<1> QED BY <1>1, <1>2, <1>3, <1>4 DEF IInv, Places

\* The invariant is kept by the end of k_sem_take in a flush or a cancellation.
LEMMA SyncDoneStep ==
  ASSUME IInv, NEW c \in Clients, SyncDone(c)
  PROVE  IInv'
<1>1. TypeOK'
  BY DEF SyncDone, Block, IInv, TypeOK, itemVars, threadVars, timerVars
<1>2. QueueState'
  BY DEF SyncDone, itemVars, threadVars, IInv, QueueState, NoLostNotify, PluggedIsIdle, DeadIsEmpty
<1>3. \A x \in Clients : x # c => UNCHANGED <<pc[x], sem[x]>>
  BY DEF SyncDone, Block, IInv, TypeOK
<1>4. \A q \in Queues : qpc'[q] = "none" => pending[q] = <<>> /\ qflags'[q] = {}
  BY DEF SyncDone, threadVars, IInv, Places, ThreadState
<1> QED BY <1>1, <1>2, <1>3, <1>4, ControlStep DEF SyncDone, itemVars, threadVars

\* The invariant is kept by work_queue_main, the end of a drain.
LEMMA DrainedStep ==
  ASSUME IInv, NEW q \in Queues, Drained(q)
  PROVE  IInv'
<1>1. /\ qpc[q] = "loop" /\ pending[q] = <<>>
      /\ qflags' = [qflags EXCEPT ![q] = @ \ {"DRAIN"}]
      /\ qpc' = [qpc EXCEPT ![q] = "wait"]
      /\ pc' = [c \in Clients |-> IF pc[c] = "drain" /\ target[c] = q THEN "idle" ELSE pc[c]]
      /\ target' = [c \in Clients |-> IF pc[c] = "drain" /\ target[c] = q THEN None ELSE target[c]]
      /\ UNCHANGED <<itemVars, cur, timerVars, sem, cancels, owed>>
  BY DEF Drained
<1>2. cur[q] = None
  BY <1>1 DEF IInv, Places, ThreadState
<1>3. TypeOK'
  BY <1>1 DEF IInv, TypeOK, itemVars, timerVars
<1>4. \A x \in Queues : /\ qpc'[x] = IF x = q THEN "wait" ELSE qpc[x]
                        /\ qflags'[x] = IF x = q THEN qflags[x] \ {"DRAIN"} ELSE qflags[x]
  BY <1>1 DEF IInv, TypeOK
<1>5. UNCHANGED <<flags, queue, pending, cur, cancels>>
  BY <1>1 DEF itemVars
<1>6. QueueState'
  BY <1>1, <1>2, <1>4, <1>5, SMTT(20)
  DEF IInv, QueueState, NoLostNotify, PluggedIsIdle, DeadIsEmpty
<1>7. \A c \in Clients : pc[c] \in {"flush", "cancel"} => UNCHANGED <<pc[c], sem[c]>>
  BY <1>1
<1>8. \A x \in Queues : /\ qpc'[x] = "run" <=> qpc[x] = "run"
                        /\ qpc'[x] = "none" => pending[x] = <<>> /\ qflags'[x] = {}
  BY <1>1, <1>4 DEF IInv, Places, ThreadState
<1> QED BY <1>3, <1>5, <1>6, <1>7, <1>8, ControlStep

\* The invariant is kept by work_queue_main, without work.
LEMMA ExitOrSleepStep ==
  ASSUME IInv, NEW q \in Queues, ThreadExit(q) \/ Sleep(q)
  PROVE  IInv'
<1>1. /\ qpc[q] = "loop" /\ pending[q] = <<>>
      /\ qflags' = IF ThreadExit(q) THEN [qflags EXCEPT ![q] = {}] ELSE qflags
      /\ qpc' = IF ThreadExit(q) THEN [qpc EXCEPT ![q] = "dead"] ELSE [qpc EXCEPT ![q] = "wait"]
      /\ ~ThreadExit(q) => "DRAIN" \notin qflags[q]
      /\ UNCHANGED <<itemVars, cur, timerVars, clientVars>>
  BY DEF ThreadExit, Sleep
<1>2. cur[q] = None
  BY <1>1 DEF IInv, Places, ThreadState
<1>3. TypeOK'
  BY <1>1 DEF IInv, TypeOK, itemVars, timerVars, clientVars
<1>4. \A x \in Queues : x # q => UNCHANGED <<qpc[x], qflags[x]>>
  BY <1>1 DEF IInv, TypeOK
<1>5. /\ ThreadExit(q) => qpc'[q] = "dead" /\ qflags'[q] = {}
      /\ ~ThreadExit(q) => qpc'[q] = "wait" /\ qflags'[q] = qflags[q]
  BY <1>1 DEF IInv, TypeOK
<1>6. UNCHANGED <<flags, queue, pending, cur, cancels, pc, sem>>
  BY <1>1 DEF itemVars, clientVars
<1>7. QueueState'
  BY <1>1, <1>2, <1>4, <1>5, <1>6 DEF IInv, QueueState, NoLostNotify, PluggedIsIdle, DeadIsEmpty
<1>8. \A x \in Queues : /\ qpc'[x] = "run" <=> qpc[x] = "run"
                        /\ qpc'[x] = "none" => pending[x] = <<>> /\ qflags'[x] = {}
  BY <1>1, <1>4, <1>5 DEF IInv, Places, ThreadState
<1> QED BY <1>3, <1>6, <1>7, <1>8, ControlStep

\* The invariant is kept by k_work_queue_start.
LEMMA StartStep ==
  ASSUME IInv, NEW q \in Queues, k_work_queue_start(q)
  PROVE  IInv'
<1>1. /\ qpc[q] = "none"
      /\ qflags' = [qflags EXCEPT ![q] = {"STARTED"}]
      /\ pending' = [pending EXCEPT ![q] = <<>>]
      /\ qpc' = [qpc EXCEPT ![q] = "loop"]
      /\ UNCHANGED <<flags, queue, cur, timerVars, clientVars>>
  BY DEF k_work_queue_start
<1>2. pending[q] = <<>> /\ cur[q] = None
  BY <1>1 DEF IInv, Places, ThreadState
<1>3. pending' = pending
  BY <1>1, <1>2 DEF IInv, TypeOK
<1>4. TypeOK'
  BY <1>1, <1>3 DEF IInv, TypeOK, timerVars, clientVars, QFlag
<1>5. \A x \in Queues : /\ qpc'[x] = IF x = q THEN "loop" ELSE qpc[x]
                        /\ qflags'[x] = IF x = q THEN {"STARTED"} ELSE qflags[x]
  BY <1>1 DEF IInv, TypeOK
<1>6. UNCHANGED <<flags, queue, pending, cur, cancels, pc, sem>>
  BY <1>1, <1>3 DEF clientVars
<1>7. QueueState'
  BY <1>2, <1>5, <1>6 DEF IInv, QueueState, NoLostNotify, PluggedIsIdle, DeadIsEmpty
<1>8. \A x \in Queues : /\ qpc'[x] = "run" <=> qpc[x] = "run"
                        /\ qpc'[x] = "none" => pending[x] = <<>> /\ qflags'[x] = {}
  BY <1>1, <1>5 DEF IInv, Places, ThreadState
<1> QED BY <1>4, <1>6, <1>7, <1>8, ControlStep

\* The invariant is kept by k_work_queue_drain and k_work_queue_stop.
LEMMA DrainOrStopStep ==
  ASSUME IInv, NEW c \in Clients, NEW q \in Queues, NEW b \in BOOLEAN,
         k_work_queue_drain(c, q, b) \/ k_work_queue_stop(c, q, b)
  PROVE  IInv'
<1>1. /\ pc[c] = "idle"
      /\ qpc' = [qpc EXCEPT ![q] = IF @ = "wait" THEN "loop" ELSE @]
      /\ UNCHANGED <<itemVars, cur, timerVars, sem, cancels, owed>>
      /\ target' = [target EXCEPT ![c] = q]
      /\ \E call \in {"drain", "join", "tjoin"} : pc' = [pc EXCEPT ![c] = call]
  BY DEF k_work_queue_drain, k_work_queue_stop, notify_queue_locked, Block
<1>2. \/ /\ qpc[q] # "none"
         /\ \E s \in SUBSET QFlag : /\ qflags' = [qflags EXCEPT ![q] = @ \cup s]
                                    /\ "DRAIN" \in s /\ "STARTED" \notin s
      \/ /\ "STARTED" \in qflags[q]
         /\ qflags' = [qflags EXCEPT ![q] = @ \cup {"STOP"}]
  <2>1. CASE k_work_queue_stop(c, q, b)
    BY <2>1 DEF k_work_queue_stop
  <2>2. CASE k_work_queue_drain(c, q, b)
    <3> DEFINE s == {"DRAIN"} \cup (IF b THEN {"PLUGGED"} ELSE {})
    <3>1. s \in SUBSET QFlag /\ "DRAIN" \in s /\ "STARTED" \notin s
      BY DEF QFlag
    <3>2. qpc[q] # "none" /\ qflags' = [qflags EXCEPT ![q] = (@ \cup {"DRAIN"}) \cup (IF b THEN {"PLUGGED"} ELSE {})]
      BY <2>2 DEF k_work_queue_drain
    <3>3. qflags' = [qflags EXCEPT ![q] = @ \cup s]
      BY <3>2 DEF IInv, TypeOK
    <3> QED BY <3>1, <3>2, <3>3
  <2> QED BY <2>1, <2>2
<1>3. \E s \in SUBSET QFlag :
        /\ qflags' = [qflags EXCEPT ![q] = @ \cup s]
        /\ "STARTED" \notin s
        /\ "DRAIN" \in s \/ s = {"STOP"}
  BY <1>2 DEF QFlag
<1>4. PICK s \in SUBSET QFlag :
        /\ qflags' = [qflags EXCEPT ![q] = @ \cup s]
        /\ "STARTED" \notin s
        /\ "DRAIN" \in s \/ s = {"STOP"}
  BY <1>3
<1>5. qpc[q] # "none"
  BY <1>2 DEF IInv, Places, ThreadState
<1>6. TypeOK'
  BY <1>1, <1>4 DEF IInv, TypeOK, itemVars, timerVars
<1>7. \A x \in Queues : /\ qpc'[x] = IF x = q /\ qpc[x] = "wait" THEN "loop" ELSE qpc[x]
                        /\ qflags'[x] = IF x = q THEN qflags[x] \cup s ELSE qflags[x]
  BY <1>1, <1>4 DEF IInv, TypeOK
<1>8. UNCHANGED <<flags, queue, pending, cur, cancels>>
  BY <1>1 DEF itemVars
<1>9. \A x \in Clients : pc[x] \in {"flush", "cancel"} => UNCHANGED <<pc[x], sem[x]>>
  BY <1>1 DEF IInv, TypeOK
<1>10. QueueState'
  <2>1. NoLostNotify'
    BY <1>7, <1>8 DEF IInv, QueueState, NoLostNotify
  <2>2. PluggedIsIdle'
    <3> SUFFICES ASSUME NEW x \in Queues, "PLUGGED" \in qflags'[x], "DRAIN" \notin qflags'[x]
                 PROVE  pending[x] = <<>> /\ cur[x] = None
      BY <1>8 DEF PluggedIsIdle
    <3>1. "PLUGGED" \in qflags[x] /\ "DRAIN" \notin qflags[x]
      BY <1>4, <1>7
    <3> QED BY <3>1 DEF IInv, QueueState, PluggedIsIdle
  <2>3. DeadIsEmpty'
    <3>1. \A x \in Queues : qpc'[x] = "dead" => qpc[x] = "dead"
      BY <1>7
    <3>2. \A x \in Queues : "STARTED" \in qflags'[x] => "STARTED" \in qflags[x]
      BY <1>4, <1>7
    <3> QED BY <1>8, <3>1, <3>2 DEF IInv, QueueState, DeadIsEmpty
  <2> QED BY <2>1, <2>2, <2>3 DEF QueueState
<1>11. \A x \in Queues : /\ qpc'[x] = "run" <=> qpc[x] = "run"
                         /\ qpc'[x] = "none" => pending[x] = <<>> /\ qflags'[x] = {}
  BY <1>5, <1>7 DEF IInv, Places, ThreadState
<1> QED BY <1>6, <1>8, <1>9, <1>10, <1>11, ControlStep

\* The invariant is kept by k_work_queue_unplug.
LEMMA UnplugStep ==
  ASSUME IInv, NEW q \in Queues, k_work_queue_unplug(q)
  PROVE  IInv'
<1>1. /\ qflags' = [qflags EXCEPT ![q] = @ \ {"PLUGGED"}]
      /\ UNCHANGED <<flags, queue, pending, qpc, cur, timerVars, pc, target, sem, cancels, owed>>
  BY DEF k_work_queue_unplug, itemVars, clientVars
<1>2. TypeOK'
  BY <1>1 DEF IInv, TypeOK, timerVars
<1>3. \A x \in Queues : qflags'[x] = IF x = q THEN qflags[x] \ {"PLUGGED"} ELSE qflags[x]
  BY <1>1 DEF IInv, TypeOK
<1>4. QueueState'
  BY <1>1, <1>3 DEF IInv, QueueState, NoLostNotify, PluggedIsIdle, DeadIsEmpty
<1>5. \A x \in Queues : qpc'[x] = "none" => pending[x] = <<>> /\ qflags'[x] = {}
  BY <1>1, <1>3 DEF IInv, Places, ThreadState
<1> QED BY <1>1, <1>2, <1>4, <1>5, ControlStep

\* The invariant is kept by the end of k_thread_join in k_work_queue_stop.
LEMMA JoinStep ==
  ASSUME IInv, NEW c \in Clients, JoinDone(c) \/ JoinTimeout(c)
  PROVE  IInv'
<1>1. /\ pc[c] \in {"join", "tjoin"}
      /\ pc' = [pc EXCEPT ![c] = "idle"] /\ target' = [target EXCEPT ![c] = None]
      /\ qflags' = qflags \/ qflags' = [qflags EXCEPT ![target[c]] = @ \ {"STOP"}]
      /\ UNCHANGED <<flags, queue, pending, qpc, cur, timerVars, sem, cancels, owed>>
  BY DEF JoinDone, JoinTimeout, Block, itemVars, threadVars
<1>2. TypeOK'
  <2>1. qflags' \in [Queues -> SUBSET QFlag]
    <3>1. CASE qflags' = [qflags EXCEPT ![target[c]] = @ \ {"STOP"}]
      <4>1. qflags' = [x \in Queues |-> IF x = target[c] THEN qflags[x] \ {"STOP"} ELSE qflags[x]]
        BY <3>1 DEF IInv, TypeOK
      <4>2. \A x \in Queues : qflags[x] \in SUBSET QFlag
        BY DEF IInv, TypeOK
      <4> QED BY <4>1, <4>2
    <3> QED BY <1>1, <3>1 DEF IInv, TypeOK
  <2> QED BY <1>1, <2>1 DEF IInv, TypeOK, timerVars
<1>3. \A x \in Queues : qflags'[x] = qflags[x] \/ qflags'[x] = qflags[x] \ {"STOP"}
  BY <1>1 DEF IInv, TypeOK
<1>4. QueueState'
  BY <1>1, <1>3 DEF IInv, QueueState, NoLostNotify, PluggedIsIdle, DeadIsEmpty
<1>5. \A x \in Queues : qpc'[x] = "none" => pending[x] = <<>> /\ qflags'[x] = {}
  BY <1>1, <1>3 DEF IInv, Places, ThreadState
<1>6. \A x \in Clients : pc[x] \in {"flush", "cancel"} => UNCHANGED <<pc[x], sem[x]>>
  BY <1>1 DEF IInv, TypeOK
<1> QED BY <1>1, <1>2, <1>4, <1>5, <1>6, ControlStep

-----------------------------------------------------------------------------
(* The theorems *)

\* The invariant holds when nothing was started.
LEMMA InitIInv == Init => IInv
<1> SUFFICES ASSUME Init PROVE IInv
  OBVIOUS
<1>1. TypeOK
  BY EmptyList DEF Init, TypeOK
<1>2. ToSet(<<>>) = {} /\ Distinct(<<>>)
  BY EmptyList
<1>3. ListsDistinct /\ QueuedPlace
  BY <1>2 DEF Init, ListsDistinct, QueuedPlace, Items
<1>4. RunningPlace /\ HasQueue /\ OnlyFlushersFlush
  BY WorkQueueAssumption DEF Init, RunningPlace, HasQueue, OnlyFlushersFlush, Items
<1>5. FlusherPlace /\ CancellersWait
  BY <1>2, WorkQueueAssumption DEF Init, FlusherPlace, FlusherAt, CancellersWait
<1>6. ThreadState /\ QueueState
  BY DEF Init, ThreadState, QueueState, NoLostNotify, PluggedIsIdle, DeadIsEmpty
<1> QED BY <1>1, <1>3, <1>4, <1>5, <1>6 DEF IInv, Places

\* Every step keeps the invariant.
LEMMA NextIInv == IInv /\ [Next]_vars => IInv'
<1> SUFFICES ASSUME IInv, [Next]_vars PROVE IInv'
  OBVIOUS
<1>1. CASE UNCHANGED vars
  <2>1. TypeOK'
    BY <1>1 DEF vars, itemVars, threadVars, timerVars, clientVars, IInv, TypeOK
  <2> QED BY <1>1, <2>1, QuietStep DEF vars, itemVars, threadVars, clientVars
<1>2. CASE work_timeout
  BY <1>2, TimeoutStep
<1>3. CASE AsyncStep
  BY <1>3, SubmitStep, CancelStep, ScheduleStep, CancelDelayableStep DEF AsyncStep
<1>4. ASSUME NEW c \in Clients, ClientStep(c) PROVE IInv'
  BY <1>4, FlushStep, CancelSyncStep, CancelDelayableSyncStep, FlushDelayableStep,
     DrainOrStopStep, SyncDoneStep, JoinStep DEF ClientStep, Resume
<1>5. ASSUME NEW q \in Queues, QueueThread(q) PROVE IInv'
  BY <1>5, RunNextStep, DrainedStep, ExitOrSleepStep, HandlerDoneStep DEF QueueThread
<1>6. ASSUME NEW q \in Queues, k_work_queue_start(q) \/ k_work_queue_unplug(q) PROVE IInv'
  BY <1>6, StartStep, UnplugStep
<1>7. ASSUME NEW d \in Delayable, Expire(d) PROVE IInv'
  BY <1>7, ExpireStep
<1> QED BY <1>1, <1>2, <1>3, <1>4, <1>5, <1>6, <1>7 DEF Next

\* All of it, at every state of every behaviour.
THEOREM InductiveInvariant == Spec => []IInv
BY InitIInv, NextIInv, PTL DEF Spec

\* The variables of work.c keep their types.
THEOREM TypeCorrect == Spec => []TypeOK
<1>1. IInv => TypeOK
  BY DEF IInv
<1> QED BY <1>1, InductiveInvariant, PTL

\* work.c: an item is on one pending list, once, exactly while K_WORK_QUEUED is
\* set, for any number of items, queues, clients and submissions.
THEOREM ItemsQueuedOnce == Spec => []QueuedOnce
<1>1. IInv => QueuedOnce
  <2> SUFFICES ASSUME IInv PROVE QueuedOnce
    OBVIOUS
  <2>1. \A q \in Queues : IsInjective(pending[q])
    BY DistinctInjective DEF IInv, TypeOK, Places, ListsDistinct
  <2> QED BY <2>1 DEF IInv, Places, QueuedPlace, QueuedOnce
<1> QED BY <1>1, InductiveInvariant, PTL

\* work.c: no handler is ever executed by two queue threads at once.
THEOREM HandlersNotReentered == Spec => []NoReentrancy
<1>1. IInv => NoReentrancy
  <2> SUFFICES ASSUME IInv PROVE NoReentrancy
    OBVIOUS
  <2>1. ASSUME NEW q \in Queues, NEW r \in Queues, cur[q] # None, cur[q] = cur[r]
        PROVE  q = r
    <3>1. cur[q] \in Works \/ cur[q] \in Clients
      BY <2>1 DEF IInv, TypeOK, Items
    <3>2. CASE cur[q] \in Works
      BY <2>1, <3>2 DEF IInv, Places, RunningPlace
    <3>3. CASE cur[q] \in Clients
      BY <2>1, <3>3 DEF IInv, Places, FlusherPlace, FlusherAt
    <3> QED BY <3>1, <3>2, <3>3
  <2>2. ASSUME NEW w \in Works
        PROVE  "RUNNING" \in flags[w] <=> \E q \in Queues : cur[q] = w
    BY DEF IInv, Places, RunningPlace, HasQueue
  <2> QED BY <2>1, <2>2 DEF NoReentrancy
<1> QED BY <1>1, InductiveInvariant, PTL

\* work.c: the thread of a queue never sleeps while there is work or a drain to do.
THEOREM ThreadNotified == Spec => []NoLostNotify
<1>1. IInv => NoLostNotify
  BY DEF IInv, QueueState
<1> QED BY <1>1, InductiveInvariant, PTL

\* work.c: a queue that was drained and is plugged has no work and executes none.
THEOREM PluggedQueueIdle == Spec => []PluggedIsIdle
<1>1. IInv => PluggedIsIdle
  BY DEF IInv, QueueState
<1> QED BY <1>1, InductiveInvariant, PTL

\* work.c: a queue whose thread has returned has left no work behind.
THEOREM StoppedQueueEmpty == Spec => []DeadIsEmpty
<1>1. IInv => DeadIsEmpty
  BY DEF IInv, QueueState
<1> QED BY <1>1, InductiveInvariant, PTL

-----------------------------------------------------------------------------
(* Every step is a step of WorkSpec or changes nothing there *)

\* A step of WorkSpec, or none.
AbstractStep == [Abstract!Next]_(Abstract!vars)

\* The refinement mapping: the items that are queued ...
AbsQueued == {w \in Works : "QUEUED" \in flags[w]}

\* ... and the executions in progress.
AbsRunning == {r \in Queues \X Works : cur[r[1]] = r[2]}

-----------------------------------------------------------------------------
(* Steps of WorkSpec *)

\* What no K_WORK_QUEUED flag and no thread notices is no step of WorkSpec.
LEMMA Stutter ==
  ASSUME UNCHANGED cur,
         \A w \in Works : "QUEUED" \in flags'[w] <=> "QUEUED" \in flags[w]
  PROVE  AbstractStep
<1>1. AbsQueued' = AbsQueued
  BY DEF AbsQueued
<1>2. AbsRunning' = AbsRunning
  BY DEF AbsRunning
<1> QED BY <1>1, <1>2 DEF AbstractStep, Abstract!vars, AbsQueued, AbsRunning

\* submit_to_queue_locked is a Submit, or nothing happens to the item.
LEMMA SubmitRefines ==
  ASSUME TypeOK, NEW w \in Works, NEW q, NEW ctx, NEW fl,
         "QUEUED" \in fl <=> "QUEUED" \in flags[w],
         submit_to_queue_locked(w, q, ctx, fl), UNCHANGED cur
  PROVE  AbstractStep
<1>0. w \in Items
  BY DEF Items
<1>1. CASE ~Submittable(w, q, ctx, fl)
  <2>1. flags' = [flags EXCEPT ![w] = fl]
    BY <1>1 DEF submit_to_queue_locked
  <2>2. \A x \in Works : "QUEUED" \in flags'[x] <=> "QUEUED" \in flags[x]
    BY <1>0, <2>1 DEF TypeOK, Items
  <2> QED BY <2>2, Stutter
<1>2. CASE Submittable(w, q, ctx, fl)
  <2>1. flags' = [flags EXCEPT ![w] = fl \cup {"QUEUED"}]
    BY <1>2 DEF submit_to_queue_locked
  <2>2. "QUEUED" \notin flags[w]
    BY <1>2 DEF Submittable
  <2>3. \A x \in Works : "QUEUED" \in flags'[x] <=> x = w \/ "QUEUED" \in flags[x]
    BY <1>0, <2>1 DEF TypeOK, Items
  <2>4. w \notin AbsQueued /\ AbsQueued' = AbsQueued \cup {w}
    BY <2>2, <2>3 DEF AbsQueued
  <2>5. AbsRunning' = AbsRunning
    BY DEF AbsRunning
  <2>6. Abstract!Submit(w)
    BY <2>4, <2>5 DEF Abstract!Submit, AbsQueued, AbsRunning
  <2> QED BY <2>6 DEF AbstractStep, Abstract!Next
<1> QED BY <1>1, <1>2

\* cancel_async_locked is a Withdraw, or the item was not queued, or it is left
\* to a cancellation in progress.
LEMMA CancelRefines ==
  ASSUME TypeOK, NEW w \in Works, NEW fl,
         "QUEUED" \in fl <=> "QUEUED" \in flags[w],
         cancel_async_locked(w, fl), UNCHANGED cur
  PROVE  AbstractStep
<1>0. w \in Items
  BY DEF Items
<1>1. flags' = [flags EXCEPT ![w] = CanceledFlags(fl)]
  BY DEF cancel_async_locked
<1>2. "QUEUED" \in CanceledFlags(fl) <=> "QUEUED" \in fl /\ "CANCELING" \in fl
  BY DEF CanceledFlags
<1>3. \A x \in Works : x # w => flags'[x] = flags[x]
  BY <1>1 DEF TypeOK
<1>4. "QUEUED" \in flags'[w] <=> "QUEUED" \in flags[w] /\ "CANCELING" \in fl
  BY <1>0, <1>1, <1>2 DEF TypeOK
<1>5. CASE "QUEUED" \in flags[w] /\ "CANCELING" \notin fl
  <2>1. w \in AbsQueued /\ AbsQueued' = AbsQueued \ {w}
    BY <1>3, <1>4, <1>5 DEF AbsQueued
  <2>2. AbsRunning' = AbsRunning
    BY DEF AbsRunning
  <2>3. Abstract!Withdraw(w)
    BY <2>1, <2>2 DEF Abstract!Withdraw, AbsQueued, AbsRunning
  <2> QED BY <2>3 DEF AbstractStep, Abstract!Next
<1>6. CASE ~("QUEUED" \in flags[w] /\ "CANCELING" \notin fl)
  BY <1>3, <1>4, <1>6, Stutter
<1> QED BY <1>5, <1>6

-----------------------------------------------------------------------------
(* The operations *)

\* Unscheduling touches K_WORK_DELAYED only.
LEMMA UnscheduledQueued ==
  ASSUME NEW d
  PROVE  "QUEUED" \in UnscheduledFlags(d) <=> "QUEUED" \in flags[d]
BY DEF UnscheduledFlags

\* The submissions, schedulings and cancellations that do not block.
LEMMA AsyncRefines ==
  ASSUME IInv, AsyncStep
  PROVE  AbstractStep
<1>0. TypeOK /\ \A d \in Delayable : d \in Works
  BY WorkQueueAssumption DEF IInv
<1>1. ASSUME NEW ctx, NEW q, NEW w \in Works, k_work_submit_to_queue(ctx, q, w)
      PROVE  AbstractStep
  BY <1>0, <1>1, SubmitRefines DEF k_work_submit_to_queue
<1>2. ASSUME NEW ctx, NEW w \in Works, k_work_cancel(ctx, w)
      PROVE  AbstractStep
  BY <1>0, <1>2, CancelRefines DEF k_work_cancel, threadVars
<1>3. ASSUME NEW ctx, NEW d \in Delayable, k_work_cancel_delayable(ctx, d)
      PROVE  AbstractStep
  BY <1>0, <1>3, CancelRefines, UnscheduledQueued DEF k_work_cancel_delayable, threadVars
<1>4. ASSUME NEW ctx, NEW q, NEW d \in Delayable, NEW delay, NEW fl, NEW list,
             "QUEUED" \in fl <=> "QUEUED" \in flags[d],
             schedule_for_queue_locked(ctx, q, d, delay, fl, list), UNCHANGED cur
      PROVE  AbstractStep
  <2>1. CASE delay = "no_wait"
    <3>1. submit_to_queue_locked(d, q, ctx, fl)
      BY <1>4, <2>1 DEF schedule_for_queue_locked
    <3> QED BY <1>0, <1>4, <3>1, SubmitRefines
  <2>2. CASE delay # "no_wait"
    <3>1. flags' = [flags EXCEPT ![d] = fl \cup {"DELAYED"}]
      BY <1>4, <2>2 DEF schedule_for_queue_locked
    <3>2. \A x \in Works : "QUEUED" \in flags'[x] <=> "QUEUED" \in flags[x]
      BY <1>0, <1>4, <3>1 DEF TypeOK, Items
    <3> QED BY <1>4, <3>2, Stutter
  <2> QED BY <2>1, <2>2
<1>5. ASSUME NEW ctx, NEW q, NEW d \in Delayable, NEW delay,
             \/ k_work_schedule_for_queue(ctx, q, d, delay)
             \/ k_work_reschedule_for_queue(ctx, q, d, delay)
      PROVE  AbstractStep
  <2>1. CASE k_work_schedule_for_queue(ctx, q, d, delay)
    <3>1. schedule_for_queue_locked(ctx, q, d, delay, flags[d], armed) /\ UNCHANGED cur
      BY <2>1 DEF k_work_schedule_for_queue
    <3> QED BY <3>1, <1>4, Zenon
  <2>2. CASE k_work_reschedule_for_queue(ctx, q, d, delay)
    <3>1. /\ schedule_for_queue_locked(ctx, q, d, delay, UnscheduledFlags(d), UnscheduledList(d))
          /\ UNCHANGED cur
      BY <2>2 DEF k_work_reschedule_for_queue
    <3>2. "QUEUED" \in UnscheduledFlags(d) <=> "QUEUED" \in flags[d]
      BY UnscheduledQueued
    <3> QED BY <3>1, <3>2, <1>4, Zenon
  <2> QED BY <1>5, <2>1, <2>2
<1> QED BY <1>1, <1>2, <1>3, <1>5 DEF AsyncStep

\* A flush adds a flusher, no work.
LEMMA FlushRefines ==
  ASSUME IInv, NEW c \in Clients, NEW w \in Works, k_work_flush(c, w)
  PROVE  AbstractStep
<1>1. flags' = [flags EXCEPT ![w] = flags[w], ![c] = {"FLUSHING"}] /\ UNCHANGED cur
  BY DEF k_work_flush, work_flush_locked
<1>2. \A x \in Works : x # c
  BY WorkQueueAssumption
<1>3. \A x \in Works : flags'[x] = flags[x]
  BY <1>1, <1>2 DEF IInv, TypeOK, Items
<1> QED BY <1>1, <1>3, Stutter

\* A flush of a delayed item submits it.
LEMMA FlushDelayableRefines ==
  ASSUME IInv, NEW c \in Clients, NEW d \in Delayable, k_work_flush_delayable(c, d)
  PROVE  AbstractStep
<1> DEFINE fl  == UnscheduledFlags(d)
           sub == /\ d \in armed /\ "DELAYED" \in flags[d]
                  /\ Submittable(d, dqueue[d], None, fl)
           fl2 == IF sub THEN fl \cup {"QUEUED"} ELSE fl
<1>0. d \in Works /\ d \in Items /\ c \notin Works /\ c # d /\ flags \in [Items -> SUBSET WorkFlag]
  BY WorkQueueAssumption DEF IInv, TypeOK, Items
<1>1. /\ UNCHANGED cur
      /\ \/ flags' = [flags EXCEPT ![d] = fl2, ![c] = {"FLUSHING"}]
         \/ flags' = [flags EXCEPT ![d] = fl2]
  BY DEF k_work_flush_delayable, work_flush_locked
<1>2. "QUEUED" \in fl <=> "QUEUED" \in flags[d]
  BY UnscheduledQueued
<1>3. sub => "QUEUED" \notin flags[d]
  BY <1>2 DEF Submittable
<1> HIDE DEF fl, sub
<1>4. /\ flags'[d] = fl2
      /\ \A x \in Works : x # d => flags'[x] = flags[x]
  BY <1>0, <1>1 DEF Items
<1>5. CASE sub
  <2>1. \A x \in Works : "QUEUED" \in flags'[x] <=> x = d \/ "QUEUED" \in flags[x]
    BY <1>4, <1>5
  <2>2. d \notin AbsQueued /\ AbsQueued' = AbsQueued \cup {d}
    BY <1>0, <1>3, <1>5, <2>1 DEF AbsQueued
  <2>3. AbsRunning' = AbsRunning
    BY <1>1 DEF AbsRunning
  <2>4. Abstract!Submit(d)
    BY <2>2, <2>3 DEF Abstract!Submit, AbsQueued, AbsRunning
  <2> QED BY <1>0, <2>4 DEF AbstractStep, Abstract!Next
<1>6. CASE ~sub
  <2>1. \A x \in Works : "QUEUED" \in flags'[x] <=> "QUEUED" \in flags[x]
    BY <1>2, <1>4, <1>6
  <2> QED BY <1>1, <2>1, Stutter
<1> QED BY <1>5, <1>6

\* A client's calls and returns.
LEMMA ClientRefines ==
  ASSUME IInv, NEW c \in Clients, ClientStep(c)
  PROVE  AbstractStep
<1>0. TypeOK /\ \A d \in Delayable : d \in Works
  BY WorkQueueAssumption DEF IInv
<1>1. ASSUME NEW w \in Works, k_work_cancel_sync(c, w)
      PROVE  AbstractStep
  BY <1>0, <1>1, CancelRefines DEF k_work_cancel_sync, threadVars
<1>2. ASSUME NEW d \in Delayable, k_work_cancel_delayable_sync(c, d)
      PROVE  AbstractStep
  BY <1>0, <1>2, CancelRefines, UnscheduledQueued DEF k_work_cancel_delayable_sync, threadVars
<1>3. ASSUME NEW q \in Queues, NEW b \in BOOLEAN,
             k_work_queue_drain(c, q, b) \/ k_work_queue_stop(c, q, b)
      PROVE  AbstractStep
  BY <1>3, Stutter DEF k_work_queue_drain, k_work_queue_stop, itemVars
<1>4. CASE Resume(c)
  BY <1>4, Stutter DEF Resume, SyncDone, JoinDone, JoinTimeout, itemVars, threadVars
<1> QED BY <1>1, <1>2, <1>3, <1>4, FlushRefines, FlushDelayableRefines DEF ClientStep

\* work_queue_main takes an item: an execution starts.
LEMMA RunNextRefines ==
  ASSUME IInv, NEW q \in Queues, RunNext(q)
  PROVE  AbstractStep
<1>0. PICK i : i = Head(pending[q])
  OBVIOUS
<1>1. /\ qpc[q] = "loop" /\ pending[q] # <<>>
      /\ flags' = [flags EXCEPT ![i] = (@ \cup {"RUNNING"}) \ {"QUEUED"}]
      /\ cur' = [cur EXCEPT ![q] = i]
  BY <1>0 DEF RunNext
<1>2. i \in Items /\ i \in ToSet(pending[q])
  BY <1>0, <1>1, TailList DEF IInv, TypeOK
<1>3. cur[q] = None /\ None \notin Works
  BY <1>1, WorkQueueAssumption DEF IInv, Places, ThreadState
<1>4. \A x \in Works : "QUEUED" \in flags'[x] <=> x # i /\ "QUEUED" \in flags[x]
  BY <1>1, <1>2 DEF IInv, TypeOK, Items
<1>5. \A x \in Queues : cur'[x] = IF x = q THEN i ELSE cur[x]
  BY <1>1 DEF IInv, TypeOK
<1>6. CASE i \in Works
  <2>1. i \in AbsQueued /\ AbsQueued' = AbsQueued \ {i}
    BY <1>2, <1>4, <1>6 DEF AbsQueued, IInv, Places, QueuedPlace
  <2>2. \A x \in Queues : cur[x] # i
    BY <1>2, <1>3, <1>6 DEF IInv, Places, QueuedPlace, RunningPlace
  <2>3. \A r \in AbsRunning : r[1] # q /\ r[2] # i
    BY <1>3, <2>2 DEF AbsRunning
  <2>4. AbsRunning' = AbsRunning \cup {<<q, i>>}
    BY <1>3, <1>5, <1>6 DEF AbsRunning
  <2>5. Abstract!Start(q, i)
    BY <2>1, <2>3, <2>4 DEF Abstract!Start, AbsQueued, AbsRunning
  <2> QED BY <1>6, <2>5 DEF AbstractStep, Abstract!Next
<1>7. CASE i \notin Works
  <2>1. AbsQueued' = AbsQueued
    BY <1>4, <1>7 DEF AbsQueued
  <2>2. AbsRunning' = AbsRunning
    BY <1>3, <1>5, <1>7 DEF AbsRunning
  <2> QED BY <2>1, <2>2 DEF AbstractStep, Abstract!vars, AbsQueued, AbsRunning
<1> QED BY <1>6, <1>7

\* The handler returns: the execution ends.
LEMMA HandlerDoneRefines ==
  ASSUME IInv, NEW q \in Queues, HandlerDone(q)
  PROVE  AbstractStep
<1>0. PICK i : i = cur[q]
  OBVIOUS
<1>1. /\ flags' = [flags EXCEPT ![i] = @ \ {"RUNNING", "FLUSHING", "CANCELING"}]
      /\ cur' = [cur EXCEPT ![q] = None]
  BY <1>0 DEF HandlerDone
<1>2. None \notin Works
  BY WorkQueueAssumption
<1>3. \A x \in Works : "QUEUED" \in flags'[x] <=> "QUEUED" \in flags[x]
  BY <1>1 DEF IInv, TypeOK, Items
<1>4. \A x \in Queues : cur'[x] = IF x = q THEN None ELSE cur[x]
  BY <1>1 DEF IInv, TypeOK
<1>5. AbsQueued' = AbsQueued
  BY <1>3 DEF AbsQueued
<1>6. CASE i \in Works
  <2>1. <<q, i>> \in AbsRunning
    BY <1>0, <1>6 DEF AbsRunning
  <2>2. AbsRunning' = AbsRunning \ {<<q, i>>}
    BY <1>0, <1>2, <1>4 DEF AbsRunning
  <2>3. Abstract!Finish(q, i)
    BY <1>5, <2>1, <2>2 DEF Abstract!Finish, AbsQueued, AbsRunning
  <2> QED BY <1>6, <2>3 DEF AbstractStep, Abstract!Next
<1>7. CASE i \notin Works
  <2>1. AbsRunning' = AbsRunning
    BY <1>0, <1>2, <1>4, <1>7 DEF AbsRunning
  <2> QED BY <1>5, <2>1 DEF AbstractStep, Abstract!vars, AbsQueued, AbsRunning
<1> QED BY <1>6, <1>7

\* The callback of an expired timeout submits the item.
LEMMA TimeoutRefines ==
  ASSUME IInv, work_timeout
  PROVE  AbstractStep
<1>0. TypeOK /\ firing \in Works
  BY WorkQueueAssumption DEF IInv, TypeOK, work_timeout
<1>1. PICK d \in Works : d = firing
  BY <1>0
<1>2. CASE "DELAYED" \in flags[d]
  <2> DEFINE fl == flags[d] \ {"DELAYED"}
  <2>1. submit_to_queue_locked(d, dqueue[d], None, fl) /\ UNCHANGED cur
    BY <1>1, <1>2 DEF work_timeout, submit_to_queue_locked
  <2>2. "QUEUED" \in fl <=> "QUEUED" \in flags[d]
    OBVIOUS
  <2> QED BY <1>0, <2>1, <2>2, SubmitRefines, Zenon
<1>3. CASE "DELAYED" \notin flags[d]
  BY <1>1, <1>3, Stutter DEF work_timeout, itemVars
<1> QED BY <1>2, <1>3

-----------------------------------------------------------------------------
\* Every step of work.c is a step of WorkSpec or changes nothing there.
LEMMA NextRefines == IInv /\ [Next]_vars => AbstractStep
<1> SUFFICES ASSUME IInv, [Next]_vars PROVE AbstractStep
  OBVIOUS
<1>1. CASE UNCHANGED vars
  BY <1>1, Stutter DEF vars, itemVars, threadVars
<1>2. ASSUME NEW q \in Queues, QueueThread(q) PROVE AbstractStep
  <2>1. CASE Drained(q) \/ ThreadExit(q) \/ Sleep(q)
    BY <2>1, Stutter DEF Drained, ThreadExit, Sleep, itemVars
  <2> QED BY <1>2, <2>1, RunNextRefines, HandlerDoneRefines DEF QueueThread
<1>3. ASSUME NEW q \in Queues, k_work_queue_start(q) \/ k_work_queue_unplug(q)
      PROVE  AbstractStep
  BY <1>3, Stutter DEF k_work_queue_start, k_work_queue_unplug, itemVars
<1>4. ASSUME NEW d \in Delayable, Expire(d) PROVE AbstractStep
  BY <1>4, Stutter DEF Expire, itemVars, threadVars
<1> QED BY <1>1, <1>2, <1>3, <1>4, AsyncRefines, ClientRefines, TimeoutRefines DEF Next

\* Nothing is queued and nothing runs when nothing was started.
LEMMA InitRefines == Init => Abstract!Init
<1> SUFFICES ASSUME Init PROVE Abstract!Init
  OBVIOUS
<1>1. AbsQueued = {}
  BY DEF Init, AbsQueued, Items
<1>2. AbsRunning = {}
  BY WorkQueueAssumption DEF Init, AbsRunning
<1> QED BY <1>1, <1>2 DEF Abstract!Init, AbsQueued, AbsRunning

\* work.c: over all queues, items are submitted, executed and cancelled as if
\* there were one set of queued items and one execution at a time of each.
THEOREM WorkImplementsSpec == Spec => ImplementsWorkSpec
BY InitRefines, NextRefines, InductiveInvariant, PTL
   DEF Spec, ImplementsWorkSpec, Abstract!Spec, AbstractStep

-----------------------------------------------------------------------------
(* Waiting for an item *)

\* What a flush has still to wait for is ahead of its flusher: on the same list,
\* or in the handler that the same queue's thread executes.
Owes(c) ==
  /\ pc[c] = "flush" => target[c] \in Works
  /\ pc[c] = "flush" /\ sem[c] = 1 => owed[c] = {}
  /\ \A q \in Queues : cur[q] = c => owed[c] = {}
  /\ \A q \in Queues :
       c \in ToSet(pending[q]) =>
         /\ "RUNNING" \in owed[c] => cur[q] = target[c]
         /\ "QUEUED" \in owed[c] => Before(pending[q], target[c], c)

OwedInv == \A c \in Clients : Owes(c)

\* An item that is being cancelled is not queued again meanwhile.
CancelInv == \A i \in Items : ~({"CANCELING", "QUEUED"} \subseteq flags[i])

-----------------------------------------------------------------------------
(* Flushing *)

\* Who does not flush has no flusher anywhere.
LEMMA NotFlushing ==
  ASSUME IInv', NEW c \in Clients, pc'[c] # "flush"
  PROVE  Owes(c)'
BY DEF IInv, Places, FlusherPlace, FlusherAt, Owes

\* A step that takes nothing from between the item and the flusher.
LEMMA StillOwes ==
  ASSUME NEW c \in Clients, Owes(c), UNCHANGED cur, owed'[c] \subseteq owed[c],
         pc'[c] = pc[c], target'[c] = target[c], sem'[c] = sem[c],
         \A q \in Queues : c \in ToSet(pending'[q]) => c \in ToSet(pending[q]),
         \A q \in Queues : "QUEUED" \in owed'[c] /\ Before(pending[q], target[c], c)
                             => Before(pending'[q], target[c], c)
  PROVE  Owes(c)'
BY DEF Owes

\* A step that leaves the lists, the handlers and the flushing clients alone.
LEMMA QuietOwes ==
  ASSUME IInv', OwedInv, UNCHANGED <<pending, cur, owed>>,
         \A c \in Clients : pc'[c] = "flush" =>
           pc[c] = "flush" /\ target'[c] = target[c] /\ sem'[c] = sem[c]
  PROVE  OwedInv'
<1> SUFFICES ASSUME NEW c \in Clients PROVE Owes(c)'
  BY DEF OwedInv
<1>1. CASE pc'[c] # "flush"
  BY <1>1, NotFlushing
<1>2. CASE pc'[c] = "flush"
  BY <1>2 DEF OwedInv, Owes
<1> QED BY <1>1, <1>2

\* queue_flusher_locked keeps what is before what, and puts the flusher behind.
LEMMA FlusherBehind ==
  ASSUME NEW p \in Seq(Items), NEW fl, NEW w \in Works, NEW c \in Clients,
         "QUEUED" \in fl => w \in ToSet(p)
  PROVE  /\ \A x, y : Before(p, x, y) => Before(queue_flusher_locked(p, fl, w, c), x, y)
         /\ "QUEUED" \in fl => Before(queue_flusher_locked(p, fl, w, c), w, c)
<1>1. c \in Items
  BY DEF Items
<1>2. CASE "QUEUED" \in fl
  <2> DEFINE I == {j \in 1..Len(p) : p[j] = w}
             k == SelectInSeq(p, LAMBDA i : i = w)
  <2>1. I # {} /\ I \in SUBSET Nat
    BY <1>2, ListElements
  <2>2. k = Min(I)
    BY <2>1 DEF SelectInSeq
  <2>3. queue_flusher_locked(p, fl, w, c) = InsertAt(p, k + 1, c)
    BY <1>2 DEF queue_flusher_locked
  <2> HIDE DEF k
  <2>4. k \in 1..Len(p) /\ p[k] = w
    <3>1. Min(I) \in I
      <4> HIDE DEF I
      <4> QED BY <2>1, MinOfNats
    <3> QED BY <3>1, <2>2
  <2>5. /\ \A x, y : Before(p, x, y) => Before(InsertAt(p, k + 1, c), x, y)
        /\ Before(InsertAt(p, k + 1, c), p[k], c)
    BY <1>1, <2>4, InsertBefore, Zenon
  <2> QED BY <2>3, <2>4, <2>5, Zenon
<1>3. CASE "QUEUED" \notin fl
  BY <1>1, <1>3, PrependBefore DEF queue_flusher_locked
<1> QED BY <1>2, <1>3

\* submit_to_queue_locked adds to the end of a list.
LEMMA SubmitOwes ==
  ASSUME IInv, OwedInv, NEW w \in Works, NEW q \in Queues \cup {None}, NEW ctx, NEW fl,
         submit_to_queue_locked(w, q, ctx, fl), UNCHANGED <<cur, pc, target, sem, owed>>
  PROVE  OwedInv'
<1>0. w \in Items /\ w \notin Clients
  BY WorkQueueAssumption DEF Items
<1> SUFFICES ASSUME NEW c \in Clients PROVE Owes(c)'
  BY DEF OwedInv
<1>1. CASE ~Submittable(w, q, ctx, fl)
  BY <1>1 DEF submit_to_queue_locked, OwedInv, Owes
<1>2. CASE Submittable(w, q, ctx, fl)
  <2> DEFINE r == SubmitQueue(w, q)
  <2>1. pending' = [pending EXCEPT ![r] = Append(pending[r], w)]
    BY <1>2 DEF submit_to_queue_locked
  <2>2. r \in Queues
    BY <1>2 DEF Submittable, queue_submit_locked, SubmitQueue, IInv, TypeOK
  <2> HIDE DEF r
  <2>3. pending[r] \in Seq(Items)
    BY <2>2 DEF IInv, TypeOK
  <2>4. ASSUME NEW a \in Queues
        PROVE  /\ c \in ToSet(pending'[a]) => c \in ToSet(pending[a])
               /\ Before(pending[a], target[c], c) => Before(pending'[a], target[c], c)
    <3>1. CASE a = r
      <4>1. pending'[a] = Append(pending[a], w)
        BY <2>1, <2>2, <3>1 DEF IInv, TypeOK
      <4>2. ToSet(Append(pending[a], w)) = ToSet(pending[a]) \cup {w}
        BY <1>0, <2>3, <3>1, AppendList
      <4> QED BY <1>0, <2>3, <3>1, <4>1, <4>2, AppendBefore
    <3>2. CASE a # r
      <4>1. pending'[a] = pending[a]
        BY <2>1, <3>2 DEF IInv, TypeOK
      <4> QED BY <4>1
    <3> QED BY <3>1, <3>2
  <2> QED BY <2>4, StillOwes DEF OwedInv
<1> QED BY <1>1, <1>2

\* work_flush_locked: the flusher goes behind the item, wherever that is.
LEMMA FlushOwes ==
  ASSUME IInv, OwedInv,
         NEW w \in Works, NEW c \in Clients, pc[c] = "idle",
         NEW q \in Queues, NEW fl \in SUBSET WorkFlag, NEW p \in Seq(Items),
         work_flush_locked(c, w, fl, q, p), UNCHANGED cur,
         "QUEUED" \in fl => w \in ToSet(p),
         "RUNNING" \in fl => cur[q] = w,
         \A x, y : Before(pending[q], x, y) => Before(p, x, y),
         ToSet(p) \subseteq ToSet(pending[q]) \cup {w}
  PROVE  OwedInv'
<1> DEFINE s == queue_flusher_locked(p, fl, w, c)
<1>0. w \notin Clients /\ c # None
  BY WorkQueueAssumption
<1>1. /\ pending' = [pending EXCEPT ![q] = s]
      /\ owed' = [owed EXCEPT ![c] = fl \cap {"RUNNING", "QUEUED"}]
      /\ pc' = [pc EXCEPT ![c] = "flush"] /\ target' = [target EXCEPT ![c] = w]
      /\ sem' = [sem EXCEPT ![c] = 0]
  BY DEF work_flush_locked, Block
<1>2. ToSet(s) = ToSet(p) \cup {c}
  BY FlusherList
<1>3. /\ \A x, y : Before(p, x, y) => Before(s, x, y)
      /\ "QUEUED" \in fl => Before(s, w, c)
  BY FlusherBehind
<1> HIDE DEF s
<1>4. \A a \in Queues : cur[a] # c /\ c \notin ToSet(pending[a])
  BY DEF IInv, Places, FlusherPlace, FlusherAt
<1>5. /\ pending'[q] = s
      /\ \A a \in Queues : a # q => pending'[a] = pending[a]
  BY <1>1 DEF IInv, TypeOK
<1>6. Owes(c)'
  <2>1. /\ pc'[c] = "flush" /\ target'[c] = w /\ sem'[c] = 0
        /\ owed'[c] = fl \cap {"RUNNING", "QUEUED"}
    BY <1>1 DEF IInv, TypeOK
  <2>2. \A a \in Queues : c \in ToSet(pending'[a]) => a = q
    BY <1>4, <1>5
  <2>3. "RUNNING" \in owed'[c] => cur'[q] = w
    BY <2>1
  <2>4. "QUEUED" \in owed'[c] => Before(pending'[q], w, c)
    BY <2>1, <1>3, <1>5
  <2> QED BY <2>1, <2>2, <2>3, <2>4, <1>4 DEF Owes
<1>7. ASSUME NEW u \in Clients, u # c PROVE Owes(u)'
  <2>1. pc'[u] = pc[u] /\ target'[u] = target[u] /\ sem'[u] = sem[u] /\ owed'[u] = owed[u]
    BY <1>1, <1>7 DEF IInv, TypeOK
  <2>2. ASSUME NEW a \in Queues
        PROVE  /\ u \in ToSet(pending'[a]) => u \in ToSet(pending[a])
               /\ Before(pending[a], target[u], u) => Before(pending'[a], target[u], u)
    <3>1. CASE a = q
      BY <1>0, <1>2, <1>3, <1>5, <1>7, <3>1
    <3>2. CASE a # q
      <4>1. pending'[a] = pending[a]
        BY <1>5, <3>2
      <4> QED BY <4>1
    <3> QED BY <3>1, <3>2
  <2> QED BY <2>1, <2>2, StillOwes DEF OwedInv
<1> QED BY <1>6, <1>7 DEF OwedInv

\* cancel_async_locked takes the item off its list, and nobody waits for that
\* execution any more.
LEMMA CancelOwes ==
  ASSUME IInv, IInv', OwedInv,
         NEW w \in Works, NEW fl \in SUBSET WorkFlag, SameButDelayed(fl, flags[w]),
         cancel_async_locked(w, fl), UNCHANGED <<queue, cur>>,
         \A c \in Clients : pc'[c] = "flush" =>
           pc[c] = "flush" /\ target'[c] = target[c] /\ sem'[c] = sem[c]
  PROVE  OwedInv'
<1> DEFINE dequeue == "QUEUED" \in fl /\ "CANCELING" \notin fl
<1>0. w \in Items /\ w \notin Clients
  BY WorkQueueAssumption DEF Items
<1>1. CASE ~dequeue
  <2>1. pending' = pending /\ owed' = owed
    BY <1>1 DEF cancel_async_locked
  <2> QED BY <2>1, QuietOwes
<1>2. CASE dequeue
  <2> DEFINE r == queue[w]
  <2>1. /\ pending' = [pending EXCEPT ![r] = RemoveFirst(pending[r], w)]
        /\ owed' = [c \in Clients |-> IF target[c] = w THEN owed[c] \ {"QUEUED"} ELSE owed[c]]
    BY <1>2 DEF cancel_async_locked
  <2>2. "QUEUED" \in flags[w]
    BY <1>2 DEF SameButDelayed
  <2>3. r \in Queues /\ w \in ToSet(pending[r])
    BY <2>2 DEF IInv, Places, HasQueue, QueuedPlace
  <2> HIDE DEF r
  <2>4. pending[r] \in Seq(Items) /\ Distinct(pending[r])
    BY <2>3 DEF IInv, TypeOK, Places, ListsDistinct
  <2>5. /\ pending'[r] = RemoveFirst(pending[r], w)
        /\ \A a \in Queues : a # r => pending'[a] = pending[a]
    BY <2>1, <2>3 DEF IInv, TypeOK
  <2>6. ASSUME NEW c \in Clients PROVE Owes(c)'
    <3>1. CASE pc'[c] # "flush"
      BY <3>1, NotFlushing
    <3>2. CASE pc'[c] = "flush"
      <4>1. ASSUME NEW a \in Queues
            PROVE  /\ c \in ToSet(pending'[a]) => c \in ToSet(pending[a])
                   /\ "QUEUED" \in owed'[c] /\ Before(pending[a], target[c], c)
                        => Before(pending'[a], target[c], c)
        <5>1. CASE a = r
          <6>1. ToSet(pending'[a]) = ToSet(pending[a]) \ {w}
            BY <2>4, <2>5, <5>1, RemoveList
          <6>2. ASSUME "QUEUED" \in owed'[c], Before(pending[a], target[c], c)
                PROVE  Before(pending'[a], target[c], c)
            <7>1. target[c] # w /\ c # w
              BY <1>0, <2>1, <6>2
            <7> QED BY <7>1, <2>3, <2>4, <2>5, <5>1, <6>2, RemoveBefore
          <6> QED BY <6>1, <6>2
        <5>2. CASE a # r
          <6>1. pending'[a] = pending[a]
            BY <2>5, <5>2
          <6> QED BY <6>1
        <5> QED BY <5>1, <5>2
      <4>2. owed'[c] \subseteq owed[c]
        BY <2>1
      <4> QED BY <3>2, <4>1, <4>2, StillOwes DEF OwedInv
    <3> QED BY <3>1, <3>2
  <2> QED BY <2>6 DEF OwedInv
<1> QED BY <1>1, <1>2

\* work_queue_main takes the first item: a flush that waits for the item now waits
\* for the handler, and a flusher that comes first has nothing to wait for.
LEMMA RunNextOwes ==
  ASSUME IInv, OwedInv, NEW q \in Queues, RunNext(q)
  PROVE  OwedInv'
<1> DEFINE i == Head(pending[q])
<1>1. /\ pending[q] # <<>> /\ pending[q] \in Seq(Items) /\ Distinct(pending[q])
      /\ cur[q] = None
  BY DEF RunNext, IInv, TypeOK, Places, ListsDistinct, ThreadState
<1>2. i \in Items /\ i \in ToSet(pending[q]) /\ ToSet(Tail(pending[q])) = ToSet(pending[q]) \ {i}
  BY <1>1, TailList
<1>3. /\ pending' = [pending EXCEPT ![q] = Tail(pending[q])]
      /\ cur' = [cur EXCEPT ![q] = i]
      /\ owed' = [c \in Clients |-> IF target[c] = i /\ "QUEUED" \in owed[c]
                                      THEN {"RUNNING"} ELSE owed[c]]
      /\ UNCHANGED <<pc, target, sem>>
  BY DEF RunNext
<1>4. /\ pending'[q] = Tail(pending[q]) /\ cur'[q] = i
      /\ \A a \in Queues : a # q => pending'[a] = pending[a] /\ cur'[a] = cur[a]
  BY <1>3 DEF IInv, TypeOK
<1>5. \A a \in Queues : ToSet(pending'[a]) \subseteq ToSet(pending[a])
  BY <1>2, <1>4
<1> SUFFICES ASSUME NEW c \in Clients PROVE Owes(c)'
  BY DEF OwedInv
<1>6. Owes(c) /\ c # None /\ owed[c] \subseteq {"RUNNING", "QUEUED"}
  BY WorkQueueAssumption DEF OwedInv, IInv, TypeOK
<1>7. ASSUME NEW a \in Queues, c \in ToSet(pending[a])
      PROVE  /\ pc[c] = "flush" /\ sem[c] = 0 /\ target[c] \in Works /\ target[c] # None
             /\ a = q => "RUNNING" \notin owed[c]
  <2>1. pc[c] = "flush" /\ sem[c] = 0
    BY <1>7 DEF IInv, Places, FlusherPlace, FlusherAt
  <2>2. target[c] \in Works /\ target[c] # None
    BY <2>1, <1>6, WorkQueueAssumption DEF Owes
  <2> QED BY <2>1, <2>2, <1>1, <1>6, <1>7 DEF Owes
<1>8. ASSUME NEW a \in Queues, cur'[a] = c
      PROVE  owed'[c] = {}
  <2>1. CASE a = q
    <3>1. c = i
      BY <1>4, <1>8, <2>1
    <3>2. "QUEUED" \notin owed[c]
      <4>1. ~Before(pending[q], target[c], c)
        BY <1>1, <3>1, NotBeforeHead
      <4> QED BY <4>1, <3>1, <1>2, <1>6 DEF Owes
    <3>3. "RUNNING" \notin owed[c]
      BY <1>2, <1>7, <3>1
    <3>4. owed[c] = {}
      BY <3>2, <3>3, <1>6
    <3> QED BY <3>4, <1>3
  <2>2. CASE a # q
    <3>1. owed[c] = {}
      BY <1>4, <1>6, <1>8, <2>2 DEF Owes
    <3> QED BY <3>1, <1>3
  <2> QED BY <2>1, <2>2
<1>9. ASSUME NEW a \in Queues, c \in ToSet(pending'[a])
      PROVE  /\ "RUNNING" \in owed'[c] => cur'[a] = target[c]
             /\ "QUEUED" \in owed'[c] => Before(pending'[a], target[c], c)
  <2>0. c \in ToSet(pending[a]) /\ pending[a] \in Seq(Items)
    BY <1>5, <1>9 DEF IInv, TypeOK
  <2>1. /\ target[c] \in Works /\ target[c] # None /\ (a = q => "RUNNING" \notin owed[c])
    BY <2>0, <1>7
  <2>2. CASE target[c] = i /\ "QUEUED" \in owed[c]
    <3>1. owed'[c] = {"RUNNING"} /\ i \in Works
      BY <1>3, <2>1, <2>2
    <3>2. i \in ToSet(pending[a])
      <4>1. Before(pending[a], i, c)
        BY <2>0, <2>2, <1>6 DEF Owes
      <4> QED BY <4>1, <2>0, BeforeElements
    <3>3. a = q
      BY <3>1, <3>2, <1>2 DEF IInv, Places, QueuedPlace
    <3> QED BY <3>1, <3>3, <2>2, <1>4
  <2>3. CASE ~(target[c] = i /\ "QUEUED" \in owed[c])
    <3>1. owed'[c] = owed[c]
      BY <1>3, <2>3
    <3>2. "RUNNING" \in owed[c] => cur'[a] = target[c]
      BY <2>0, <2>1, <1>4, <1>6 DEF Owes
    <3>3. ASSUME "QUEUED" \in owed[c]
          PROVE  Before(pending'[a], target[c], c)
      <4>1. Before(pending[a], target[c], c) /\ target[c] # i
        BY <3>3, <2>0, <2>3, <1>6 DEF Owes
      <4>2. CASE a = q
        BY <4>1, <4>2, <1>1, <1>4, TailBefore
      <4>3. CASE a # q
        BY <4>1, <4>3, <1>4
      <4> QED BY <4>2, <4>3
    <3> QED BY <3>1, <3>2, <3>3
  <2> QED BY <2>2, <2>3
<1>10. pc[c] = "flush" /\ sem[c] = 1 => owed'[c] = {}
  <2>1. pc[c] = "flush" /\ sem[c] = 1 => owed[c] = {}
    BY <1>6 DEF Owes
  <2> QED BY <2>1, <1>3
<1>11. pc[c] = "flush" => target[c] \in Works
  BY <1>6 DEF Owes
<1> HIDE DEF i
<1> QED BY <1>3, <1>8, <1>9, <1>10, <1>11 DEF Owes

\* The clients that a handler's return releases (finalize_flush_locked,
\* finalize_cancel_locked).
Released(i) ==
  finalize_flush_locked(i) \cup (ToSet(cancels) \ ToSet(finalize_cancel_locked(i)))

\* The handler returns: nobody waits for this execution any more, and a client is
\* released by its flusher.
LEMMA HandlerDoneOwes ==
  ASSUME IInv, OwedInv, NEW q \in Queues, HandlerDone(q)
  PROVE  OwedInv'
<1> DEFINE i == cur[q]
<1>1. /\ cur' = [cur EXCEPT ![q] = None] /\ UNCHANGED <<pending, pc, target>>
      /\ sem' = [c \in Clients |-> IF c \in Released(i) THEN 1 ELSE sem[c]]
      /\ owed' = [c \in Clients |-> IF target[c] = i THEN owed[c] \ {"RUNNING"} ELSE owed[c]]
  BY DEF HandlerDone, Released
<1>2. cur'[q] = None /\ \A a \in Queues : a # q => cur'[a] = cur[a]
  BY <1>1 DEF IInv, TypeOK
<1> SUFFICES ASSUME NEW c \in Clients PROVE Owes(c)'
  BY DEF OwedInv
<1>3. Owes(c) /\ c # None
  BY WorkQueueAssumption DEF OwedInv
<1>4. owed'[c] \subseteq owed[c] /\ (target[c] = i => "RUNNING" \notin owed'[c])
  BY <1>1
<1>5. pc[c] = "flush" => target[c] \in Works
  BY <1>3 DEF Owes
<1>6. ASSUME pc[c] = "flush", sem'[c] = 1
      PROVE  owed'[c] = {}
  <2>1. CASE c \in Released(i)
    <3>1. c \notin ToSet(cancels)
      BY <1>6 DEF IInv, Places, CancellersWait
    <3>2. c = i
      BY <2>1, <3>1 DEF Released, finalize_flush_locked
    <3> QED BY <3>2, <1>3, <1>4 DEF Owes
  <2>2. CASE c \notin Released(i)
    <3>1. sem[c] = 1
      BY <1>1, <1>6, <2>2
    <3> QED BY <3>1, <1>3, <1>4, <1>6 DEF Owes
  <2> QED BY <2>1, <2>2
<1>7. ASSUME NEW a \in Queues, cur'[a] = c
      PROVE  owed'[c] = {}
  <2>1. cur[a] = c
    BY <1>2, <1>3, <1>7
  <2> QED BY <2>1, <1>3, <1>4 DEF Owes
<1>8. ASSUME NEW a \in Queues, c \in ToSet(pending[a])
      PROVE  /\ "RUNNING" \in owed'[c] => cur'[a] = target[c]
             /\ "QUEUED" \in owed'[c] => Before(pending[a], target[c], c)
  <2>1. /\ "RUNNING" \in owed[c] => cur[a] = target[c]
        /\ "QUEUED" \in owed[c] => Before(pending[a], target[c], c)
    BY <1>3, <1>8 DEF Owes
  <2>2. "RUNNING" \in owed'[c] => a # q
    BY <2>1, <1>4
  <2> QED BY <2>1, <2>2, <1>2, <1>4
<1> QED BY <1>1, <1>5, <1>6, <1>7, <1>8 DEF Owes

\* k_work_flush_delayable: the item may have been submitted by the same call.
LEMMA FlushDelayableOwes ==
  ASSUME IInv, IInv', OwedInv, NEW c \in Clients, NEW d \in Delayable,
         k_work_flush_delayable(c, d)
  PROVE  OwedInv'
<1> DEFINE fl  == UnscheduledFlags(d)
           sub == d \in armed /\ "DELAYED" \in flags[d] /\ Submittable(d, dqueue[d], None, fl)
           fl2 == IF sub THEN fl \cup {"QUEUED"} ELSE fl
           q   == IF sub THEN SubmitQueue(d, dqueue[d]) ELSE queue[d]
           p   == IF sub THEN Append(pending[q], d) ELSE pending[q]
<1>0. d \in Works /\ d \in Items /\ pc[c] = "idle" /\ UNCHANGED cur
  BY WorkQueueAssumption DEF Items, k_work_flush_delayable
<1>1. CASE UNCHANGED <<pending, qpc, pc, target, sem, owed>>
  BY <1>0, <1>1, QuietOwes
<1>2. CASE fl2 \cap {"QUEUED", "RUNNING"} # {} /\ work_flush_locked(c, d, fl2, q, p)
  <2>1. /\ fl \in SUBSET WorkFlag
        /\ "RUNNING" \in fl <=> "RUNNING" \in flags[d]
        /\ "QUEUED" \in fl <=> "QUEUED" \in flags[d]
    BY UnscheduledType DEF IInv, SameButDelayed
  <2> HIDE DEF fl
  <2>2. sub => q \in Queues /\ ("RUNNING" \in flags[d] => q = queue[d])
    BY <1>0, WorkQueueAssumption DEF Submittable, queue_submit_locked, SubmitQueue, IInv, TypeOK
  <2>3. q \in Queues
    <3>1. CASE sub
      BY <2>2, <3>1
    <3>2. CASE ~sub
      <4>1. flags[d] \cap {"QUEUED", "RUNNING"} # {} /\ q = queue[d]
        BY <1>2, <2>1, <3>2
      <4> QED BY <1>0, <4>1 DEF IInv, Places, HasQueue
    <3> QED BY <3>1, <3>2
  <2>4. "RUNNING" \in fl2 => cur[q] = d
    <3>1. "RUNNING" \in fl2 => "RUNNING" \in flags[d] /\ queue[d] = q
      BY <2>1, <2>2
    <3> QED BY <3>1, <2>3, <1>0 DEF IInv, Places, RunningPlace
  <2>5. fl2 \in SUBSET WorkFlag
    BY <2>1 DEF WorkFlag
  <2>6. pending[q] \in Seq(Items) /\ (d \in ToSet(pending[q]) <=> "QUEUED" \in flags[d] /\ queue[d] = q)
    BY <1>0, <2>3 DEF IInv, TypeOK, Places, QueuedPlace
  <2> HIDE DEF q
  <2>7. /\ p \in Seq(Items) /\ ToSet(p) \subseteq ToSet(pending[q]) \cup {d}
        /\ "QUEUED" \in fl2 => d \in ToSet(p)
        /\ \A x, y : Before(pending[q], x, y) => Before(p, x, y)
    <3>1. CASE sub
      <4>1. /\ Append(pending[q], d) \in Seq(Items)
            /\ ToSet(Append(pending[q], d)) = ToSet(pending[q]) \cup {d}
        BY <1>0, <2>6, AppendList
      <4>2. \A x, y : Before(pending[q], x, y) => Before(Append(pending[q], d), x, y)
        BY <1>0, <2>6, AppendBefore
      <4> QED BY <3>1, <4>1, <4>2
    <3>2. CASE ~sub
      <4>1. "QUEUED" \in fl2 => d \in ToSet(pending[q])
        BY <2>1, <2>6, <3>2 DEF q
      <4> QED BY <2>6, <3>2, <4>1
    <3> QED BY <3>1, <3>2
  <2> HIDE DEF p, fl2, sub
  <2> QED BY <1>0, <1>2, <2>3, <2>4, <2>5, <2>7, FlushOwes
<1> QED BY <1>1, <1>2 DEF k_work_flush_delayable

\* What a client calls, and the end of its calls.
LEMMA ClientOwes ==
  ASSUME IInv, IInv', OwedInv, NEW c \in Clients, ClientStep(c)
  PROVE  OwedInv'
<1>0. pc \in [Clients -> {"idle", "flush", "cancel", "drain", "join", "tjoin"}]
      /\ target \in [Clients -> Works \cup Queues \cup {None}] /\ sem \in [Clients -> {0, 1}]
  BY DEF IInv, TypeOK
<1>1. ASSUME NEW w \in Works, k_work_flush(c, w) PROVE OwedInv'
  <2>1. /\ pc[c] = "idle" /\ flags[w] \cap {"QUEUED", "RUNNING"} # {}
        /\ work_flush_locked(c, w, flags[w], queue[w], pending[queue[w]]) /\ UNCHANGED cur
    BY <1>1 DEF k_work_flush
  <2>2. /\ queue[w] \in Queues /\ flags[w] \in SUBSET WorkFlag
        /\ pending[queue[w]] \in Seq(Items)
        /\ "QUEUED" \in flags[w] => w \in ToSet(pending[queue[w]])
        /\ "RUNNING" \in flags[w] => cur[queue[w]] = w
    BY <2>1 DEF IInv, TypeOK, Items, Places, HasQueue, QueuedPlace, RunningPlace
  <2> QED BY <2>1, <2>2, FlushOwes
<1>2. ASSUME NEW w \in Works, NEW fl, cancel_sync_locked(c, w, fl), pc[c] = "idle"
      PROVE  \A u \in Clients : pc'[u] = "flush" =>
               pc[u] = "flush" /\ target'[u] = target[u] /\ sem'[u] = sem[u]
  BY <1>0, <1>2 DEF cancel_sync_locked, Block
<1>3. ASSUME NEW w \in Works, k_work_cancel_sync(c, w) PROVE OwedInv'
  <2>1. /\ pc[c] = "idle" /\ cancel_async_locked(w, flags[w])
        /\ cancel_sync_locked(c, w, flags[w]) /\ UNCHANGED <<queue, cur>>
    BY <1>3 DEF k_work_cancel_sync, threadVars
  <2>2. flags[w] \in SUBSET WorkFlag /\ SameButDelayed(flags[w], flags[w])
    BY DEF IInv, TypeOK, Items, SameButDelayed
  <2> QED BY <1>2, <2>1, <2>2, CancelOwes
<1>4. ASSUME NEW d \in Delayable, k_work_cancel_delayable_sync(c, d) PROVE OwedInv'
  <2>1. /\ pc[c] = "idle" /\ cancel_async_locked(d, UnscheduledFlags(d))
        /\ cancel_sync_locked(c, d, UnscheduledFlags(d)) /\ UNCHANGED <<queue, cur>>
    BY <1>4 DEF k_work_cancel_delayable_sync, threadVars
  <2>2. /\ d \in Works /\ UnscheduledFlags(d) \in SUBSET WorkFlag
        /\ SameButDelayed(UnscheduledFlags(d), flags[d])
    BY UnscheduledType DEF IInv
  <2> QED BY <1>2, <2>1, <2>2, CancelOwes
<1>5. ASSUME NEW d \in Delayable, k_work_flush_delayable(c, d) PROVE OwedInv'
  BY <1>5, FlushDelayableOwes
<1>6. ASSUME NEW q \in Queues, NEW b \in BOOLEAN,
             k_work_queue_drain(c, q, b) \/ k_work_queue_stop(c, q, b)
      PROVE  OwedInv'
  <2>1. UNCHANGED <<pending, cur, owed>>
    BY <1>6 DEF k_work_queue_drain, k_work_queue_stop, itemVars
  <2>2. \A u \in Clients : pc'[u] = "flush" =>
          pc[u] = "flush" /\ target'[u] = target[u] /\ sem'[u] = sem[u]
    BY <1>0, <1>6 DEF k_work_queue_drain, k_work_queue_stop, Block
  <2> QED BY <2>1, <2>2, QuietOwes
<1>7. ASSUME Resume(c) PROVE OwedInv'
  <2>1. UNCHANGED <<pending, cur, owed>>
    BY <1>7 DEF Resume, SyncDone, JoinDone, JoinTimeout, itemVars, threadVars
  <2>2. \A u \in Clients : pc'[u] = "flush" =>
          pc[u] = "flush" /\ target'[u] = target[u] /\ sem'[u] = sem[u]
    BY <1>0, <1>7 DEF Resume, SyncDone, JoinDone, JoinTimeout, Block
  <2> QED BY <2>1, <2>2, QuietOwes
<1> QED BY <1>1, <1>3, <1>4, <1>5, <1>6, <1>7 DEF ClientStep

\* The submissions, schedulings and cancellations that do not block.
LEMMA AsyncOwes ==
  ASSUME IInv, IInv', OwedInv, AsyncStep
  PROVE  OwedInv'
<1>1. ASSUME NEW ctx, NEW q \in Queues \cup {None}, NEW w \in Works,
             k_work_submit_to_queue(ctx, q, w)
      PROVE  OwedInv'
  BY <1>1, SubmitOwes DEF k_work_submit_to_queue, clientVars
<1>2. ASSUME NEW ctx, NEW w \in Works, k_work_cancel(ctx, w) PROVE OwedInv'
  <2>1. cancel_async_locked(w, flags[w]) /\ UNCHANGED <<queue, cur, pc, target, sem>>
    BY <1>2 DEF k_work_cancel, threadVars
  <2>2. flags[w] \in SUBSET WorkFlag /\ SameButDelayed(flags[w], flags[w])
    BY DEF IInv, TypeOK, Items, SameButDelayed
  <2> QED BY <2>1, <2>2, CancelOwes
<1>3. ASSUME NEW ctx, NEW d \in Delayable, k_work_cancel_delayable(ctx, d) PROVE OwedInv'
  <2>1. cancel_async_locked(d, UnscheduledFlags(d)) /\ UNCHANGED <<queue, cur, pc, target, sem>>
    BY <1>3 DEF k_work_cancel_delayable, threadVars
  <2>2. /\ d \in Works /\ UnscheduledFlags(d) \in SUBSET WorkFlag
        /\ SameButDelayed(UnscheduledFlags(d), flags[d])
    BY UnscheduledType DEF IInv
  <2> QED BY <2>1, <2>2, CancelOwes
<1>4. ASSUME NEW ctx, NEW q \in Queues, NEW d \in Delayable, NEW delay,
             k_work_schedule_for_queue(ctx, q, d, delay)
               \/ k_work_reschedule_for_queue(ctx, q, d, delay)
      PROVE  OwedInv'
  <2>1. PICK fl, list : schedule_for_queue_locked(ctx, q, d, delay, fl, list)
    BY <1>4 DEF k_work_schedule_for_queue, k_work_reschedule_for_queue
  <2>2. UNCHANGED <<cur, pc, target, sem, owed>>
    BY <1>4 DEF k_work_schedule_for_queue, k_work_reschedule_for_queue, clientVars
  <2>3. submit_to_queue_locked(d, q, ctx, fl) \/ UNCHANGED pending
    BY <2>1 DEF schedule_for_queue_locked
  <2>4. d \in Works /\ q \in Queues \cup {None}
    BY WorkQueueAssumption
  <2> QED BY <2>2, <2>3, <2>4, SubmitOwes, QuietOwes
<1> QED BY <1>1, <1>2, <1>3, <1>4 DEF AsyncStep

\* Every step keeps the order of flushers.
LEMMA NextOwes == IInv /\ OwedInv /\ [Next]_vars => OwedInv'
<1> SUFFICES ASSUME IInv, OwedInv, [Next]_vars PROVE OwedInv'
  OBVIOUS
<1>0. IInv'
  BY NextIInv
<1>1. CASE UNCHANGED vars
  BY <1>0, <1>1, QuietOwes DEF vars, itemVars, threadVars, clientVars
<1>2. CASE work_timeout
  <2>1. UNCHANGED <<cur, pc, target, sem, owed>>
    BY <1>2 DEF work_timeout, clientVars
  <2>2. firing \in Works /\ dqueue[firing] \in Queues \cup {None}
    BY <1>2, WorkQueueAssumption DEF work_timeout, IInv, TypeOK
  <2>3. \/ UNCHANGED pending
        \/ submit_to_queue_locked(firing, dqueue[firing], None, flags[firing] \ {"DELAYED"})
    BY <1>2 DEF work_timeout, itemVars
  <2> QED BY <1>0, <2>1, <2>2, <2>3, SubmitOwes, QuietOwes
<1>3. ASSUME NEW q \in Queues, QueueThread(q) PROVE OwedInv'
  <2>1. CASE Drained(q) \/ ThreadExit(q) \/ Sleep(q)
    <3>1. UNCHANGED <<pending, cur, owed>>
      BY <2>1 DEF Drained, ThreadExit, Sleep, itemVars, clientVars
    <3>2. \A u \in Clients : pc'[u] = "flush" =>
            pc[u] = "flush" /\ target'[u] = target[u] /\ sem'[u] = sem[u]
      BY <2>1 DEF Drained, ThreadExit, Sleep, clientVars
    <3> QED BY <1>0, <3>1, <3>2, QuietOwes
  <2> QED BY <1>3, <2>1, RunNextOwes, HandlerDoneOwes DEF QueueThread
<1>4. ASSUME NEW q \in Queues, k_work_queue_start(q) PROVE OwedInv'
  <2>1. pending' = [pending EXCEPT ![q] = <<>>] /\ pending[q] = <<>>
        /\ UNCHANGED <<cur, clientVars>>
    BY <1>4 DEF k_work_queue_start, IInv, Places, ThreadState
  <2>2. UNCHANGED pending
    BY <2>1 DEF IInv, TypeOK
  <2> QED BY <1>0, <2>1, <2>2, QuietOwes DEF clientVars
<1>5. ASSUME NEW q \in Queues, k_work_queue_unplug(q) PROVE OwedInv'
  BY <1>0, <1>5, QuietOwes DEF k_work_queue_unplug, itemVars, clientVars
<1>6. ASSUME NEW d \in Delayable, Expire(d) PROVE OwedInv'
  BY <1>0, <1>6, QuietOwes DEF Expire, itemVars, threadVars, clientVars
<1> QED BY <1>0, <1>1, <1>2, <1>3, <1>4, <1>5, <1>6, AsyncOwes, ClientOwes DEF Next

\* work.c: k_work_flush and k_work_flush_delayable do not return before every
\* execution is over that was queued or running when they were called.
THEOREM FlushesWait == Spec => []FlushWaits
<1>1. Init => OwedInv
  BY EmptyList, WorkQueueAssumption DEF Init, OwedInv, Owes
<1>2. OwedInv => FlushWaits
  BY DEF OwedInv, Owes, FlushWaits
<1> QED BY <1>1, <1>2, NextOwes, InductiveInvariant, PTL DEF Spec

-----------------------------------------------------------------------------
(* Cancelling *)

\* Not both being cancelled and queued.
NotBoth(fl) == ~({"CANCELING", "QUEUED"} \subseteq fl)

\* A step that gives one item w new flags.
LEMMA OneItem ==
  ASSUME IInv, CancelInv, NEW w \in Items, NEW fl, NotBoth(fl),
         flags' = [flags EXCEPT ![w] = fl]
  PROVE  CancelInv'
BY DEF IInv, TypeOK, CancelInv, NotBoth

\* submit_to_queue_locked refuses an item that is being cancelled.
LEMMA SubmitNotBoth ==
  ASSUME IInv, CancelInv, NEW w \in Works, NEW q, NEW ctx, NEW fl, NotBoth(fl),
         submit_to_queue_locked(w, q, ctx, fl)
  PROVE  CancelInv'
<1>1. w \in Items
  BY DEF Items
<1>2. CASE ~Submittable(w, q, ctx, fl)
  BY <1>1, <1>2, OneItem DEF submit_to_queue_locked
<1>3. CASE Submittable(w, q, ctx, fl)
  <2>1. flags' = [flags EXCEPT ![w] = fl \cup {"QUEUED"}]
    BY <1>3 DEF submit_to_queue_locked
  <2>2. NotBoth(fl \cup {"QUEUED"})
    BY <1>3 DEF Submittable, NotBoth
  <2> QED BY <1>1, <2>1, <2>2, OneItem
<1> QED BY <1>2, <1>3

\* cancel_async_locked takes the item off its list before it marks it.
LEMMA CancelNotBoth ==
  ASSUME IInv, CancelInv, NEW w \in Works, NEW fl, NotBoth(fl), cancel_async_locked(w, fl)
  PROVE  CancelInv'
<1>1. w \in Items /\ flags' = [flags EXCEPT ![w] = CanceledFlags(fl)]
  BY DEF Items, cancel_async_locked
<1>2. NotBoth(CanceledFlags(fl))
  BY DEF CanceledFlags, NotBoth
<1> QED BY <1>1, <1>2, OneItem

\* work_flush_locked.
LEMMA FlushNotBoth ==
  ASSUME IInv, CancelInv, NEW w \in Works, NEW c \in Clients, NEW fl, NotBoth(fl),
         NEW q, NEW p, work_flush_locked(c, w, fl, q, p)
  PROVE  CancelInv'
<1>1. /\ w \in Items /\ c \in Items
      /\ flags' = [flags EXCEPT ![w] = fl, ![c] = {"FLUSHING"}]
  BY DEF Items, work_flush_locked
<1>2. \A i \in Items : flags'[i] \in {flags[i], fl, {"FLUSHING"}}
  BY <1>1 DEF IInv, TypeOK
<1> QED BY <1>2 DEF CancelInv, NotBoth

\* Every step keeps it.
LEMMA NextCancel == IInv /\ CancelInv /\ [Next]_vars => CancelInv'
<1> SUFFICES ASSUME IInv, CancelInv, [Next]_vars PROVE CancelInv'
  OBVIOUS
<1>0. /\ \A w \in Works : NotBoth(flags[w])
      /\ \A d \in Delayable : d \in Works /\ NotBoth(UnscheduledFlags(d))
      /\ \A d \in Delayable : NotBoth(flags[d] \ {"DELAYED"})
  BY WorkQueueAssumption DEF CancelInv, NotBoth, Items, UnscheduledFlags
<1>1. ASSUME UNCHANGED flags PROVE CancelInv'
  BY <1>1 DEF CancelInv
<1>2. CASE work_timeout
  <2>1. firing \in Delayable
    BY <1>2 DEF work_timeout, IInv, TypeOK
  <2>2. \/ UNCHANGED flags
        \/ submit_to_queue_locked(firing, dqueue[firing], None, flags[firing] \ {"DELAYED"})
    BY <1>2 DEF work_timeout, itemVars
  <2> QED BY <1>0, <1>1, <2>1, <2>2, SubmitNotBoth
<1>3. CASE AsyncStep
  <2>1. ASSUME NEW ctx, NEW q, NEW w \in Works, k_work_submit_to_queue(ctx, q, w)
        PROVE  CancelInv'
    BY <1>0, <2>1, SubmitNotBoth DEF k_work_submit_to_queue
  <2>2. ASSUME NEW ctx, NEW w \in Works, k_work_cancel(ctx, w) PROVE CancelInv'
    BY <1>0, <2>2, CancelNotBoth DEF k_work_cancel
  <2>3. ASSUME NEW ctx, NEW d \in Delayable, k_work_cancel_delayable(ctx, d) PROVE CancelInv'
    BY <1>0, <2>3, CancelNotBoth DEF k_work_cancel_delayable
  <2>4. ASSUME NEW ctx, NEW q, NEW d \in Delayable, NEW delay,
               k_work_schedule_for_queue(ctx, q, d, delay)
                 \/ k_work_reschedule_for_queue(ctx, q, d, delay)
        PROVE  CancelInv'
    <3>1. PICK fl, list : NotBoth(fl) /\ schedule_for_queue_locked(ctx, q, d, delay, fl, list)
      BY <1>0, <2>4 DEF k_work_schedule_for_queue, k_work_reschedule_for_queue
    <3>2. CASE submit_to_queue_locked(d, q, ctx, fl)
      BY <1>0, <3>1, <3>2, SubmitNotBoth
    <3>3. CASE flags' = [flags EXCEPT ![d] = fl \cup {"DELAYED"}]
      <4>1. NotBoth(fl \cup {"DELAYED"}) /\ d \in Items
        BY <1>0, <3>1 DEF NotBoth, Items
      <4> QED BY <3>3, <4>1, OneItem
    <3> QED BY <3>1, <3>2, <3>3 DEF schedule_for_queue_locked
  <2> QED BY <1>3, <2>1, <2>2, <2>3, <2>4 DEF AsyncStep
<1>4. ASSUME NEW c \in Clients, ClientStep(c) PROVE CancelInv'
  <2>1. ASSUME NEW w \in Works, k_work_flush(c, w) PROVE CancelInv'
    BY <1>0, <2>1, FlushNotBoth DEF k_work_flush
  <2>2. ASSUME NEW w \in Works, k_work_cancel_sync(c, w) PROVE CancelInv'
    BY <1>0, <2>2, CancelNotBoth DEF k_work_cancel_sync
  <2>3. ASSUME NEW d \in Delayable, k_work_cancel_delayable_sync(c, d) PROVE CancelInv'
    BY <1>0, <2>3, CancelNotBoth DEF k_work_cancel_delayable_sync
  <2>4. ASSUME NEW d \in Delayable, k_work_flush_delayable(c, d) PROVE CancelInv'
    <3> DEFINE fl  == UnscheduledFlags(d)
               sub == d \in armed /\ "DELAYED" \in flags[d] /\ Submittable(d, dqueue[d], None, fl)
               fl2 == IF sub THEN fl \cup {"QUEUED"} ELSE fl
    <3>1. NotBoth(fl2) /\ d \in Works /\ d \in Items
      BY <1>0 DEF NotBoth, Submittable, Items
    <3>2. \/ \E q, p : work_flush_locked(c, d, fl2, q, p)
          \/ flags' = [flags EXCEPT ![d] = fl2]
      BY <2>4 DEF k_work_flush_delayable
    <3> HIDE DEF fl2
    <3> QED BY <3>1, <3>2, FlushNotBoth, OneItem
  <2>5. ASSUME NEW q \in Queues, NEW b, k_work_queue_drain(c, q, b) \/ k_work_queue_stop(c, q, b)
        PROVE  CancelInv'
    BY <1>1, <2>5 DEF k_work_queue_drain, k_work_queue_stop, itemVars
  <2>6. ASSUME Resume(c) PROVE CancelInv'
    BY <1>1, <2>6 DEF Resume, SyncDone, JoinDone, JoinTimeout, itemVars
  <2> QED BY <1>4, <2>1, <2>2, <2>3, <2>4, <2>5, <2>6 DEF ClientStep
<1>5. ASSUME NEW q \in Queues, QueueThread(q) PROVE CancelInv'
  <2>1. CASE RunNext(q)
    <3>1. flags' = [flags EXCEPT ![Head(pending[q])] = (@ \cup {"RUNNING"}) \ {"QUEUED"}]
      BY <2>1 DEF RunNext
    <3>2. \A i \in Items : flags'[i] \subseteq flags[i] \cup {"RUNNING"}
      BY <3>1 DEF IInv, TypeOK
    <3> QED BY <3>2 DEF CancelInv
  <2>2. CASE HandlerDone(q)
    <3>1. flags' = [flags EXCEPT ![cur[q]] = @ \ {"RUNNING", "FLUSHING", "CANCELING"}]
      BY <2>2 DEF HandlerDone
    <3>2. \A i \in Items : flags'[i] \subseteq flags[i]
      BY <3>1 DEF IInv, TypeOK
    <3> QED BY <3>2 DEF CancelInv
  <2>3. CASE Drained(q) \/ ThreadExit(q) \/ Sleep(q)
    BY <1>1, <2>3 DEF Drained, ThreadExit, Sleep, itemVars
  <2> QED BY <1>5, <2>1, <2>2, <2>3 DEF QueueThread
<1>6. ASSUME NEW q \in Queues, k_work_queue_start(q) \/ k_work_queue_unplug(q) PROVE CancelInv'
  BY <1>1, <1>6 DEF k_work_queue_start, k_work_queue_unplug, itemVars
<1>7. ASSUME NEW d \in Delayable, Expire(d) PROVE CancelInv'
  BY <1>1, <1>7 DEF Expire, itemVars
<1>8. CASE UNCHANGED vars
  BY <1>1, <1>8 DEF vars, itemVars
<1> QED BY <1>2, <1>3, <1>4, <1>5, <1>6, <1>7, <1>8 DEF Next

\* finalize_cancel_locked releases a client that cancels the item, if the item is
\* being cancelled.
LEMMA WhoIsReleased ==
  ASSUME cancels \in Seq(Clients), NEW i, NEW c \in ToSet(cancels),
         c \notin ToSet(finalize_cancel_locked(i))
  PROVE  "CANCELING" \in flags[i] /\ target[c] = i
<1> DEFINE T(u) == target[u] = i
           I == {k \in 1..Len(cancels) : T(cancels[k])}
<1>1. "CANCELING" \in flags[i] /\ I # {}
  BY DEF finalize_cancel_locked, RemoveFirstMatch
<1>2. I \in SUBSET Nat
  OBVIOUS
<1>3. finalize_cancel_locked(i) = RemoveAt(cancels, Min(I))
  BY <1>1 DEF finalize_cancel_locked, RemoveFirstMatch, SelectInSeq
<1>4. Min(I) \in I
  <2> HIDE DEF I
  <2> QED BY <1>1, <1>2, MinOfNats
<1>5. PICK k \in 1..Len(cancels) : k = Min(I) /\ target[cancels[k]] = i
  BY <1>4
<1> HIDE DEF I
<1>6. ASSUME cancels[k] # c PROVE FALSE
  <2>1. PICK j \in 1..Len(cancels) : cancels[j] = c
    BY ListElements
  <2>2. j # k
    BY <1>6, <2>1
  <2>3. c \in ToSet(RemoveAt(cancels, k))
    BY <2>1, <2>2, RestOfList
  <2> QED BY <2>3, <1>3, <1>5
<1> QED BY <1>1, <1>5, <1>6

\* work.c: when k_work_cancel_sync is released, the item is not running, queued or
\* being cancelled.
THEOREM CancelsEffective == Spec => CancelEffective
<1>1. Init => CancelInv
  BY DEF Init, CancelInv
<1>2. IInv /\ CancelInv /\ [Next]_vars =>
        [\A c \in Clients :
           pc[c] = "cancel" /\ sem[c] = 0 /\ sem'[c] = 1
             => flags'[target[c]] \cap {"RUNNING", "QUEUED", "CANCELING"} = {}]_vars
  <2> SUFFICES ASSUME IInv, CancelInv, Next, NEW c \in Clients,
                      pc[c] = "cancel", sem[c] = 0, sem'[c] = 1
               PROVE  flags'[target[c]] \cap {"RUNNING", "QUEUED", "CANCELING"} = {}
    BY DEF vars, clientVars
  <2>1. PICK q \in Queues : HandlerDone(q)
    <3>1. ASSUME NEW u \in Clients, ClientStep(u) PROVE FALSE
      <4>1. \/ UNCHANGED sem
            \/ sem' = [sem EXCEPT ![u] = 0]
        <5>1. ASSUME NEW w, k_work_flush(u, w) \/ k_work_flush_delayable(u, w)
              PROVE  UNCHANGED sem \/ sem' = [sem EXCEPT ![u] = 0]
          BY <5>1 DEF k_work_flush, k_work_flush_delayable, work_flush_locked
        <5>2. ASSUME NEW w, k_work_cancel_sync(u, w) \/ k_work_cancel_delayable_sync(u, w)
              PROVE  UNCHANGED sem \/ sem' = [sem EXCEPT ![u] = 0]
          BY <5>2 DEF k_work_cancel_sync, k_work_cancel_delayable_sync, cancel_sync_locked
        <5>3. ASSUME NEW r, NEW b, k_work_queue_drain(u, r, b) \/ k_work_queue_stop(u, r, b)
              PROVE  UNCHANGED sem
          BY <5>3 DEF k_work_queue_drain, k_work_queue_stop
        <5>4. ASSUME Resume(u) PROVE UNCHANGED sem \/ sem' = [sem EXCEPT ![u] = 0]
          BY <5>4 DEF Resume, SyncDone, JoinDone, JoinTimeout
        <5> QED BY <3>1, <5>1, <5>2, <5>3, <5>4 DEF ClientStep
      <4>2. sem \in [Clients -> {0, 1}]
        BY DEF IInv, TypeOK
      <4> QED BY <4>1, <4>2
    <3>2. CASE AsyncStep
      BY <3>2 DEF AsyncStep, k_work_submit_to_queue, k_work_cancel, k_work_schedule_for_queue,
           k_work_reschedule_for_queue, k_work_cancel_delayable, clientVars
    <3>3. CASE work_timeout
      BY <3>3 DEF work_timeout, clientVars
    <3>4. ASSUME NEW q \in Queues,
                 k_work_queue_start(q) \/ k_work_queue_unplug(q)
                   \/ RunNext(q) \/ Drained(q) \/ ThreadExit(q) \/ Sleep(q)
          PROVE  FALSE
      BY <3>4 DEF k_work_queue_start, k_work_queue_unplug, RunNext, Drained, ThreadExit, Sleep,
                  clientVars
    <3>5. ASSUME NEW d \in Delayable, Expire(d) PROVE FALSE
      BY <3>5 DEF Expire, clientVars
    <3> QED BY <3>1, <3>2, <3>3, <3>4, <3>5 DEF Next, QueueThread
  <2> DEFINE i == cur[q]
  <2>2. /\ sem' = [u \in Clients |-> IF u \in Released(i) THEN 1 ELSE sem[u]]
        /\ flags' = [flags EXCEPT ![i] = @ \ {"RUNNING", "FLUSHING", "CANCELING"}]
    BY <2>1 DEF HandlerDone, Released
  <2>3. c \in Released(i)
    BY <2>2
  <2>4. c # i
    BY DEF IInv, Places, FlusherPlace, FlusherAt
  <2>5. c \in ToSet(cancels) /\ c \notin ToSet(finalize_cancel_locked(i))
    BY <2>3, <2>4 DEF Released, finalize_flush_locked
  <2>6. "CANCELING" \in flags[i] /\ target[c] = i
    BY <2>5, WhoIsReleased DEF IInv, TypeOK
  <2>7. i \in Items
    BY <2>1 DEF HandlerDone, IInv, Places, ThreadState, TypeOK
  <2>8. "QUEUED" \notin flags[i]
    BY <2>6, <2>7 DEF CancelInv
  <2> QED BY <2>2, <2>6, <2>7, <2>8 DEF IInv, TypeOK
<1> QED BY <1>1, <1>2, NextCancel, InductiveInvariant, PTL DEF Spec, CancelEffective

-----------------------------------------------------------------------------
(* The timeouts of delayable items stay in step with K_WORK_DELAYED as long as
   nothing runs between the moment sys_clock_announce unlinks a timeout and the
   moment its callback takes the work lock: a uniprocessor whose system timer is
   not interrupted. *)


\* A timeout that is about to be handled has left the list.
FiringUnlinked == firing # None => firing \notin armed

TimerInv == TimerSync /\ FiringUnlinked /\ TimeoutNotLinked

\* A step that leaves the timeouts alone and clears no K_WORK_DELAYED.
LEMMA TimersUntouched ==
  ASSUME TimerInv, UNCHANGED <<armed, firing, fault>>,
         \A d \in Delayable : "DELAYED" \in flags[d] => "DELAYED" \in flags'[d]
  PROVE  TimerInv'
BY DEF TimerInv, TimerSync, FiringUnlinked, TimeoutNotLinked

\* A step in which d's timeout is off the list, and d may lose its flag.
LEMMA TimerOff ==
  ASSUME TimerInv, firing = None, firing' = None, UNCHANGED fault,
         None \notin Delayable,
         NEW d \in Delayable, d \notin armed', armed' \subseteq armed,
         \A x \in Delayable : x # d => flags'[x] = flags[x]
  PROVE  TimerInv'
BY DEF TimerInv, TimerSync, FiringUnlinked, TimeoutNotLinked

\* unschedule_locked leaves no timeout behind, on the list or unlinked.
LEMMA Unscheduled ==
  ASSUME TimerInv, NEW d \in Delayable
  PROVE  d \notin UnscheduledList(d) /\ UnscheduledList(d) \subseteq armed
BY DEF TimerInv, TimerSync, UnscheduledList

\* The flags other items have are not touched by a submission of w.
LEMMA SubmitFlags ==
  ASSUME TypeOK, NEW w \in Works, NEW q, NEW ctx, NEW fl, submit_to_queue_locked(w, q, ctx, fl)
  PROVE  /\ \A x \in Works : x # w => flags'[x] = flags[x]
         /\ flags'[w] \in {fl, fl \cup {"QUEUED"}}
<1>1. w \in Items /\ flags' \in {[flags EXCEPT ![w] = fl], [flags EXCEPT ![w] = fl \cup {"QUEUED"}]}
  BY DEF submit_to_queue_locked, Items
<1> QED BY <1>1 DEF TypeOK, Items

\* ... nor by a cancellation of w.
LEMMA CancelFlags ==
  ASSUME TypeOK, NEW w \in Works, NEW fl, cancel_async_locked(w, fl)
  PROVE  \A x \in Works : x # w => flags'[x] = flags[x]
BY DEF cancel_async_locked, TypeOK, Items

\* k_work_schedule_for_queue and k_work_reschedule_for_queue, once d's timeout
\* is off the list.
LEMMA ScheduleTimer ==
  ASSUME TypeOK, TimerInv, firing = None, UNCHANGED firing,
         NEW ctx, NEW q, NEW d \in Delayable, NEW delay, NEW fl, NEW list,
         d \notin list, list \subseteq armed,
         schedule_for_queue_locked(ctx, q, d, delay, fl, list)
  PROVE  TimerInv'
<1>0. d \in Works /\ d \in Items /\ None \notin Delayable /\ \A x \in Delayable : x \in Items /\ x \in Works
  BY WorkQueueAssumption DEF Items
<1>1. CASE delay = "no_wait"
  <2>1. submit_to_queue_locked(d, q, ctx, fl) /\ armed' = list /\ UNCHANGED fault
    BY <1>1 DEF schedule_for_queue_locked
  <2>2. \A x \in Works : x # d => flags'[x] = flags[x]
    BY <1>0, <2>1, SubmitFlags
  <2> QED BY <1>0, <2>1, <2>2, TimerOff
<1>2. CASE delay # "no_wait"
  <2>1. /\ flags' = [flags EXCEPT ![d] = fl \cup {"DELAYED"}]
        /\ z_add_timeout(d, delay, list)
    BY <1>2 DEF schedule_for_queue_locked
  <2>2. /\ "DELAYED" \in flags'[d]
        /\ \A x \in Delayable : x # d => flags'[x] = flags[x]
    BY <1>0, <2>1 DEF TypeOK
  <2>3. armed' \subseteq list \cup {d} /\ ~fault'
    <3>1. CASE delay = "forever"
      <4>1. armed' = list /\ fault' = fault
        BY <2>1, <3>1 DEF z_add_timeout
      <4> QED BY <4>1 DEF TimerInv, TimeoutNotLinked
    <3>2. CASE delay # "forever"
      <4>1. armed' = list \cup {d}
        BY <2>1, <3>2 DEF z_add_timeout
      <4>2. fault' = (d \in list)
        BY <2>1, <3>2 DEF z_add_timeout
      <4>3. ~fault'
        BY <4>2, Zenon
      <4> QED BY <4>1, <4>3
    <3> QED BY <3>1, <3>2
  <2> QED BY <1>0, <2>2, <2>3 DEF TimerInv, TimerSync, FiringUnlinked, TimeoutNotLinked
<1> QED BY <1>1, <1>2

\* The submissions, schedulings and cancellations that do not block.
LEMMA AsyncTimer ==
  ASSUME TypeOK, TimerInv, firing = None, AsyncStep
  PROVE  TimerInv'
<1>0. None \notin Delayable /\ \A x \in Delayable : x \in Works
  BY WorkQueueAssumption
<1>1. ASSUME NEW ctx, NEW q, NEW w \in Works, k_work_submit_to_queue(ctx, q, w)
      PROVE  TimerInv'
  <2>1. w \notin Delayable /\ submit_to_queue_locked(w, q, ctx, flags[w]) /\ UNCHANGED timerVars
    BY <1>1 DEF k_work_submit_to_queue
  <2>2. \A x \in Works : x # w => flags'[x] = flags[x]
    BY <2>1, SubmitFlags
  <2> QED BY <1>0, <2>1, <2>2, TimersUntouched DEF timerVars
<1>2. ASSUME NEW ctx, NEW w \in Works, k_work_cancel(ctx, w)
      PROVE  TimerInv'
  <2>1. w \notin Delayable /\ cancel_async_locked(w, flags[w]) /\ UNCHANGED timerVars
    BY <1>2 DEF k_work_cancel
  <2>2. \A x \in Works : x # w => flags'[x] = flags[x]
    BY <2>1, CancelFlags
  <2> QED BY <1>0, <2>1, <2>2, TimersUntouched DEF timerVars
<1>3. ASSUME NEW ctx, NEW d \in Delayable, k_work_cancel_delayable(ctx, d)
      PROVE  TimerInv'
  <2>1. /\ cancel_async_locked(d, UnscheduledFlags(d)) /\ armed' = UnscheduledList(d)
        /\ UNCHANGED <<firing, fault>>
    BY <1>3 DEF k_work_cancel_delayable
  <2>2. \A x \in Works : x # d => flags'[x] = flags[x]
    BY <1>0, <2>1, CancelFlags
  <2> QED BY <1>0, <2>1, <2>2, Unscheduled, TimerOff
<1>4. ASSUME NEW ctx, NEW q, NEW d \in Delayable, NEW delay,
             k_work_schedule_for_queue(ctx, q, d, delay)
      PROVE  TimerInv'
  <2>1. /\ flags[d] \subseteq {"RUNNING"} /\ UNCHANGED firing
        /\ schedule_for_queue_locked(ctx, q, d, delay, flags[d], armed)
    BY <1>4 DEF k_work_schedule_for_queue
  <2>2. d \notin armed
    BY <2>1 DEF TimerInv, TimerSync
  <2>3. armed \subseteq armed
    OBVIOUS
  <2> QED BY <2>1, <2>2, <2>3, ScheduleTimer, ZenonT(30)
<1>5. ASSUME NEW ctx, NEW q, NEW d \in Delayable, NEW delay,
             k_work_reschedule_for_queue(ctx, q, d, delay)
      PROVE  TimerInv'
  <2>1. /\ UNCHANGED firing
        /\ schedule_for_queue_locked(ctx, q, d, delay, UnscheduledFlags(d), UnscheduledList(d))
    BY <1>5 DEF k_work_reschedule_for_queue
  <2>2. d \notin UnscheduledList(d) /\ UnscheduledList(d) \subseteq armed
    BY Unscheduled
  <2> QED BY <2>1, <2>2, ScheduleTimer, ZenonT(30)
<1> QED BY <1>1, <1>2, <1>3, <1>4, <1>5 DEF AsyncStep

\* A client's calls and returns.
LEMMA ClientTimer ==
  ASSUME TypeOK, TimerInv, firing = None, NEW c \in Clients, ClientStep(c)
  PROVE  TimerInv'
<1>0. /\ None \notin Delayable
      /\ \A x \in Delayable : x \in Works /\ x \in Items /\ x # c
      /\ \A x \in Works : x \in Items /\ x # c
      /\ flags \in [Items -> SUBSET WorkFlag]
  BY WorkQueueAssumption DEF Items, TypeOK
<1>1. ASSUME NEW w \in Works, k_work_flush(c, w)
      PROVE  TimerInv'
  <2>1. flags' = [flags EXCEPT ![w] = flags[w], ![c] = {"FLUSHING"}] /\ UNCHANGED timerVars
    BY <1>1 DEF k_work_flush, work_flush_locked
  <2>2. \A x \in Delayable : flags'[x] = flags[x]
    BY <1>0, <2>1
  <2> QED BY <2>1, <2>2, TimersUntouched DEF timerVars
<1>2. ASSUME NEW w \in Works, k_work_cancel_sync(c, w)
      PROVE  TimerInv'
  <2>1. w \notin Delayable /\ cancel_async_locked(w, flags[w]) /\ UNCHANGED timerVars
    BY <1>2 DEF k_work_cancel_sync
  <2>2. \A x \in Works : x # w => flags'[x] = flags[x]
    BY <2>1, CancelFlags
  <2> QED BY <1>0, <2>1, <2>2, TimersUntouched DEF timerVars
<1>3. ASSUME NEW d \in Delayable, k_work_cancel_delayable_sync(c, d)
      PROVE  TimerInv'
  <2>1. /\ cancel_async_locked(d, UnscheduledFlags(d)) /\ armed' = UnscheduledList(d)
        /\ UNCHANGED <<firing, fault>>
    BY <1>3 DEF k_work_cancel_delayable_sync
  <2>2. \A x \in Works : x # d => flags'[x] = flags[x]
    BY <1>0, <2>1, CancelFlags
  <2> QED BY <1>0, <2>1, <2>2, Unscheduled, TimerOff
<1>4. ASSUME NEW d \in Delayable, k_work_flush_delayable(c, d)
      PROVE  TimerInv'
  <2>1. /\ armed' = UnscheduledList(d) /\ UNCHANGED <<firing, fault>>
        /\ \E fl2 : flags' \in {[flags EXCEPT ![d] = fl2, ![c] = {"FLUSHING"}],
                                [flags EXCEPT ![d] = fl2]}
    BY <1>4 DEF k_work_flush_delayable, work_flush_locked
  <2>2. \A x \in Delayable : x # d => flags'[x] = flags[x]
    BY <1>0, <2>1
  <2> QED BY <1>0, <2>1, <2>2, Unscheduled, TimerOff
<1>5. ASSUME NEW q \in Queues, NEW b \in BOOLEAN,
             k_work_queue_drain(c, q, b) \/ k_work_queue_stop(c, q, b)
      PROVE  TimerInv'
  BY <1>5, TimersUntouched DEF k_work_queue_drain, k_work_queue_stop, itemVars, timerVars
<1>6. CASE Resume(c)
  BY <1>6, TimersUntouched DEF Resume, SyncDone, JoinDone, JoinTimeout, itemVars, timerVars
<1> QED BY <1>1, <1>2, <1>3, <1>4, <1>5, <1>6 DEF ClientStep

\* The queue threads do not know of timeouts.
LEMMA ThreadTimer ==
  ASSUME IInv, TimerInv, NEW q \in Queues, QueueThread(q)
  PROVE  TimerInv'
<1>1. flags \in [Items -> SUBSET WorkFlag] /\ \A x \in Delayable : x \in Items
  BY WorkQueueAssumption DEF IInv, TypeOK, Items
<1>2. CASE RunNext(q)
  <2>1. /\ flags' = [flags EXCEPT ![Head(pending[q])] = (@ \cup {"RUNNING"}) \ {"QUEUED"}]
        /\ UNCHANGED timerVars
    BY <1>2 DEF RunNext
  <2>2. \A x \in Delayable : "DELAYED" \in flags[x] => "DELAYED" \in flags'[x]
    BY <1>1, <2>1
  <2> QED BY <2>1, <2>2, TimersUntouched DEF timerVars
<1>3. CASE HandlerDone(q)
  <2>1. /\ flags' = [flags EXCEPT ![cur[q]] = @ \ {"RUNNING", "FLUSHING", "CANCELING"}]
        /\ UNCHANGED timerVars
    BY <1>3 DEF HandlerDone
  <2>2. \A x \in Delayable : "DELAYED" \in flags[x] => "DELAYED" \in flags'[x]
    BY <1>1, <2>1
  <2> QED BY <2>1, <2>2, TimersUntouched DEF timerVars
<1>4. CASE Drained(q) \/ ThreadExit(q) \/ Sleep(q)
  BY <1>4, TimersUntouched DEF Drained, ThreadExit, Sleep, itemVars, timerVars
<1> QED BY <1>2, <1>3, <1>4 DEF QueueThread

\* The callback: the flag goes, the timeout was not on the list any more.
LEMMA TimeoutTimer ==
  ASSUME TypeOK, TimerInv, work_timeout
  PROVE  TimerInv'
<1>0. firing \in Works /\ None \notin Delayable /\ \A x \in Delayable : x \in Works
  BY WorkQueueAssumption DEF TypeOK, work_timeout
<1>1. PICK d \in Works : d = firing
  BY <1>0
<1>2. d \notin armed /\ firing' = None /\ UNCHANGED <<armed, fault>>
  BY <1>1 DEF work_timeout, TimerInv, FiringUnlinked
<1>3. \A x \in Works : x # d => flags'[x] = flags[x]
  <2>1. CASE "DELAYED" \in flags[d]
    <3>1. submit_to_queue_locked(d, dqueue[d], None, flags[d] \ {"DELAYED"})
      BY <1>1, <2>1 DEF work_timeout, submit_to_queue_locked
    <3> QED BY <3>1, SubmitFlags
  <2>2. CASE "DELAYED" \notin flags[d]
    BY <1>1, <2>2 DEF work_timeout, itemVars
  <2> QED BY <2>1, <2>2
<1> QED BY <1>0, <1>2, <1>3 DEF TimerInv, TimerSync, FiringUnlinked, TimeoutNotLinked

\* Every step keeps TimerInv when the gap is closed.
LEMMA NextTimer ==
  ASSUME ~Preemptible
  PROVE  IInv /\ TimerInv /\ [Next]_vars => TimerInv'
<1> SUFFICES ASSUME IInv, TimerInv, [Next]_vars PROVE TimerInv'
  OBVIOUS
<1>0. TypeOK
  BY DEF IInv
<1>1. CASE UNCHANGED vars
  BY <1>1, TimersUntouched DEF vars, itemVars, timerVars
<1>2. CASE work_timeout
  BY <1>0, <1>2, TimeoutTimer
<1>3. ASSUME NEW q \in Queues, k_work_queue_start(q) \/ k_work_queue_unplug(q)
      PROVE  TimerInv'
  BY <1>3, TimersUntouched DEF k_work_queue_start, k_work_queue_unplug, itemVars, timerVars
<1>4. ASSUME NEW d \in Delayable, Expire(d)
      PROVE  TimerInv'
  BY <1>4 DEF Expire, itemVars, TimerInv, TimerSync, FiringUnlinked, TimeoutNotLinked
<1> QED BY <1>0, <1>1, <1>2, <1>3, <1>4, AsyncTimer, ClientTimer, ThreadTimer DEF Next

\* work.c on a uniprocessor whose timer interrupt is not interrupted: a timeout
\* on the list, or being handled, belongs to an item marked K_WORK_DELAYED, and
\* the assertion in z_add_timeout never fails.
THEOREM TimersInStep ==
  ASSUME ~Preemptible
  PROVE  Spec => [](TimerSync /\ TimeoutNotLinked)
<1>1. Init => TimerInv
  BY WorkQueueAssumption DEF Init, TimerInv, TimerSync, FiringUnlinked, TimeoutNotLinked
<1>2. IInv /\ TimerInv /\ [Next]_vars => TimerInv'
  BY NextTimer
<1>3. TimerInv => TimerSync /\ TimeoutNotLinked
  BY DEF TimerInv
<1> QED BY <1>1, <1>2, <1>3, InductiveInvariant, PTL DEF Spec
=============================================================================
