-------------------------------- MODULE Queue --------------------------------
(***************************************************************************)
(* Queues of the Zephyr kernel (kernel/queue.c), which are FIFOs and LIFOs *)
(* too: a list of items, linked through their first word or through a node *)
(* that is allocated.  Items on no list belong to the threads.             *)
(***************************************************************************)
EXTENDS PollEvents

CONSTANTS
  Items,
  ItemLists  \* the lists that are appended in one call

ASSUME QueueAssumption ==
  /\ None \notin Items
  /\ ItemLists \subseteq {list \in Seq(Items) : list # <<>> /\ IsInjective(list)}

VARIABLES
  data_q,  \* the items of each queue
  lost     \* threads that were taken off a wait queue, and not made ready

queueVars == <<data_q, swap_data, lost>>

QueueInit == data_q = [q \in Queues |-> <<>>] /\ lost = {}

-----------------------------------------------------------------------------
\* Items some queue or some thread has.
Taken == (UNION {ToSet(data_q[q]) : q \in Queues}) \cup HandedOver

\* Of a list of items, each goes to one of the threads that wait on q.
GivenTo(ts, items) ==
  [t \in Threads |-> IF t \in ToSet(ts) THEN items[SelectInSeq(ts, LAMBDA u : u = t)]
                                        ELSE swap_data[t]]

Served(q, items) == {wait_q[q][i] : i \in DOMAIN wait_q[q] \cap DOMAIN items}

\* queue_insert: one item, behind prev: the last one for k_queue_append and
\* k_queue_unique_append, None for k_queue_prepend, the caller's choice for
\* k_queue_insert.  (k_queue_alloc_append without memory, and
\* k_queue_unique_append of an item of the queue, have no effect.)
queue_insert(q, i, prev) ==
  /\ Unlocked(q) /\ i \notin Taken
  /\ \/ /\ wait_q[q] # <<>>
        /\ swap_data' = [swap_data EXCEPT ![Head(wait_q[q])] = i]
        /\ WakeWith({Head(wait_q[q])}, q, "0")
        /\ UNCHANGED <<data_q, handling>>
     \/ /\ wait_q[q] = <<>>
        /\ data_q' = [data_q EXCEPT ![q] =
                      InsertAt(@, SelectInSeq(@, LAMBDA j : j = prev) + 1, i)]
        /\ handling' = [handling EXCEPT ![q] = "AVAILABLE"]
        /\ UNCHANGED <<swap_data, waitVars>>
  /\ UNCHANGED <<lost, prio, call, data, eventVars, triggerVars, tworkVars>>

\* A list of items: as many threads are woken as there are items for, and the
\* pollers are told in any case.  The loop unpends a thread before it looks
\* whether an item is left for it: one more, if more wait, stays neither pended
\* nor ready, and its timeout is aborted.
Excess(q, items) == {wait_q[q][i] : i \in DOMAIN wait_q[q] \cap {Len(items) + 1}}

k_queue_append_list(q, items) ==
  LET n == Cardinality(Served(q, items))
  IN  /\ Unlocked(q) /\ ToSet(items) \cap Taken = {}
      /\ swap_data' = GivenTo(SubSeq(wait_q[q], 1, n), items)
      /\ Unpend(Served(q, items) \cup Excess(q, items), q)
      /\ SetReturn(Served(q, items), "0")
      /\ lost' = lost \cup Excess(q, items)
      /\ data_q' = [data_q EXCEPT ![q] = @ \o SubSeq(items, n + 1, Len(items))]
      /\ handling' = [handling EXCEPT ![q] = "AVAILABLE"]
      /\ UNCHANGED <<prio, call, data, eventVars, triggerVars, tworkVars>>

\* The first waiting thread gets NULL, and the first poller is interrupted.
k_queue_cancel_wait(q) ==
  /\ Unlocked(q)
  /\ \/ /\ wait_q[q] # <<>>
        /\ WakeWith({Head(wait_q[q])}, q, "0")
     \/ /\ wait_q[q] = <<>>
        /\ UNCHANGED waitVars
  /\ handling' = [handling EXCEPT ![q] = "CANCELLED"]
  /\ UNCHANGED <<prio, call, data, queueVars, eventVars, triggerVars, tworkVars>>

\* The caller may use the item for something else at once.
k_queue_get(t, q, timeout) ==
  /\ Running(t) /\ Unlocked(q)
  /\ \/ /\ data_q[q] # <<>>
        /\ data_q' = [data_q EXCEPT ![q] = Tail(@)]
        /\ UNCHANGED <<waitVars, call>>
     \/ /\ data_q[q] = <<>>
        /\ Pend(t, q, timeout, "qget")
        /\ UNCHANGED data_q
  /\ UNCHANGED <<lost, prio, swap_data, data, handling, eventVars, triggerVars, tworkVars>>

\* Takes no lock, and tells nobody; callers keep the list's other users away.
k_queue_remove(q, i) ==
  /\ i \in ToSet(data_q[q])
  /\ data_q' = [data_q EXCEPT ![q] = Remaining(@, {i})]
  /\ UNCHANGED <<lost, waitVars, prio, call, swap_data, data, handling, eventVars, triggerVars,
                 tworkVars>>
=============================================================================
