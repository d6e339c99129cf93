------------------------------- MODULE MemSlab -------------------------------
(***************************************************************************)
(* Memory slabs of the Zephyr kernel (kernel/mem_slab.c): blocks of memory,*)
(* linked in a list while they are free, and threads that wait for one.    *)
(* A block that is neither free nor being handed over is in use.           *)
(***************************************************************************)
EXTENDS PollEvents

CONSTANTS Slabs, Blocks   \* Blocks[l]: the blocks of a slab, in the order of addresses

ASSUME MemSlabAssumption ==
  /\ Slabs \subseteq Objects
  /\ \A l \in Slabs :
       /\ Blocks[l] \in Seq(ToSet(Blocks[l])) /\ IsInjective(Blocks[l])
       /\ None \notin ToSet(Blocks[l])
       /\ \A m \in Slabs \ {l} : ToSet(Blocks[l]) \cap ToSet(Blocks[m]) = {}

VARIABLES free_list, num_used

slabVars == <<free_list, num_used>>

\* create_free_list
SlabInit ==
  /\ free_list = [l \in Slabs |-> Blocks[l]]
  /\ num_used = [l \in Slabs |-> 0]

-----------------------------------------------------------------------------
\* (With K_NO_WAIT a slab without a free block returns -ENOMEM.)
k_mem_slab_alloc(t, l, timeout) ==
  /\ Running(t)
  /\ \/ /\ free_list[l] # <<>>
        /\ free_list' = [free_list EXCEPT ![l] = Tail(@)]
        /\ num_used' = [num_used EXCEPT ![l] = @ + 1]
        /\ UNCHANGED <<waitVars, call>>
     \/ /\ free_list[l] = <<>>
        /\ Pend(t, l, timeout, "alloc")
        /\ UNCHANGED slabVars
  /\ UNCHANGED <<prio, swap_data, data, handling, eventVars, triggerVars, tworkVars>>

\* Whoever has the block frees it: a waiting thread gets it, or the list.
SomeoneWaits(l) == free_list[l] = <<>> /\ wait_q[l] # <<>>

k_mem_slab_free(l, b) ==
  /\ b \notin ToSet(free_list[l]) \cup HandedOver
  /\ \/ /\ SomeoneWaits(l)
        /\ swap_data' = [swap_data EXCEPT ![Head(wait_q[l])] = b]
        /\ WakeWith({Head(wait_q[l])}, l, "0")
        /\ UNCHANGED slabVars
     \/ /\ ~SomeoneWaits(l)
        /\ free_list' = [free_list EXCEPT ![l] = <<b>> \o @]
        /\ num_used' = [num_used EXCEPT ![l] = @ - 1]
        /\ UNCHANGED <<swap_data, waitVars>>
  /\ UNCHANGED <<prio, call, data, handling, eventVars, triggerVars, tworkVars>>
=============================================================================
