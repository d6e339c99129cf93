------------------------------- MODULE MCPoll -------------------------------
(* An instance of Poll for TLC. *)
EXTENDS Poll

CONSTANTS t1, t2, s1, m1, q1, g1, w1, k1, l1, e1, b1, b2

\* The first thread is above the other.
Prios == [t \in Threads |-> IF t = t1 THEN 0 ELSE 1]

\* Every kind of object alone and with another, threads that contend for it,
\* poll it, or do both, and a work item that it triggers.
SomeSystems ==
  {{o, t1, t2} : o \in {m1, q1, k1, l1, e1}} \cup
  {S \cup {poll_wait_q} : S \in {{s1, t1, t2}, {s1, t1, w1}, {s1, g1, t1}, {s1, g1, w1},
                                {s1, q1, t1}, {m1, t1}, {q1, t1, w1}}}

\* One item, or all of them in any order.
SomeLists == {<<i>> : i \in Items} \cup SetToSeqs(Items)

\* One thread has a block, and two may wait.
TwoBlocks == [l \in Slabs |-> <<b1, b2>>]
=============================================================================
