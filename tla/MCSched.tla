------------------------------- MODULE MCSched -------------------------------
(* Instances of Sched for TLC. *)
EXTENDS Sched, TLC

CONSTANTS c1, c2, t1, t2, t3

\* A cooperative thread and two preemptible ones.
SomePrios == [t \in Threads |-> CASE t = t1 -> -1 [] t = t2 -> 1 [] t = t3 -> 2]

\* Every call, but not together: that a thread suspends itself while it is being
\* aborted, and that one is resumed which an interrupt that aborts another one
\* has just suspended.
ManyCalls ==
  {{"yield", "suspend", "resume", "join", "abort"},
   {"sleep", "wakeup", "join", "suspend", "resume"},
   {"suspend", "suspend self", "resume", "priority"},
   {"yield", "join", "abort", "isr abort"},
   {"sleep", "suspend", "isr abort"}}

\* CPUs are interchangeable.
Symmetric == Permutations(Cpus)

\* The first of these two.
HaltCalls == {{"suspend self", "isr abort"}}
=============================================================================
