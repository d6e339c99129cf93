-------------------------------- MODULE Lists --------------------------------
(***************************************************************************)
(* The lists of threads the kernel keeps by priority                       *)
(* (kernel/include/priority_q.h), as sequences.                            *)
(***************************************************************************)
EXTENDS Integers, Sequences, SequencesExt

\* A list is ordered by the priorities the threads have when they join it, and
\* by their arrival.  (p: the priorities at that moment.)
AtTheEnd(q, t, p) == Append(q, t)

z_priq_dumb_add(q, t, p) ==
  LET lower == SelectInSeq(q, LAMBDA u : p[t] < p[u])
  IN  IF lower = 0 THEN Append(q, t) ELSE InsertAt(q, lower, t)

\* The list without the elements of ts.  (SelectSeq has no definition a proof
\* could use.)
Remaining(q, ts) ==
  LET upto[i \in 0 .. Len(q)] ==
        IF i = 0 THEN <<>>
          ELSE IF q[i] \in ts THEN upto[i - 1] ELSE Append(upto[i - 1], q[i])
  IN  upto[Len(q)]
=============================================================================
