---------------------------- MODULE TimeoutSpec ----------------------------
(***************************************************************************)
(* What the kernel's timeout queue promises: timeouts have absolute        *)
(* deadlines that nothing changes, and are handled in the order of their   *)
(* deadlines, those with equal deadlines in the order they were added,     *)
(* never before the tick of the deadline was announced.                    *)
(***************************************************************************)
EXTENDS Integers, Sequences, SequencesExt

CONSTANT Timeouts
VARIABLES
  now,       \* ticks announced so far
  schedule   \* <<timeout, deadline>> in the order of handling

vars == <<now, schedule>>

Timeout(e)  == e[1]
Deadline(e) == e[2]

Init == now = 0 /\ schedule = <<>>

Advance ==
  /\ now' > now
  /\ UNCHANGED schedule

\* schedule s with t at d, behind what is due at the same time or earlier, ...
Inserted(s, t, d) ==
  LET place == CHOOSE k \in 1 .. Len(s) + 1 :
                 \A i \in DOMAIN s : Deadline(s[i]) <= d <=> i < k
  IN  InsertAt(s, place, <<t, d>>)

\* ... and without t.
Without(s, t) ==
  LET entries == {i \in DOMAIN s : Timeout(s[i]) = t}
  IN  IF entries = {} THEN s ELSE RemoveAt(s, CHOOSE i \in entries : TRUE)

Scheduled(t) == \E i \in DOMAIN schedule : Timeout(schedule[i]) = t

Add(t, d) ==
  /\ ~Scheduled(t)
  /\ schedule' = Inserted(schedule, t, d)
  /\ UNCHANGED now

Abort(t) ==
  /\ Scheduled(t)
  /\ schedule' = Without(schedule, t)
  /\ UNCHANGED now

Fire ==
  /\ schedule # <<>>
  /\ Deadline(Head(schedule)) <= now
  /\ schedule' = Tail(schedule)
  /\ UNCHANGED now

Next ==
  \/ Advance
  \/ \E t \in Timeouts :
       \/ Abort(t)
       \/ \E i \in DOMAIN schedule' : /\ Timeout(schedule'[i]) = t
                                      /\ Add(t, Deadline(schedule'[i]))
  \/ Fire

Spec == Init /\ [][Next]_vars
=============================================================================
