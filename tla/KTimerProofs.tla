---------------------------- MODULE KTimerProofs ----------------------------
(***************************************************************************)
(* Proofs about kernel timers (module KTimer), for any timers, durations   *)
(* and periods: as long as no timer is stopped in the gap, timers expire   *)
(* when they are due, and only one that was crowded leaves its stride, on  *)
(* any number of CPUs; with one CPU no thread is left waiting for a timer. *)
(***************************************************************************)
EXTENDS KTimer, ListFacts

Entry == Timers \X Int

\* No timer is twice on the list, which is in the order of the deadlines.
Queue(s) ==
  /\ s \in Seq(Entry)
  /\ \A i, j \in 1..Len(s) : s[i][1] = s[j][1] => i = j
  /\ \A i, j \in 1..Len(s) : i <= j => s[i][2] <= s[j][2]

KTypes ==
  /\ now \in Int /\ announced \in Int /\ curr_tick \in Int /\ announce_remaining \in Int
  /\ dt \in Int
  /\ at \in {"none", "gap", "expiry"} /\ (at # "none" => current \in Timers)
  /\ period \in [Timers -> Nat]
  /\ sync \in [Timers -> {"none", "checked", "pended", "ready"}]
  /\ due \in [Timers -> Int]

\* curr_tick is behind by what is left to announce; the ticks that led to the
\* timeout being handled are still part of announce_remaining.
ClockInv ==
  /\ announced <= now /\ curr_tick <= announced /\ 0 <= dt /\ 0 <= curr_tick
  /\ curr_tick + announce_remaining = announced + dt
  /\ at = "none" => dt = 0 /\ announce_remaining = 0

ListInv ==
  /\ Queue(schedule)
  /\ \A e \in ToSet(schedule) : curr_tick <= e[2]

Has(s, t) == \E e \in ToSet(s) : e[1] = t

\* What is due in tick d is scheduled for tick k, later only if it was crowded, c.
Kept(d, c, k) == 0 <= d /\ d <= k /\ (~c => d = k)

\* StrideKept, of a timer t that is due in d and was crowded, c, in schedule s with
\* an interrupt that is at a with u.
OnTime(s, t, d, c, a, u) ==
  IF Has(s, t) THEN \E e \in ToSet(s) : e[1] = t /\ Kept(d, c, e[2])
               ELSE d # Never => a = "gap" /\ u = t

\* A timer that is about to expire, and was not restarted, is due in this tick.
DueInv ==
  /\ \A t \in Timers : OnTime(schedule, t, due[t], t \in crowded, at, current)
  /\ at = "gap" /\ ~Has(schedule, current) =>
       Kept(due[current], current \in crowded, curr_tick)

IInv == KTypes /\ ClockInv /\ ListInv /\ DueInv

\* Whoever waits for a timer, or is about to, will be woken.
WaitInv ==
  /\ KTypes /\ Queue(schedule)
  /\ \A t \in Timers : sync[t] = "checked" => Has(schedule, t)
  /\ \A t \in Timers :
       sync[t] = "pended" =>
         Has(schedule, t) \/ t \in stopping \/ (at # "none" /\ current = t)

-----------------------------------------------------------------------------
(* The schedule *)

\* Each entry once.
LEMMA QueueEntries ==
  ASSUME NEW s, Queue(s)
  PROVE  /\ ToSet(s) \subseteq Entry
         /\ \A e, f \in ToSet(s) : e[1] = f[1] => e = f
         /\ \A i \in 1..Len(s) : s[i] \in ToSet(s)
<1>1. ToSet(s) = {s[i] : i \in 1..Len(s)} /\ ToSet(s) \subseteq Entry
  BY ListElements DEF Queue
<1>2. ASSUME NEW e \in ToSet(s), NEW f \in ToSet(s), e[1] = f[1] PROVE e = f
  <2>1. PICK i \in 1..Len(s), j \in 1..Len(s) : e = s[i] /\ f = s[j]
    BY <1>1
  <2> QED BY <1>2, <2>1 DEF Queue
<1> QED BY <1>1, <1>2

\* u has entries of s, in the order they have there.
PartOf(u, s) ==
  \A i, j \in 1..Len(u) : i < j =>
    \E m, n \in 1..Len(s) : m < n /\ u[i] = s[m] /\ u[j] = s[n]

\* A list that holds entries of a queue, in the order they have there, is one.
LEMMA PartOfQueue ==
  ASSUME NEW s, Queue(s), NEW u \in Seq(Entry), PartOf(u, s)
  PROVE  Queue(u)
<1>1. Len(u) \in Nat /\ Len(s) \in Nat /\ s \in Seq(Entry)
  BY DEF Queue
<1>2. ASSUME NEW i \in 1..Len(u), NEW j \in 1..Len(u), i < j
      PROVE  u[i][1] # u[j][1] /\ u[i][2] <= u[j][2]
  <2>1. PICK m \in 1..Len(s), n \in 1..Len(s) : m < n /\ u[i] = s[m] /\ u[j] = s[n]
    BY <1>2 DEF PartOf
  <2> QED BY <1>1, <2>1 DEF Queue
<1>3. ASSUME NEW i \in 1..Len(u), NEW j \in 1..Len(u), u[i][1] = u[j][1] PROVE i = j
  BY <1>1, <1>2, <1>3
<1>4. ASSUME NEW i \in 1..Len(u), NEW j \in 1..Len(u), i <= j PROVE u[i][2] <= u[j][2]
  <2>1. u[i] \in Entry
    BY <1>1
  <2>2. u[i][2] \in Int
    BY <2>1 DEF Entry
  <2> QED BY <1>1, <1>2, <1>4, <2>2
<1> QED BY <1>3, <1>4 DEF Queue

\* sys_clock_announce takes the first entry.
LEMMA TailQueue ==
  ASSUME NEW s, Queue(s), s # <<>>
  PROVE  /\ Head(s) \in ToSet(s) /\ Head(s) \in Entry
         /\ \A e \in ToSet(s) : Head(s)[2] <= e[2]
         /\ Queue(Tail(s)) /\ ToSet(Tail(s)) = {e \in ToSet(s) : e[1] # Head(s)[1]}
<1>1. /\ s \in Seq(Entry) /\ Len(s) \in Nat /\ 1 \in 1..Len(s) /\ Head(s) = s[1]
      /\ Tail(s) \in Seq(Entry) /\ Len(Tail(s)) = Len(s) - 1
      /\ \A i \in 1..Len(Tail(s)) : Tail(s)[i] = s[i + 1]
  BY DEF Queue
<1>2. /\ ToSet(s) = {s[i] : i \in 1..Len(s)}
      /\ ToSet(Tail(s)) = {Tail(s)[i] : i \in 1..Len(Tail(s))}
  BY <1>1, ListElements
<1>3. Head(s) \in ToSet(s) /\ Head(s) \in Entry
  BY <1>1, <1>2
<1>4. \A e \in ToSet(s) : Head(s)[2] <= e[2]
  BY <1>1, <1>2 DEF Queue
<1>5. Queue(Tail(s))
  <2> DEFINE u == Tail(s)
  <2>1. \A i \in 1..Len(u) : i + 1 \in 1..Len(s) /\ u[i] = s[i + 1]
    BY <1>1
  <2>2. ASSUME NEW i \in 1..Len(u), NEW j \in 1..Len(u), i < j
        PROVE  \E m, n \in 1..Len(s) : m < n /\ u[i] = s[m] /\ u[j] = s[n]
    <3>1. i + 1 < j + 1
      BY <2>2
    <3> QED BY <2>1, <3>1
  <2> HIDE DEF u
  <2>3. PartOf(u, s)
    BY <2>2 DEF PartOf
  <2>4. u \in Seq(Entry)
    BY <1>1 DEF u
  <2>5. Queue(u)
    BY <2>3, <2>4, PartOfQueue
  <2> QED BY <2>5 DEF u
<1>6. ASSUME NEW e \in ToSet(Tail(s)) PROVE e \in ToSet(s) /\ e[1] # Head(s)[1]
  <2>1. PICK i \in 1..Len(Tail(s)) : e = Tail(s)[i]
    BY <1>2
  <2>2. i + 1 \in 1..Len(s) /\ e = s[i + 1] /\ i + 1 # 1
    BY <1>1, <2>1
  <2> QED BY <1>1, <1>2, <2>2 DEF Queue
<1>7. ASSUME NEW e \in ToSet(s), e[1] # Head(s)[1] PROVE e \in ToSet(Tail(s))
  <2>1. PICK i \in 1..Len(s) : e = s[i]
    BY <1>2
  <2>2. PICK h : h = i - 1
    OBVIOUS
  <2>3. i # 1
    BY <1>1, <1>7, <2>1
  <2>4. h \in 1..Len(Tail(s)) /\ e = Tail(s)[h]
    BY <1>1, <2>1, <2>2, <2>3
  <2> QED BY <1>2, <2>4
<1> QED BY <1>3, <1>4, <1>5, <1>6, <1>7

\* z_abort_timeout takes the entry of t, if there is one.
LEMMA WithoutQueue ==
  ASSUME NEW s, Queue(s), NEW t
  PROVE  Queue(Q!Without(s, t)) /\ ToSet(Q!Without(s, t)) = {e \in ToSet(s) : e[1] # t}
<1> DEFINE I == {i \in DOMAIN s : s[i][1] = t}
<1>1. s \in Seq(Entry) /\ Len(s) \in Nat /\ DOMAIN s = 1..Len(s)
  BY DEF Queue
<1>2. ToSet(s) = {s[i] : i \in 1..Len(s)}
  BY <1>1, ListElements
<1>3. CASE I = {}
  <2>1. Q!Without(s, t) = s
    BY <1>3 DEF Q!Without, Q!Timeout
  <2> QED BY <1>1, <1>2, <1>3, <2>1
<1>4. CASE I # {}
  <2>1. PICK k : k = CHOOSE i \in I : TRUE
    OBVIOUS
  <2>2. k \in 1..Len(s) /\ s[k][1] = t
    BY <1>1, <1>4, <2>1
  <2>3. Q!Without(s, t) = Q!RemoveAt(s, k)
    BY <1>4, <2>1 DEF Q!Without, Q!Timeout
  <2>4. PICK u : u = RemoveAt(s, k)
    OBVIOUS
  <2>5. Q!RemoveAt(s, k) = u
    BY <2>4 DEF Q!RemoveAt, RemoveAt
  <2>6. /\ u \in Seq(Entry) /\ Len(u) = Len(s) - 1
        /\ \A i \in 1..Len(u) : u[i] = IF i < k THEN s[i] ELSE s[i + 1]
    <3>1. /\ u \in Seq(Entry) /\ Len(u) = Len(s) - 1
          /\ \A i \in 1..(k - 1) : u[i] = s[i]
          /\ \A i \in k..(Len(s) - 1) : u[i] = s[i + 1]
      BY <1>1, <2>2, <2>4, RemoveAtPlaces
    <3> QED BY <1>1, <2>2, <3>1
  <2>7. \A i \in 1..Len(u) : i < k => i \in 1..Len(s) /\ u[i] = s[i]
    BY <1>1, <2>6
  <2>8. \A i \in 1..Len(u) : i >= k => i + 1 \in 1..Len(s) /\ u[i] = s[i + 1]
    BY <1>1, <2>2, <2>6
  <2>9. ASSUME NEW i \in 1..Len(u)
        PROVE  \E m \in 1..Len(s) : m # k /\ u[i] = s[m]
    <3>1. CASE i < k
      BY <2>2, <2>7, <3>1
    <3>2. CASE i >= k
      <4>1. i + 1 # k
        BY <2>2, <3>2
      <4> QED BY <2>8, <3>2, <4>1
    <3> QED BY <2>2, <3>1, <3>2
  <2>10. ASSUME NEW i \in 1..Len(u), NEW j \in 1..Len(u), i < j
         PROVE  \E m, n \in 1..Len(s) : m < n /\ u[i] = s[m] /\ u[j] = s[n]
    <3>1. CASE j < k
      <4>1. i < k
        BY <2>2, <2>10, <3>1
      <4> QED BY <2>7, <2>10, <3>1, <4>1
    <3>2. CASE i < k /\ j >= k
      <4>1. i < j + 1
        BY <2>10
      <4> QED BY <2>7, <2>8, <3>2, <4>1
    <3>3. CASE i >= k
      <4>1. i + 1 < j + 1 /\ j >= k
        BY <2>2, <2>10, <3>3
      <4> QED BY <2>8, <3>3, <4>1
    <3> QED BY <2>2, <3>1, <3>2, <3>3
  <2>11. Queue(u)
    <3>1. PartOf(u, s)
      BY <2>10 DEF PartOf
    <3> QED BY <2>6, <3>1, PartOfQueue
  <2>12. ToSet(u) = {u[i] : i \in 1..Len(u)}
    BY <2>6, ListElements
  <2>13. ASSUME NEW e \in ToSet(u) PROVE e \in ToSet(s) /\ e[1] # t
    <3>1. PICK m \in 1..Len(s) : m # k /\ e = s[m]
      BY <2>9, <2>12
    <3> QED BY <1>2, <2>2, <3>1 DEF Queue
  <2>14. ASSUME NEW e \in ToSet(s), e[1] # t PROVE e \in ToSet(u)
    <3>1. PICK m \in 1..Len(s) : e = s[m]
      BY <1>2
    <3>2. m # k
      BY <2>2, <2>14, <3>1
    <3>3. CASE m < k
      <4>1. m \in 1..Len(u) /\ u[m] = s[m]
        BY <1>1, <2>2, <2>6, <3>3
      <4> QED BY <2>12, <3>1, <4>1
    <3>4. CASE m > k
      <4>1. PICK h : h = m - 1
        OBVIOUS
      <4>2. h \in 1..Len(u) /\ u[h] = s[m]
        BY <1>1, <2>2, <2>6, <3>4, <4>1
      <4> QED BY <2>12, <3>1, <4>2
    <3> QED BY <2>2, <3>2, <3>3, <3>4
  <2> QED BY <2>3, <2>5, <2>11, <2>13, <2>14
<1> QED BY <1>3, <1>4

\* z_add_timeout finds the place of t.
LEMMA InsertedQueue ==
  ASSUME NEW s, Queue(s), NEW t \in Timers, NEW d \in Int, \A e \in ToSet(s) : e[1] # t
  PROVE  /\ Queue(Q!Inserted(s, t, d))
         /\ ToSet(Q!Inserted(s, t, d)) = ToSet(s) \cup {<<t, d>>}
<1> DEFINE x == <<t, d>>
           Behind(k) == \A i \in DOMAIN s : s[i][2] <= d <=> i < k
           T == {i \in 1..Len(s) : s[i][2] > d}
<1>1. /\ s \in Seq(Entry) /\ Len(s) \in Nat /\ DOMAIN s = 1..Len(s) /\ x \in Entry
      /\ \A i \in 1..Len(s) : s[i][2] \in Int
  BY DEF Queue, Entry
<1>2. \E k \in 1..(Len(s) + 1) : Behind(k)
  <2>1. CASE T = {}
    <3>1. \A i \in 1..Len(s) : s[i][2] <= d /\ i < Len(s) + 1
      BY <1>1, <2>1
    <3>2. Behind(Len(s) + 1)
      BY <1>1, <3>1
    <3> QED BY <1>1, <3>2
  <2>2. CASE T # {}
    <3>1. PICK k \in T : \A y \in T : k <= y
      <4>1. T \in SUBSET Nat
        BY <1>1
      <4> HIDE DEF T
      <4> QED BY <2>2, <4>1, MinOfNats
    <3>2. ASSUME NEW i \in 1..Len(s) PROVE s[i][2] <= d <=> i < k
      <4>1. CASE i < k
        BY <1>1, <3>1, <4>1
      <4>2. CASE k <= i
        <5>1. s[k][2] <= s[i][2] /\ s[k][2] > d
          BY <3>1, <4>2 DEF Queue
        <5> QED BY <1>1, <3>1, <4>2, <5>1
      <4> QED BY <1>1, <3>1, <4>1, <4>2
    <3>3. Behind(k)
      BY <1>1, <3>2
    <3> QED BY <1>1, <3>1, <3>3
  <2> QED BY <2>1, <2>2
<1>3. PICK k : k = CHOOSE h \in 1..(Len(s) + 1) : Behind(h)
  OBVIOUS
<1>4. k \in 1..(Len(s) + 1) /\ Behind(k)
  <2> HIDE DEF Behind
  <2> QED BY <1>2, <1>3
<1>5. PICK u : u = InsertAt(s, k, x)
  OBVIOUS
<1>6. Q!Inserted(s, t, d) = u
  <2>1. Q!Inserted(s, t, d) = Q!InsertAt(s, k, x)
    BY <1>3 DEF Q!Inserted, Q!Deadline
  <2> QED BY <1>5, <2>1 DEF Q!InsertAt, InsertAt
<1>7. /\ u \in Seq(Entry) /\ Len(u) = Len(s) + 1
      /\ \A i \in 1..Len(u) : u[i] = IF i < k THEN s[i] ELSE IF i = k THEN x ELSE s[i - 1]
  <2>1. k \in 1..(Len(s) + 1)
    BY <1>4
  <2>2. s \in Seq(Entry) /\ x \in Entry
    BY <1>1
  <2> HIDE DEF x, Behind
  <2>3. InsertAt(s, k, x) \in Seq(Entry) /\ HasAt(InsertAt(s, k, x), s, k, x)
    BY <2>1, <2>2, InsertPlaces
  <2> QED BY <1>5, <2>3 DEF HasAt
<1> HIDE DEF x
<1>8. x[1] = t /\ x[2] = d
  BY DEF x
<1>9. ToSet(s) = {s[i] : i \in 1..Len(s)} /\ ToSet(u) = {u[i] : i \in 1..Len(u)}
  BY <1>1, <1>7, ListElements
<1>10. \A i \in 1..Len(u) : i < k => i \in 1..Len(s) /\ u[i] = s[i] /\ s[i][2] <= d
  BY <1>1, <1>4, <1>7
<1>11. \A i \in 1..Len(u) : i > k => i - 1 \in 1..Len(s) /\ u[i] = s[i - 1] /\ ~(i - 1 < k)
  BY <1>1, <1>4, <1>7
<1>12. ASSUME NEW i \in 1..Len(u), i > k PROVE d < u[i][2]
  <2>1. PICK h : h = i - 1
    OBVIOUS
  <2>2. h \in 1..Len(s) /\ u[i] = s[h] /\ ~(h < k)
    BY <1>11, <1>12, <2>1
  <2>3. ~(s[h][2] <= d) /\ s[h][2] \in Int
    BY <1>1, <1>4, <2>2
  <2> QED BY <2>2, <2>3
<1>13. u[k] = x /\ k \in 1..Len(u)
  BY <1>1, <1>4, <1>7
<1>14. ToSet(u) = ToSet(s) \cup {x}
  <2>1. ASSUME NEW e \in ToSet(u) PROVE e \in ToSet(s) \cup {x}
    <3>1. PICK i \in 1..Len(u) : e = u[i]
      BY <1>9
    <3> QED BY <1>4, <1>9, <1>10, <1>11, <1>13, <3>1
  <2>2. ASSUME NEW i \in 1..Len(s) PROVE s[i] \in ToSet(u)
    <3>1. CASE i < k
      <4>1. i \in 1..Len(u) /\ u[i] = s[i]
        BY <1>1, <1>7, <3>1
      <4> QED BY <1>9, <4>1
    <3>2. CASE i >= k
      <4>1. PICK h : h = i + 1
        OBVIOUS
      <4>2. h \in 1..Len(u) /\ u[h] = s[i]
        BY <1>1, <1>4, <1>7, <3>2, <4>1
      <4> QED BY <1>9, <4>2
    <3> QED BY <1>4, <3>1, <3>2
  <2> QED BY <1>9, <1>13, <2>1, <2>2
<1>15. ASSUME NEW i \in 1..Len(u), NEW j \in 1..Len(u), i < j
       PROVE  u[i][1] # u[j][1] /\ u[i][2] <= u[j][2]
  <2>1. CASE j < k
    <3>1. i < k
      BY <1>4, <1>15, <2>1
    <3> QED BY <1>1, <1>10, <1>15, <2>1, <3>1 DEF Queue
  <2>2. CASE j = k
    <3>1. i < k /\ u[j] = x
      BY <1>13, <1>15, <2>2
    <3>2. u[i] \in ToSet(s) /\ u[i][2] <= d
      BY <1>9, <1>10, <3>1
    <3> QED BY <1>8, <3>1, <3>2
  <2>3. CASE j > k /\ i < k
    <3>1. PICK h : h = j - 1
      OBVIOUS
    <3>2. h \in 1..Len(s) /\ u[j] = s[h] /\ ~(h < k)
      BY <1>11, <2>3, <3>1
    <3>3. i \in 1..Len(s) /\ u[i] = s[i] /\ i < h
      BY <1>4, <1>10, <2>3, <3>2
    <3> QED BY <3>2, <3>3 DEF Queue
  <2>4. CASE j > k /\ i = k
    <3>1. u[i] = x /\ d < u[j][2] /\ u[j] \in ToSet(s)
      BY <1>9, <1>11, <1>12, <1>13, <2>4
    <3>2. u[j][2] \in Int
      BY <1>1, <1>11, <2>4
    <3> QED BY <1>8, <3>1, <3>2
  <2>5. CASE j > k /\ i > k
    <3>1. PICK g, h : g = i - 1 /\ h = j - 1
      OBVIOUS
    <3>2. g \in 1..Len(s) /\ u[i] = s[g] /\ h \in 1..Len(s) /\ u[j] = s[h]
      BY <1>11, <2>5, <3>1
    <3>3. g < h
      BY <1>15, <3>1
    <3> QED BY <3>2, <3>3 DEF Queue
  <2> QED BY <1>4, <2>1, <2>2, <2>3, <2>4, <2>5
<1>16. ASSUME NEW i \in 1..Len(u), NEW j \in 1..Len(u), u[i][1] = u[j][1] PROVE i = j
  BY <1>15, <1>16
<1>17. ASSUME NEW i \in 1..Len(u), NEW j \in 1..Len(u), i <= j PROVE u[i][2] <= u[j][2]
  <2>1. u[i][2] \in Int
    BY <1>7 DEF Entry
  <2> QED BY <1>15, <1>17, <2>1
<1>18. Queue(u)
  BY <1>7, <1>16, <1>17 DEF Queue
<1> QED BY <1>6, <1>14, <1>18 DEF x

-----------------------------------------------------------------------------
(* Steps *)

\* A timer is scheduled if it has an entry.
LEMMA ScheduledHas == \A t : Q!Scheduled(t) <=> Has(schedule, t)
BY DEF Q!Scheduled, Q!Timeout, Has, ToSet

LEMMA InitIInv == Init => IInv
<1> SUFFICES ASSUME Init PROVE IInv
  OBVIOUS
<1>1. schedule = <<>> /\ ToSet(schedule) = {} /\ Queue(schedule)
  <2>1. schedule = <<>>
    BY DEF Init, Q!Init
  <2> QED BY <2>1, EmptyList DEF Queue
<1>2. KTypes
  BY DEF Init, KTypes, Never
<1>3. ClockInv
  BY DEF Init, ClockInv
<1>4. ListInv
  BY <1>1 DEF ListInv
<1>5. DueInv
  BY <1>1 DEF Init, DueInv, OnTime, Has
<1> QED BY <1>2, <1>3, <1>4, <1>5 DEF IInv

\* A step that leaves the schedule alone.
LEMMA QuietStep ==
  ASSUME IInv, UNCHANGED <<announced, curr_tick, announce_remaining, schedule, at, current,
                           dt, period, due, crowded>>,
         now' \in Int, now <= now',
         sync' \in [Timers -> {"none", "checked", "pended", "ready"}]
  PROVE  IInv'
<1>1. KTypes'
  BY DEF IInv, KTypes
<1>2. ClockInv'
  BY DEF IInv, KTypes, ClockInv
<1>3. ListInv'
  BY DEF IInv, ListInv
<1>4. DueInv'
  BY DEF IInv, DueInv
<1> QED BY <1>1, <1>2, <1>3, <1>4 DEF IInv

\* sys_clock_announce goes on, with rem ticks, if nobody who has no entry is due.
LEMMA ContinueStep ==
  ASSUME IInv, NEW rem \in Int, Continue(rem, schedule), announced' \in Int,
         curr_tick + rem = announced', curr_tick <= announced', announced' <= now,
         UNCHANGED <<now, period, due, crowded>>,
         sync' \in [Timers -> {"none", "checked", "pended", "ready"}],
         \A t \in Timers : ~Has(schedule, t) => due[t] = Never
  PROVE  IInv'
<1>0. Queue(schedule) /\ schedule \in Seq(Entry) /\ ToSet(schedule) \subseteq Entry
  BY QueueEntries DEF IInv, ListInv, Queue
<1>t. /\ \A t \in Timers : Has(schedule, t) =>
           \E e \in ToSet(schedule) : e[1] = t /\ Kept(due[t], t \in crowded, e[2])
      /\ curr_tick \in Int /\ 0 <= curr_tick /\ now \in Int /\ due \in [Timers -> Int]
      /\ \A e \in ToSet(schedule) : curr_tick <= e[2]
  BY DEF IInv, DueInv, OnTime, KTypes, ListInv, ClockInv
<1>1. CASE Overdue(schedule)
  <2> DEFINE e == Head(schedule)
  <2>1. schedule # <<>> /\ e[2] <= announced'
    BY <1>1 DEF Overdue, Q!Deadline
  <2>2. /\ e \in ToSet(schedule) /\ e \in Entry
        /\ \A f \in ToSet(schedule) : e[2] <= f[2]
        /\ Queue(Tail(schedule))
        /\ ToSet(Tail(schedule)) = {f \in ToSet(schedule) : f[1] # e[1]}
    BY <1>0, <2>1, TailQueue
  <2>3. /\ schedule' = Tail(schedule) /\ at' = "gap" /\ current' = e[1]
        /\ dt' = e[2] - curr_tick /\ curr_tick' = e[2] /\ announce_remaining' = rem
    BY <1>1 DEF Continue, Q!Timeout, Q!Deadline
  <2>4. e[1] \in Timers /\ e[2] \in Int /\ e = <<e[1], e[2]>>
    BY <2>2 DEF Entry
  <2> HIDE DEF e
  <2>5. Kept(due[e[1]], e[1] \in crowded, e[2])
    <3>1. Has(schedule, e[1])
      BY <2>2 DEF Has
    <3>2. PICK f \in ToSet(schedule) : f[1] = e[1] /\ Kept(due[e[1]], e[1] \in crowded, f[2])
      BY <1>t, <2>4, <3>1
    <3>3. f = e
      BY <1>0, <2>2, <3>2, QueueEntries
    <3> QED BY <3>2, <3>3
  <2>6. KTypes'
    BY <1>t, <2>3, <2>4 DEF IInv, KTypes
  <2>7. ClockInv'
    <3>1. curr_tick <= e[2]
      BY <1>t, <2>2
    <3> QED BY <1>t, <2>1, <2>3, <2>4, <3>1 DEF ClockInv
  <2>8. ListInv'
    BY <2>2, <2>3 DEF ListInv
  <2>9. DueInv'
    <3>1. ASSUME NEW t \in Timers
          PROVE  OnTime(schedule', t, due[t], t \in crowded, "gap", current')
      <4>1. CASE t = e[1]
        <5>1. ~Has(schedule', t)
          BY <2>2, <2>3, <4>1 DEF Has
        <5> QED BY <2>3, <4>1, <5>1 DEF OnTime
      <4>2. CASE t # e[1]
        <5>1. Has(schedule', t) <=> Has(schedule, t)
          BY <2>2, <2>3, <4>2 DEF Has
        <5>2. Has(schedule, t) =>
                \E f \in ToSet(schedule') : f[1] = t /\ Kept(due[t], t \in crowded, f[2])
          BY <1>t, <2>2, <2>3, <4>2
        <5> QED BY <5>1, <5>2 DEF OnTime
      <4> QED BY <4>1, <4>2
    <3>2. \A t \in Timers : OnTime(schedule', t, due'[t], t \in crowded', at', current')
      BY <2>3, <3>1
    <3> QED BY <2>3, <2>5, <3>2 DEF DueInv
  <2> QED BY <2>6, <2>7, <2>8, <2>9 DEF IInv
<1>2. CASE ~Overdue(schedule)
  <2>1. /\ schedule' = schedule /\ at' = "none" /\ dt' = 0
        /\ curr_tick' = announced' /\ announce_remaining' = 0
    BY <1>2 DEF Continue
  <2>2. KTypes'
    BY <1>t, <2>1 DEF IInv, KTypes
  <2>3. ClockInv'
    <3>1. announced' <= now' /\ 0 <= dt' /\ curr_tick' <= announced' /\ 0 <= curr_tick'
      BY <1>t, <2>1
    <3>2. curr_tick' + announce_remaining' = announced' + dt'
      BY <2>1
    <3> QED BY <2>1, <3>1, <3>2 DEF ClockInv
  <2>4. ASSUME NEW f \in ToSet(schedule) PROVE announced' <= f[2]
    <3>1. schedule # <<>>
      BY <2>4, EmptyList
    <3>2. ~(Head(schedule)[2] <= announced')
      BY <1>2, <3>1 DEF Overdue, Q!Deadline
    <3>3. Head(schedule)[2] <= f[2] /\ Head(schedule) \in Entry /\ f \in Entry
      BY <1>0, <2>4, <3>1, TailQueue
    <3>4. Head(schedule)[2] \in Int /\ f[2] \in Int
      BY <3>3 DEF Entry
    <3> QED BY <3>2, <3>3, <3>4
  <2>5. ListInv'
    BY <1>0, <2>1, <2>4 DEF ListInv
  <2>6. DueInv'
    BY <1>t, <2>1 DEF DueInv, OnTime
  <2> QED BY <2>2, <2>3, <2>5, <2>6 DEF IInv
<1> QED BY <1>1, <1>2

\* Nobody but t becomes crowded, or has that forgotten.
CrowdedBut(t) == \A u \in Timers : u # t => (u \in crowded' <=> u \in crowded)

\* A timer that has no entry gets one, for tick d, when it is due in v.
LEMMA ScheduleStep ==
  ASSUME IInv, NEW s, Queue(s), NEW t \in Timers, NEW d \in Int, curr_tick <= d,
         NEW v \in Int, Kept(v, t \in crowded', d), CrowdedBut(t),
         ToSet(s) = {e \in ToSet(schedule) : e[1] # t},
         schedule' = Q!Inserted(s, t, d), due' = [due EXCEPT ![t] = v],
         UNCHANGED <<now, announced, curr_tick, announce_remaining, current, dt, sync>>,
         period' \in [Timers -> Nat], at' = at \/ (at' = "expiry" /\ at = "gap" /\ current = t)
  PROVE  IInv'
<1>1. /\ Queue(schedule') /\ ToSet(schedule') = ToSet(s) \cup {<<t, d>>}
  BY InsertedQueue
<1>2. KTypes'
  BY DEF IInv, KTypes
<1>3. ClockInv'
  BY DEF IInv, ClockInv, KTypes
<1>4. ListInv'
  BY <1>1 DEF IInv, ListInv
<1>5. /\ due \in [Timers -> Int]
      /\ \A u \in Timers : OnTime(schedule, u, due[u], u \in crowded, at, current)
  BY DEF IInv, KTypes, DueInv
<1>6. Has(schedule', t) /\ OnTime(schedule', t, due'[t], t \in crowded', at', current')
  <2>1. <<t, d>> \in ToSet(schedule') /\ <<t, d>>[1] = t /\ <<t, d>>[2] = d
    BY <1>1
  <2>2. due'[t] = v
    BY <1>5
  <2>3. Has(schedule', t)
    BY <2>1 DEF Has
  <2> QED BY <2>1, <2>2, <2>3 DEF OnTime
<1>7. ASSUME NEW u \in Timers, u # t
      PROVE  /\ Has(schedule', u) <=> Has(schedule, u)
             /\ due'[u] = due[u] /\ (u \in crowded' <=> u \in crowded)
             /\ OnTime(schedule', u, due'[u], u \in crowded', at', current')
  <2>1. Has(schedule', u) <=> Has(schedule, u)
    BY <1>1, <1>7 DEF Has
  <2>2. due'[u] = due[u] /\ (u \in crowded' <=> u \in crowded)
    BY <1>5, <1>7 DEF CrowdedBut
  <2>3. CASE Has(schedule, u)
    <3>1. PICK e \in ToSet(schedule) : e[1] = u /\ Kept(due[u], u \in crowded, e[2])
      BY <1>5, <2>3 DEF OnTime
    <3>2. e \in ToSet(schedule')
      BY <1>1, <1>7, <3>1
    <3>3. Kept(due'[u], u \in crowded', e[2])
      BY <2>2, <3>1 DEF Kept
    <3> QED BY <2>1, <2>2, <2>3, <3>1, <3>2, <3>3 DEF OnTime
  <2>4. CASE ~Has(schedule, u)
    <3>1. due[u] # Never => at' = "gap" /\ current' = u
      BY <1>5, <1>7, <2>4 DEF OnTime
    <3> QED BY <2>1, <2>2, <2>4, <3>1 DEF OnTime
  <2> QED BY <2>1, <2>2, <2>3, <2>4
<1>8. \A u \in Timers : OnTime(schedule', u, due'[u], u \in crowded', at', current')
  BY <1>6, <1>7
<1>9. at' = "gap" /\ ~Has(schedule', current') =>
        Kept(due'[current'], current' \in crowded', curr_tick')
  <2> SUFFICES ASSUME at' = "gap", ~Has(schedule', current')
               PROVE  Kept(due'[current'], current' \in crowded', curr_tick')
    OBVIOUS
  <2>1. at = "gap" /\ current \in Timers /\ current' = current
    BY DEF IInv, KTypes
  <2>2. current # t
    BY <1>6, <2>1
  <2>3. Kept(due[current], current \in crowded, curr_tick)
    BY <1>7, <2>1, <2>2 DEF IInv, DueInv
  <2> QED BY <1>7, <2>1, <2>2, <2>3 DEF Kept
<1> QED BY <1>2, <1>3, <1>4, <1>8, <1>9 DEF IInv, DueInv

\* k_timer_stop, and the expiry of a timer that is not periodic: t is due no more.
LEMMA UnscheduleStep ==
  ASSUME IInv, NEW t \in Timers, Queue(schedule'),
         ToSet(schedule') = {e \in ToSet(schedule) : e[1] # t},
         due' = [due EXCEPT ![t] = Never], CrowdedBut(t),
         UNCHANGED <<now, announced, curr_tick, announce_remaining, current, dt, sync, period>>,
         at' \in {"none", "expiry"}, at' = "none" => at = "none",
         at = "gap" => current = t, at' = "expiry" => at # "none"
  PROVE  IInv'
<1>1. /\ due \in [Timers -> Int]
      /\ \A u \in Timers : OnTime(schedule, u, due[u], u \in crowded, at, current)
  BY DEF IInv, KTypes, DueInv
<1>2. KTypes'
  BY DEF IInv, KTypes, Never
<1>3. ClockInv'
  BY DEF IInv, ClockInv, KTypes
<1>4. ListInv'
  BY DEF IInv, ListInv
<1>5. ASSUME NEW u \in Timers
      PROVE  OnTime(schedule', u, due'[u], u \in crowded', at', current')
  <2>1. CASE u = t
    <3>1. ~Has(schedule', u)
      BY <2>1 DEF Has
    <3> QED BY <1>1, <2>1, <3>1 DEF OnTime
  <2>2. CASE u # t
    <3>1. Has(schedule', u) <=> Has(schedule, u)
      BY <2>2 DEF Has
    <3>2. due'[u] = due[u] /\ (u \in crowded' <=> u \in crowded)
      BY <1>1, <2>2 DEF CrowdedBut
    <3>3. CASE Has(schedule, u)
      <4>1. PICK e \in ToSet(schedule) : e[1] = u /\ Kept(due[u], u \in crowded, e[2])
        BY <1>1, <3>3 DEF OnTime
      <4>2. e \in ToSet(schedule')
        BY <2>2, <4>1
      <4>3. Kept(due'[u], u \in crowded', e[2])
        BY <3>2, <4>1 DEF Kept
      <4> QED BY <3>1, <3>3, <4>1, <4>2, <4>3 DEF OnTime
    <3>4. CASE ~Has(schedule, u)
      <4>1. due[u] = Never
        BY <1>1, <2>2, <3>4 DEF OnTime
      <4> QED BY <3>1, <3>2, <3>4, <4>1 DEF OnTime
    <3> QED BY <3>3, <3>4
  <2> QED BY <2>1, <2>2
<1>6. DueInv'
  BY <1>5 DEF DueInv
<1> QED BY <1>2, <1>3, <1>4, <1>6 DEF IInv

LEMMA HigherOf ==
  ASSUME NEW a \in Int, NEW b \in Int
  PROVE  Higher(a, b) \in Int /\ a <= Higher(a, b) /\ b <= Higher(a, b)
         /\ (a <= b => Higher(a, b) = b) /\ (b <= a => Higher(a, b) = a)
BY DEF Higher

\* z_add_timeout never sets a deadline that has passed.
LEMMA DeadlineAhead ==
  ASSUME IInv, NEW n \in Int
  PROVE  /\ 0 <= n => Relative(n) \in Int /\ curr_tick <= Relative(n)
         /\ Absolute(n) \in Int /\ curr_tick <= Absolute(n)
<1>0. now \in Int /\ announced \in Int /\ curr_tick \in Int /\ announced <= now
  BY DEF IInv, KTypes, ClockInv
<1>1. PICK h \in Int : h = elapsed /\ 0 <= h
  <2>1. CASE announce_remaining # 0
    BY <2>1 DEF elapsed
  <2>2. CASE announce_remaining = 0
    <3>1. elapsed = now - announced /\ now - announced \in Int /\ 0 <= now - announced
      BY <1>0, <2>2 DEF elapsed
    <3> QED BY <3>1
  <2> QED BY <2>1, <2>2
<1>2. 0 <= h /\ curr_tick \in Int
  BY <1>0, <1>1
<1>3. 0 <= n => Relative(n) \in Int /\ curr_tick <= Relative(n)
  <2>1. Relative(n) = curr_tick + n + 1 + h
    BY <1>1 DEF Relative
  <2> QED BY <1>1, <1>2, <2>1
<1>4. Absolute(n) \in Int /\ curr_tick <= Absolute(n)
  <2>1. PICK m \in Int : m = Higher(1, n - curr_tick) /\ 1 <= m
    BY <1>2, HigherOf
  <2>2. Absolute(n) = curr_tick + m
    BY <2>1 DEF Absolute
  <2> QED BY <1>2, <2>1, <2>2
<1> QED BY <1>3, <1>4

\* The handler starts a period a stride from when the timer was due, unless it is
\* crowded, and then not before.
LEMMA PeriodStart ==
  ASSUME IInv, at = "gap", ~Has(schedule, current), period[current] # 0,
         NEW a, a = Absolute(k_uptime_ticks + 1 + Higher(period[current] - 1, 0))
  PROVE  /\ NextDue(current) \in Int
         /\ Kept(NextDue(current), current \in crowded \/ Crowded, a)
<1>1. PICK p \in Nat : p = period[current]
  BY DEF IInv, KTypes
<1>2. /\ now \in Int /\ announced \in Int /\ curr_tick \in Int /\ announce_remaining \in Int
      /\ dt \in Int /\ announced <= now /\ curr_tick <= announced /\ 0 <= dt
      /\ curr_tick + announce_remaining = announced + dt
      /\ due[current] \in Int
      /\ 0 <= due[current] /\ due[current] <= curr_tick
      /\ (current \notin crowded => due[current] = curr_tick)
  BY DEF IInv, KTypes, ClockInv, DueInv, Kept
<1>3. p >= 1 /\ Higher(p - 1, 0) = p - 1
  <2>1. p >= 1
    BY <1>1
  <2> QED BY <1>1, <2>1, HigherOf
<1>4. PICK m \in Int : m = k_uptime_ticks + 1 + Higher(p - 1, 0)
  <2>1. k_uptime_ticks \in Int
    BY <1>2 DEF k_uptime_ticks, elapsed
  <2> QED BY <1>3, <2>1
<1>5. NextDue(current) = due[current] + p
  BY <1>1 DEF NextDue
<1>6. CASE announce_remaining # 0
  <2>1. k_uptime_ticks = curr_tick
    BY <1>2, <1>6 DEF k_uptime_ticks, elapsed
  <2>2. m = curr_tick + p
    BY <1>2, <1>3, <1>4, <2>1
  <2>3. m - curr_tick = p
    BY <1>2, <2>2
  <2>4. Higher(1, m - curr_tick) = p
    BY <1>3, <2>3, HigherOf
  <2>5. a = curr_tick + p
    BY <1>1, <1>4, <2>4 DEF Absolute
  <2> QED BY <1>2, <1>5, <2>5 DEF Kept
<1>7. CASE announce_remaining = 0
  <2>1. curr_tick = announced /\ dt = 0
    BY <1>2, <1>7
  <2>2. k_uptime_ticks = now
    BY <1>2, <1>7, <2>1 DEF k_uptime_ticks, elapsed
  <2>3. m = now + p
    BY <1>2, <1>3, <1>4, <2>2
  <2>4. 1 <= m - curr_tick /\ m - curr_tick \in Int
    BY <1>2, <1>3, <2>1, <2>3
  <2>5. Higher(1, m - curr_tick) = m - curr_tick
    BY <2>4, HigherOf
  <2>6. Absolute(m) = m
    BY <1>2, <1>4, <2>5 DEF Absolute
  <2>7. a = now + p
    BY <1>1, <1>4, <2>3, <2>6
  <2>8. ~Crowded => now = curr_tick
    BY <1>2, <2>1 DEF Crowded
  <2> QED BY <1>2, <1>5, <2>1, <2>7, <2>8 DEF Kept
<1> QED BY <1>6, <1>7

\* Who is not due has no entry, unless its timer is about to expire.
LEMMA HandlerBeginStep == ASSUME IInv, HandlerBegin PROVE IInv'
<1>0. /\ at = "gap" /\ current \in Timers
      /\ \A t \in Timers : OnTime(schedule, t, due[t], t \in crowded, at, current)
      /\ sync' \in [Timers -> {"none", "checked", "pended", "ready"}]
      /\ UNCHANGED <<now, period, sync>>
  BY DEF IInv, KTypes, DueInv, HandlerBegin
<1>t. /\ now \in Int /\ announced \in Int /\ curr_tick \in Int /\ announce_remaining \in Int
      /\ dt \in Int /\ announced <= now /\ curr_tick <= announced
      /\ curr_tick + announce_remaining = announced + dt
  BY DEF IInv, KTypes, ClockInv
<1>1. CASE Relinked(current)
  <2>1. Continue(announce_remaining - dt, schedule) /\ UNCHANGED <<announced, due, crowded>>
    BY <1>1 DEF HandlerBegin, dueVars
  <2>2. PICK rem \in Int : rem = announce_remaining - dt
    BY <1>t
  <2>3. curr_tick + rem = announced' /\ announced' \in Int
    BY <1>t, <2>1, <2>2
  <2>4. \A t \in Timers : ~Has(schedule, t) => due[t] = Never
    <3>1. Has(schedule, current)
      BY <1>1, ScheduledHas DEF Relinked
    <3> QED BY <1>0, <3>1 DEF OnTime
  <2>5. Continue(rem, schedule) /\ curr_tick <= announced' /\ announced' <= now
    BY <1>t, <2>1, <2>2
  <2> QED BY <1>0, <2>1, <2>2, <2>3, <2>4, <2>5, ContinueStep
<1>2. CASE ~Relinked(current)
  <2>1. /\ schedule' = Rearmed(current) /\ at' = "expiry"
        /\ due' = [due EXCEPT ![current] = NextDue(current)]
        /\ crowded' = IF Crowded THEN crowded \cup {current} ELSE crowded
        /\ UNCHANGED <<announced, curr_tick, announce_remaining, current, dt>>
    BY <1>2 DEF HandlerBegin, clockVars
  <2>c. CrowdedBut(current) /\ (current \in crowded' <=> current \in crowded \/ Crowded)
    BY <2>1 DEF CrowdedBut
  <2>2. ~Has(schedule, current)
    BY <1>2, ScheduledHas DEF Relinked
  <2>3. ToSet(schedule) = {e \in ToSet(schedule) : e[1] # current} /\ Queue(schedule)
    BY <2>2 DEF Has, IInv, ListInv
  <2>4. CASE period[current] = 0
    <3>1. schedule' = schedule /\ NextDue(current) = Never
      BY <2>1, <2>4 DEF Rearmed, NextDue
    <3> QED BY <1>0, <2>1, <2>c, <2>3, <3>1, UnscheduleStep
  <2>5. CASE period[current] # 0
    <3>1. PICK n : n = k_uptime_ticks + 1 + Higher(period[current] - 1, 0)
      OBVIOUS
    <3>2. n \in Int
      <4>1. PICK p \in Nat : p = period[current]
        BY <1>0 DEF IInv, KTypes
      <4>2. Higher(p - 1, 0) \in Int
        BY <4>1, HigherOf
      <4>3. k_uptime_ticks \in Int
        BY <1>t DEF k_uptime_ticks, elapsed
      <4> QED BY <3>1, <4>1, <4>2, <4>3
    <3>3. schedule' = Q!Inserted(schedule, current, Absolute(n))
      BY <2>1, <2>5, <3>1 DEF Rearmed
    <3>4. /\ NextDue(current) \in Int
          /\ Kept(NextDue(current), current \in crowded \/ Crowded, Absolute(n))
      BY <1>0, <2>2, <2>5, <3>1, PeriodStart
    <3>5. Absolute(n) \in Int /\ curr_tick <= Absolute(n)
      BY <3>2, DeadlineAhead
    <3>6. period' \in [Timers -> Nat]
      BY <1>0 DEF IInv, KTypes
    <3>7. PICK d \in Int : d = Absolute(n)
      BY <3>5
    <3>8. PICK v \in Int : v = NextDue(current)
      BY <3>4
    <3>9. Kept(v, current \in crowded', d)
      BY <2>c, <3>4, <3>7, <3>8 DEF Kept
    <3> QED BY <1>0, <2>1, <2>c, <2>3, <3>3, <3>5, <3>6, <3>7, <3>8, <3>9, ScheduleStep
  <2> QED BY <2>4, <2>5
<1> QED BY <1>1, <1>2

\* The expiry function returns.
LEMMA HandlerEndStep == ASSUME IInv, HandlerEnd PROVE IInv'
<1>1. /\ at = "expiry" /\ UNCHANGED <<now, announced, period, due, crowded>>
      /\ sync' = [sync EXCEPT ![current] = IF @ = "pended" THEN "ready" ELSE @]
      /\ Continue(announce_remaining - dt, schedule)
  BY DEF HandlerEnd, Wake, dueVars
<1>2. /\ now \in Int /\ announced \in Int /\ curr_tick \in Int /\ announce_remaining \in Int
      /\ dt \in Int /\ announced <= now /\ curr_tick <= announced
      /\ curr_tick + announce_remaining = announced + dt
  BY DEF IInv, KTypes, ClockInv
<1>3. PICK rem \in Int : rem = announce_remaining - dt
  BY <1>2
<1>4. curr_tick + rem = announced' /\ announced' \in Int /\ Continue(rem, schedule)
  BY <1>1, <1>2, <1>3
<1>5. curr_tick <= announced' /\ announced' <= now
  BY <1>1, <1>2
<1>6. \A t \in Timers : ~Has(schedule, t) => due[t] = Never
  BY <1>1 DEF IInv, DueInv, OnTime
<1>7. sync' \in [Timers -> {"none", "checked", "pended", "ready"}]
  BY <1>1 DEF IInv, KTypes
<1> QED BY <1>1, <1>3, <1>4, <1>5, <1>6, <1>7, ContinueStep

LEMMA AnnounceStep == ASSUME IInv, sys_clock_announce PROVE IInv'
<1>1. /\ at = "none" /\ UNCHANGED <<now, period, sync, due, crowded>> /\ now > announced
      /\ announced' = now /\ Continue(now - announced, schedule)
  BY DEF sys_clock_announce, timerVars, dueVars
<1>2. /\ now \in Int /\ announced \in Int /\ curr_tick \in Int /\ announce_remaining \in Int
      /\ sync \in [Timers -> {"none", "checked", "pended", "ready"}]
  BY DEF IInv, KTypes
<1>3. curr_tick + announce_remaining = announced + dt /\ dt = 0 /\ announce_remaining = 0
  BY <1>1 DEF IInv, ClockInv
<1>4. PICK rem \in Int : rem = now - announced
  BY <1>2
<1>5. curr_tick + rem = announced' /\ announced' \in Int /\ Continue(rem, schedule)
  BY <1>1, <1>2, <1>3, <1>4
<1>6. curr_tick <= announced' /\ announced' <= now
  BY <1>1, <1>2, <1>3
<1>7. \A t \in Timers : ~Has(schedule, t) => due[t] = Never
  BY <1>1 DEF IInv, DueInv, OnTime
<1>8. sync' \in [Timers -> {"none", "checked", "pended", "ready"}]
  BY <1>1, <1>2
<1> QED BY <1>1, <1>4, <1>5, <1>6, <1>7, <1>8, ContinueStep

LEMMA StartStep == ASSUME IInv, NEW t \in Timers, Start(t) PROVE IInv'
<1> USE KTimerAssumption
<1>1. PICK p \in Periods, d \in Int : k_timer_start(t, d, p) /\ curr_tick <= d
  <2>1. PICK p \in Periods : \/ \E n \in Durations : k_timer_start(t, Relative(Higher(n - 1, 0)), p)
                            \/ \E n \in Dates : k_timer_start(t, Absolute(n), p)
    BY DEF Start
  <2>2. ASSUME NEW n \in Durations
        PROVE  /\ Relative(Higher(n - 1, 0)) \in Int
               /\ curr_tick <= Relative(Higher(n - 1, 0))
    <3>1. n - 1 \in Int
      OBVIOUS
    <3>2. Higher(n - 1, 0) \in Int /\ 0 <= Higher(n - 1, 0)
      BY <3>1, HigherOf
    <3> QED BY <3>2, DeadlineAhead
  <2>3. ASSUME NEW n \in Dates PROVE Absolute(n) \in Int /\ curr_tick <= Absolute(n)
    <3>1. n \in Int
      OBVIOUS
    <3> QED BY <3>1, DeadlineAhead
  <2> QED BY <2>1, <2>2, <2>3
<1>2. /\ schedule' = Q!Inserted(Q!Without(schedule, t), t, d)
      /\ period' = [period EXCEPT ![t] = p]
      /\ due' = [due EXCEPT ![t] = d] /\ crowded' = crowded \ {t}
      /\ UNCHANGED <<now, announced, curr_tick, announce_remaining, at, current, dt, sync>>
  BY <1>1 DEF k_timer_start, clockVars, isrVars
<1>3. PICK s : s = Q!Without(schedule, t)
  OBVIOUS
<1>4. Queue(s) /\ ToSet(s) = {e \in ToSet(schedule) : e[1] # t}
  BY <1>3, WithoutQueue DEF IInv, ListInv
<1>5. period' \in [Timers -> Nat]
  BY <1>2 DEF IInv, KTypes
<1>6. schedule' = Q!Inserted(s, t, d)
  BY <1>2, <1>3
<1>7. CrowdedBut(t)
  BY <1>2 DEF CrowdedBut
<1>8. Kept(d, t \in crowded', d)
  BY <1>1 DEF Kept, IInv, KTypes, ClockInv
<1> QED BY <1>1, <1>2, <1>4, <1>5, <1>6, <1>7, <1>8, ScheduleStep

LEMMA StopStep ==
  ASSUME IInv, "stop" \notin GapCalls, NEW t \in Timers, k_timer_stop(t) PROVE IInv'
<1>1. /\ at # "gap" /\ schedule' = Q!Without(schedule, t)
      /\ due' = [due EXCEPT ![t] = Never] /\ crowded' = crowded \ {t}
      /\ UNCHANGED <<now, announced, curr_tick, announce_remaining, at, current, dt, sync, period>>
  BY DEF k_timer_stop, Callable, clockVars, isrVars
<1>2. Queue(schedule') /\ ToSet(schedule') = {e \in ToSet(schedule) : e[1] # t}
  BY <1>1, WithoutQueue DEF IInv, ListInv
<1>3. at \in {"none", "expiry"} /\ CrowdedBut(t)
  BY <1>1 DEF IInv, KTypes, CrowdedBut
<1> QED BY <1>1, <1>2, <1>3, UnscheduleStep

\* Waiting threads and readers of the status change nothing of this.
LEMMA SyncStep ==
  ASSUME IInv, NEW t \in Timers,
         StopEnd(t) \/ k_timer_status_get(t) \/ SyncCheck(t) \/ SyncPend(t) \/ SyncDone(t)
  PROVE  IInv'
<1>1. UNCHANGED <<now, announced, curr_tick, announce_remaining, schedule, at, current,
                  dt, period, due, crowded>>
  BY DEF StopEnd, k_timer_status_get, SyncCheck, SyncPend, SyncDone, clockVars, isrVars,
         dueVars
<1>2. sync' \in [Timers -> {"none", "checked", "pended", "ready"}]
  <2>1. sync \in [Timers -> {"none", "checked", "pended", "ready"}]
    BY DEF IInv, KTypes
  <2>2. \/ UNCHANGED sync
        \/ \E v \in {"none", "checked", "pended", "ready"} : sync' = [sync EXCEPT ![t] = v]
    <3>1. CASE StopEnd(t)
      <4>1. sync' = [sync EXCEPT ![t] = IF sync[t] = "pended" THEN "ready" ELSE sync[t]]
        BY <3>1 DEF StopEnd, Wake
      <4>2. (IF sync[t] = "pended" THEN "ready" ELSE sync[t]) \in {"none", "checked", "pended", "ready"}
        BY <2>1
      <4> QED BY <4>1, <4>2
    <3>2. CASE k_timer_status_get(t)
      BY <3>2 DEF k_timer_status_get
    <3>3. CASE SyncCheck(t) \/ SyncPend(t) \/ SyncDone(t)
      BY <3>3 DEF SyncCheck, SyncPend, SyncDone
    <3> QED BY <3>1, <3>2, <3>3
  <2> QED BY <2>1, <2>2
<1>3. now' \in Int /\ now <= now'
  BY <1>1 DEF IInv, KTypes
<1> QED BY <1>1, <1>2, <1>3, QuietStep

LEMMA NextStep == ASSUME "stop" \notin GapCalls, IInv, [Next]_vars PROVE IInv'
<1>1. CASE Tick
  <2>1. now' \in Int /\ now <= now'
    BY <1>1 DEF Tick, IInv, KTypes
  <2>2. UNCHANGED <<announced, curr_tick, announce_remaining, schedule, at, current,
                    dt, period, due, crowded, sync>>
    BY <1>1 DEF Tick, clockVars, isrVars, timerVars, dueVars
  <2>3. sync' \in [Timers -> {"none", "checked", "pended", "ready"}]
    BY <2>2 DEF IInv, KTypes
  <2> QED BY <2>1, <2>2, <2>3, QuietStep
<1>2. CASE sys_clock_announce
  BY <1>2, AnnounceStep
<1>3. CASE HandlerBegin
  BY <1>3, HandlerBeginStep
<1>4. CASE HandlerEnd
  BY <1>4, HandlerEndStep
<1>5. ASSUME NEW t \in Timers, Start(t) PROVE IInv'
  BY <1>5, StartStep
<1>6. ASSUME NEW t \in Timers, k_timer_stop(t) PROVE IInv'
  BY <1>6, StopStep
<1>7. ASSUME NEW t \in Timers,
             StopEnd(t) \/ k_timer_status_get(t) \/ SyncCheck(t) \/ SyncPend(t) \/ SyncDone(t)
      PROVE  IInv'
  BY <1>7, SyncStep
<1>8. CASE UNCHANGED vars
  <2>1. UNCHANGED <<now, announced, curr_tick, announce_remaining, schedule, at, current,
                    dt, period, due, crowded, sync>>
    BY <1>8 DEF vars, clockVars, isrVars, timerVars, dueVars
  <2>2. now' \in Int /\ now <= now' /\ sync' \in [Timers -> {"none", "checked", "pended", "ready"}]
    BY <2>1 DEF IInv, KTypes
  <2> QED BY <2>1, <2>2, QuietStep
<1> QED BY <1>1, <1>2, <1>3, <1>4, <1>5, <1>6, <1>7, <1>8 DEF Next

-----------------------------------------------------------------------------
(* Theorems *)

\* Only crowded kernel timers drift, on any number of CPUs, as long as no timer is
\* stopped in the gap before its handler: a timer is on the timeout list exactly
\* while it has something to do, for the tick its calls and its period lead to, or for
\* a later one if, since it was started, its handler (z_timer_expiration_handler) once
\* began behind others of the last tick announced when time had gone on.
THEOREM OnlyCrowdedDrift == ASSUME "stop" \notin GapCalls PROVE Spec => []StrideKept
<1>1. Init => IInv
  BY InitIInv
<1>2. IInv /\ [Next]_vars => IInv'
  BY NextStep
<1>3. IInv => StrideKept
  <2>1. \A t : Q!Scheduled(t) <=> Has(schedule, t)
    BY ScheduledHas
  <2> SUFFICES ASSUME IInv, NEW t \in Timers
               PROVE  IF Has(schedule, t)
                        THEN \E i \in DOMAIN schedule :
                               schedule[i][1] = t /\ Keeps(t, schedule[i][2])
                        ELSE due[t] # Never => at = "gap" /\ current = t
    BY <2>1 DEF StrideKept, Q!Timeout, Q!Deadline
  <2>2. OnTime(schedule, t, due[t], t \in crowded, at, current) /\ due[t] \in Int
    BY DEF IInv, DueInv, KTypes
  <2>3. CASE Has(schedule, t)
    <3>1. PICK e \in ToSet(schedule) : e[1] = t /\ Kept(due[t], t \in crowded, e[2])
      BY <2>2, <2>3 DEF OnTime
    <3>2. PICK i \in DOMAIN schedule : e = schedule[i]
      BY <3>1 DEF ToSet
    <3>3. Keeps(t, e[2])
      BY <2>2, <3>1 DEF Kept, Keeps, Never
    <3> QED BY <2>3, <3>1, <3>2, <3>3
  <2>4. CASE ~Has(schedule, t)
    BY <2>2, <2>4 DEF OnTime
  <2> QED BY <2>3, <2>4
<1> QED BY <1>1, <1>2, <1>3, PTL DEF Spec

\* z_timer_expiration_handler calls the expiry function of a timer in the tick
\* that the latest start and the periods since lead to, later only if the timer was
\* crowded, under the same condition.
THEOREM TimersExpireWhenDue == ASSUME "stop" \notin GapCalls PROVE Spec => ExpiresWhenDue
<1>1. Init => IInv
  BY InitIInv
<1>2. IInv /\ [Next]_vars => IInv'
  BY NextStep
<1>3. IInv /\ [Next]_vars
        => [at = "gap" /\ at' = "expiry" => Keeps(current, curr_tick) /\ curr_tick <= now]_vars
  <2> SUFFICES ASSUME IInv, [Next]_vars, at = "gap", at' = "expiry"
               PROVE  Keeps(current, curr_tick) /\ curr_tick <= now
    OBVIOUS
  <2>1. CASE HandlerBegin
    <3>1. ~Relinked(current)
      <4> SUFFICES ASSUME Relinked(current) PROVE FALSE
        OBVIOUS
      <4>1. Continue(announce_remaining - dt, schedule)
        BY <2>1 DEF HandlerBegin
      <4> QED BY <4>1 DEF Continue
    <3>2. ~Has(schedule, current)
      BY <3>1, ScheduledHas DEF Relinked
    <3>3. /\ Kept(due[current], current \in crowded, curr_tick)
          /\ due[current] \in Int /\ curr_tick <= now
      BY <3>2 DEF IInv, DueInv, ClockInv, KTypes
    <3> QED BY <3>3 DEF Kept, Keeps, Never
  <2>2. CASE ~HandlerBegin
    <3>1. at' = at \/ sys_clock_announce \/ HandlerEnd
      BY <2>2 DEF Next, vars, isrVars, Tick, Start, k_timer_start, k_timer_stop, StopEnd,
                  k_timer_status_get, SyncCheck, SyncPend, SyncDone
    <3> QED BY <3>1 DEF sys_clock_announce, HandlerEnd
  <2> QED BY <2>1, <2>2
<1> QED BY <1>1, <1>2, <1>3, PTL DEF Spec, ExpiresWhenDue

-----------------------------------------------------------------------------
(* Threads that wait, with one CPU *)

\* What sys_clock_announce takes off the list it handles next.
LEMMA ContinueWaits ==
  ASSUME KTypes, Queue(schedule), NEW rem \in Int, Continue(rem, schedule), announced' \in Int,
         UNCHANGED <<now, period, due>>,
         sync' \in [Timers -> {"none", "checked", "pended", "ready"}]
  PROVE  /\ KTypes' /\ Queue(schedule')
         /\ \A t \in Timers : Has(schedule, t) => Has(schedule', t) \/ (at' # "none" /\ current' = t)
<1>1. CASE Overdue(schedule)
  <2> DEFINE e == Head(schedule)
  <2>1. schedule # <<>>
    BY <1>1 DEF Overdue
  <2>2. /\ e \in Entry /\ Queue(Tail(schedule))
        /\ ToSet(Tail(schedule)) = {f \in ToSet(schedule) : f[1] # e[1]}
    BY <2>1, TailQueue
  <2>3. /\ schedule' = Tail(schedule) /\ at' = "gap" /\ current' = e[1]
        /\ dt' = e[2] - curr_tick /\ curr_tick' = e[2] /\ announce_remaining' = rem
    BY <1>1 DEF Continue, Q!Timeout, Q!Deadline
  <2>4. e[1] \in Timers /\ e[2] \in Int
    BY <2>2 DEF Entry
  <2> HIDE DEF e
  <2>5. KTypes'
    BY <2>3, <2>4 DEF KTypes
  <2>6. ASSUME NEW t \in Timers, Has(schedule, t), t # e[1] PROVE Has(schedule', t)
    BY <2>2, <2>3, <2>6 DEF Has
  <2> QED BY <2>2, <2>3, <2>5, <2>6
<1>2. CASE ~Overdue(schedule)
  <2>1. /\ schedule' = schedule /\ at' = "none" /\ dt' = 0
        /\ curr_tick' = curr_tick + rem /\ announce_remaining' = 0
    BY <1>2 DEF Continue
  <2>2. KTypes'
    BY <2>1 DEF KTypes
  <2> QED BY <2>1, <2>2
<1> QED BY <1>1, <1>2

LEMMA InitWait == Init => WaitInv
BY InitIInv DEF IInv, ListInv, WaitInv, Init

\* While a thread has the lock of timer.c nothing happens to its timer.
LEMMA LockedWaits ==
  ASSUME ~SMP, WaitInv, Locked, [Next]_vars
  PROVE  WaitInv'
<1>1. \/ Tick \/ (\E t \in Timers : SyncPend(t)) \/ UNCHANGED vars
  BY DEF Next, sys_clock_announce, HandlerBegin, HandlerEnd, Start, k_timer_start, k_timer_stop,
         StopEnd, k_timer_status_get, SyncCheck, SyncDone
<1>2. CASE Tick \/ UNCHANGED vars
  <2>1. UNCHANGED <<announced, curr_tick, announce_remaining, schedule, at, current,
                    dt, period, sync, stopping, due>> /\ now' \in Int
    BY <1>2 DEF Tick, vars, clockVars, isrVars, timerVars, dueVars, WaitInv, KTypes
  <2> QED BY <2>1 DEF WaitInv, KTypes
<1>3. ASSUME NEW t \in Timers, SyncPend(t) PROVE WaitInv'
  <2>1. /\ UNCHANGED <<now, announced, curr_tick, announce_remaining, schedule, at, current,
                       dt, period, stopping, due>>
        /\ sync' = [sync EXCEPT ![t] = "pended"] /\ sync[t] = "checked"
    BY <1>3 DEF SyncPend, clockVars, isrVars, dueVars
  <2>2. KTypes'
    BY <2>1 DEF WaitInv, KTypes
  <2>3. sync \in [Timers -> {"none", "checked", "pended", "ready"}]
    BY DEF WaitInv, KTypes
  <2>4. ASSUME NEW u \in Timers
        PROVE  /\ sync'[u] = "checked" => Has(schedule', u)
               /\ sync'[u] = "pended" =>
                    Has(schedule', u) \/ u \in stopping' \/ (at' # "none" /\ current' = u)
    <3>1. CASE u = t
      BY <2>1, <2>3, <3>1 DEF WaitInv
    <3>2. CASE u # t
      <4>1. sync'[u] = sync[u]
        BY <2>1, <2>3, <3>2
      <4> QED BY <2>1, <4>1 DEF WaitInv
    <3> QED BY <3>1, <3>2
  <2> QED BY <2>1, <2>2, <2>4 DEF WaitInv
<1> QED BY <1>1, <1>2, <1>3

\* A step in which nobody has that lock, and nobody begins to wait.
LEMMA FreeWaits ==
  ASSUME WaitInv, KTypes', Queue(schedule'),
         \A t \in Timers : sync'[t] # "checked",
         \A t \in Timers : sync'[t] = "pended" => sync[t] = "pended",
         \A t \in Timers : sync'[t] = "pended" /\ Has(schedule, t) =>
           Has(schedule', t) \/ t \in stopping' \/ (at' # "none" /\ current' = t),
         \A t \in Timers : sync'[t] = "pended" /\ t \in stopping => t \in stopping',
         \A t \in Timers : sync'[t] = "pended" /\ at # "none" /\ current = t =>
           Has(schedule', t) \/ t \in stopping' \/ (at' # "none" /\ current' = t)
  PROVE  WaitInv'
BY DEF WaitInv

LEMMA NextWaits == ASSUME ~SMP, WaitInv, ~Locked, [Next]_vars PROVE WaitInv'
<1>0. /\ KTypes /\ Queue(schedule) /\ \A t \in Timers : sync[t] # "checked"
      /\ sync \in [Timers -> {"none", "checked", "pended", "ready"}]
  BY DEF WaitInv, Locked, KTypes
<1>t. /\ now \in Int /\ announced \in Int /\ curr_tick \in Int /\ announce_remaining \in Int
      /\ dt \in Int /\ period \in [Timers -> Nat] /\ due \in [Timers -> Int]
  BY <1>0 DEF KTypes
<1>1. CASE Tick \/ UNCHANGED vars
  <2>1. UNCHANGED <<announced, curr_tick, announce_remaining, schedule, at, current,
                    dt, period, sync, stopping, due>> /\ now' \in Int
    BY <1>1, <1>t DEF Tick, vars, clockVars, isrVars, timerVars, dueVars
  <2> QED BY <2>1 DEF WaitInv, KTypes
<1>2. CASE sys_clock_announce
  <2>1. /\ at = "none" /\ announced' = now /\ Continue(now - announced, schedule)
        /\ UNCHANGED <<now, period, sync, stopping, due>>
    BY <1>2 DEF sys_clock_announce, timerVars, dueVars
  <2>2. PICK rem \in Int : rem = now - announced
    BY <1>t
  <2>3. /\ KTypes' /\ Queue(schedule')
        /\ \A t \in Timers : Has(schedule, t) => Has(schedule', t) \/ (at' # "none" /\ current' = t)
    BY <1>0, <1>t, <2>1, <2>2, ContinueWaits
  <2> QED BY <1>0, <2>1, <2>3, FreeWaits
<1>3. CASE HandlerBegin
  <2>0. at = "gap" /\ current \in Timers /\ UNCHANGED <<now, period, sync, stopping>>
    BY <1>0, <1>3 DEF HandlerBegin, KTypes
  <2>1. CASE Relinked(current)
    <3>1. Continue(announce_remaining - dt, schedule) /\ UNCHANGED <<announced, due>>
      BY <1>3, <2>1 DEF HandlerBegin, dueVars
    <3>2. PICK rem \in Int : rem = announce_remaining - dt
      BY <1>t
    <3>3. /\ KTypes' /\ Queue(schedule')
          /\ \A t \in Timers : Has(schedule, t) => Has(schedule', t) \/ (at' # "none" /\ current' = t)
      BY <1>0, <1>t, <2>0, <3>1, <3>2, ContinueWaits
    <3>4. Has(schedule, current)
      BY <2>1, ScheduledHas DEF Relinked
    <3> QED BY <1>0, <2>0, <3>3, <3>4, FreeWaits
  <2>2. CASE ~Relinked(current)
    <3>1. /\ schedule' = Rearmed(current) /\ at' = "expiry"
          /\ due' = [due EXCEPT ![current] = NextDue(current)]
          /\ UNCHANGED <<announced, curr_tick, announce_remaining, current, dt>>
      BY <1>3, <2>2 DEF HandlerBegin, clockVars
    <3>2. PICK p \in Nat : p = period[current]
      BY <1>t, <2>0
    <3>3. due'[current] \in Int /\ due' \in [Timers -> Int]
      <4>1. NextDue(current) \in Int
        BY <1>t, <2>0, <3>2 DEF NextDue, Never
      <4> QED BY <1>t, <2>0, <3>1, <4>1
    <3>4. KTypes'
      BY <1>0, <2>0, <3>1, <3>3 DEF KTypes
    <3>5. Queue(schedule') /\ ToSet(schedule) \subseteq ToSet(schedule')
      <4>1. CASE period[current] = 0
        BY <1>0, <3>1, <4>1 DEF Rearmed
      <4>2. CASE period[current] # 0
        <5>1. PICK m \in Int : m = k_uptime_ticks + 1 + Higher(p - 1, 0)
          <6>1. k_uptime_ticks \in Int
            BY <1>t DEF k_uptime_ticks, elapsed
          <6>2. Higher(p - 1, 0) \in Int
            BY HigherOf
          <6> QED BY <6>1, <6>2
        <5>2. PICK d \in Int : d = Absolute(m)
          <6>1. Higher(1, m - curr_tick) \in Int
            BY <1>t, HigherOf
          <6> QED BY <1>t, <6>1 DEF Absolute
        <5>3. schedule' = Q!Inserted(schedule, current, d)
          BY <3>1, <3>2, <4>2, <5>1, <5>2 DEF Rearmed
        <5>4. \A e \in ToSet(schedule) : e[1] # current
          BY <2>2, ScheduledHas DEF Relinked, Has
        <5> QED BY <1>0, <2>0, <5>3, <5>4, InsertedQueue
      <4> QED BY <4>1, <4>2
    <3>6. \A t \in Timers : Has(schedule, t) => Has(schedule', t)
      BY <3>5 DEF Has
    <3> QED BY <1>0, <2>0, <3>1, <3>4, <3>5, <3>6, FreeWaits
  <2> QED BY <2>1, <2>2
<1>4. CASE HandlerEnd
  <2>1. /\ at = "expiry" /\ UNCHANGED <<now, announced, period, stopping, due>>
        /\ sync' = [sync EXCEPT ![current] = IF @ = "pended" THEN "ready" ELSE @]
        /\ Continue(announce_remaining - dt, schedule)
    BY <1>4 DEF HandlerEnd, Wake, dueVars
  <2>2. current \in Timers
    BY <1>0, <2>1 DEF KTypes
  <2>3. /\ sync' \in [Timers -> {"none", "checked", "pended", "ready"}] /\ sync'[current] # "pended"
        /\ \A t \in Timers : sync'[t] # "checked" /\ (sync'[t] = "pended" => sync[t] = "pended")
    BY <1>0, <2>1, <2>2
  <2>4. PICK rem \in Int : rem = announce_remaining - dt
    BY <1>t
  <2>5. /\ KTypes' /\ Queue(schedule')
        /\ \A t \in Timers : Has(schedule, t) => Has(schedule', t) \/ (at' # "none" /\ current' = t)
    BY <1>0, <1>t, <2>1, <2>3, <2>4, ContinueWaits
  <2> QED BY <1>0, <2>1, <2>3, <2>5, FreeWaits
<1>5. ASSUME NEW t \in Timers, Start(t) PROVE WaitInv'
  <2>1. PICK p \in Nat, d \in Int : k_timer_start(t, d, p)
    <3>1. PICK p \in Periods : \/ \E n \in Durations : k_timer_start(t, Relative(Higher(n - 1, 0)), p)
                              \/ \E n \in Dates : k_timer_start(t, Absolute(n), p)
      BY <1>5 DEF Start
    <3>2. ASSUME NEW n \in Durations PROVE Relative(Higher(n - 1, 0)) \in Int
      <4>1. PICK m \in Int : m = Higher(n - 1, 0)
        BY HigherOf, KTimerAssumption
      <4>2. elapsed \in Int
        BY <1>t DEF elapsed
      <4> QED BY <1>t, <4>1, <4>2 DEF Relative
    <3>3. ASSUME NEW n \in Dates PROVE Absolute(n) \in Int
      <4>1. n \in Int
        BY KTimerAssumption
      <4>2. PICK m \in Int : m = Higher(1, n - curr_tick)
        BY <1>t, <4>1, HigherOf
      <4> QED BY <1>t, <4>2 DEF Absolute
    <3>4. p \in Nat
      BY KTimerAssumption
    <3> QED BY <3>1, <3>2, <3>3, <3>4
  <2>2. /\ schedule' = Q!Inserted(Q!Without(schedule, t), t, d)
        /\ period' = [period EXCEPT ![t] = p] /\ due' = [due EXCEPT ![t] = d]
        /\ UNCHANGED <<now, announced, curr_tick, announce_remaining, at, current, dt, sync, stopping>>
    BY <2>1 DEF k_timer_start, clockVars, isrVars
  <2>3. PICK s : s = Q!Without(schedule, t)
    OBVIOUS
  <2>4. Queue(s) /\ ToSet(s) = {e \in ToSet(schedule) : e[1] # t}
    BY <1>0, <2>3, WithoutQueue
  <2>5. Queue(schedule') /\ ToSet(schedule') = ToSet(s) \cup {<<t, d>>}
    BY <1>5, <2>2, <2>3, <2>4, InsertedQueue
  <2>6. \A u \in Timers : Has(schedule, u) => Has(schedule', u)
    <3>1. <<t, d>>[1] = t
      OBVIOUS
    <3> QED BY <2>4, <2>5, <3>1 DEF Has
  <2>7. KTypes'
    BY <1>0, <2>2 DEF KTypes
  <2> QED BY <1>0, <2>2, <2>5, <2>6, <2>7, FreeWaits
<1>6. ASSUME NEW t \in Timers, k_timer_stop(t) PROVE WaitInv'
  <2>1. /\ schedule' = Q!Without(schedule, t) /\ due' = [due EXCEPT ![t] = Never]
        /\ stopping' = stopping \cup {t}
        /\ UNCHANGED <<now, announced, curr_tick, announce_remaining, at, current, dt, sync, period>>
    BY <1>6 DEF k_timer_stop, clockVars, isrVars
  <2>2. Queue(schedule') /\ ToSet(schedule') = {e \in ToSet(schedule) : e[1] # t}
    BY <1>0, <2>1, WithoutQueue
  <2>3. \A u \in Timers : Has(schedule, u) => Has(schedule', u) \/ u \in stopping'
    BY <2>1, <2>2 DEF Has
  <2>4. KTypes'
    BY <1>0, <2>1 DEF KTypes, Never
  <2> QED BY <1>0, <2>1, <2>2, <2>3, <2>4, FreeWaits
<1>7. ASSUME NEW t \in Timers, StopEnd(t) PROVE WaitInv'
  <2>1. /\ stopping' = stopping \ {t}
        /\ sync' = [sync EXCEPT ![t] = IF @ = "pended" THEN "ready" ELSE @]
        /\ UNCHANGED <<now, announced, curr_tick, announce_remaining, schedule, at, current, dt,
                       period, due>>
    BY <1>7 DEF StopEnd, Wake, clockVars, isrVars, dueVars
  <2>2. /\ sync' \in [Timers -> {"none", "checked", "pended", "ready"}] /\ sync'[t] # "pended"
        /\ \A u \in Timers : sync'[u] # "checked" /\ (sync'[u] = "pended" => sync[u] = "pended")
    BY <1>0, <1>7, <2>1
  <2>3. KTypes' /\ Queue(schedule')
    BY <1>0, <2>1, <2>2 DEF KTypes
  <2> QED BY <1>0, <2>1, <2>2, <2>3, FreeWaits
<1>8. ASSUME NEW t \in Timers, SyncDone(t) \/ k_timer_status_get(t) PROVE WaitInv'
  <2>1. /\ UNCHANGED <<now, announced, curr_tick, announce_remaining, schedule, at, current, dt,
                       period, stopping, due>>
        /\ sync' = sync \/ sync' = [sync EXCEPT ![t] = "none"]
    BY <1>8 DEF SyncDone, k_timer_status_get, clockVars, isrVars, dueVars
  <2>2. /\ sync' \in [Timers -> {"none", "checked", "pended", "ready"}]
        /\ \A u \in Timers : sync'[u] # "checked" /\ (sync'[u] = "pended" => sync[u] = "pended")
    BY <1>0, <1>8, <2>1
  <2>3. KTypes' /\ Queue(schedule')
    BY <1>0, <2>1, <2>2 DEF KTypes
  <2> QED BY <1>0, <2>1, <2>2, <2>3, FreeWaits
<1>9. ASSUME NEW t \in Timers, SyncCheck(t) PROVE WaitInv'
  <2>1. /\ UNCHANGED <<now, announced, curr_tick, announce_remaining, schedule, at, current, dt,
                       period, stopping, due>>
        /\ sync' = [sync EXCEPT ![t] = "checked"] /\ Has(schedule, t)
    BY <1>9, ScheduledHas DEF SyncCheck, clockVars, isrVars, dueVars
  <2>2. KTypes'
    BY <1>0, <2>1 DEF KTypes
  <2>3. ASSUME NEW u \in Timers
        PROVE  /\ sync'[u] = "checked" => Has(schedule', u)
               /\ sync'[u] = "pended" => sync[u] = "pended"
    BY <1>0, <2>1
  <2> QED BY <1>0, <2>1, <2>2, <2>3 DEF WaitInv
<1>10. ASSUME NEW t \in Timers, SyncPend(t) PROVE FALSE
  BY <1>0, <1>10 DEF SyncPend
<1> QED BY <1>1, <1>2, <1>3, <1>4, <1>5, <1>6, <1>7, <1>8, <1>9, <1>10 DEF Next

\* With one CPU, no thread in k_timer_status_sync is left waiting: its timer is to
\* expire, or being handled, or stopped by a call that has still to wake it.  (With
\* several, k_timer_stop may come between the check and the wait.)
THEOREM SyncIsWoken == ASSUME ~SMP PROVE Spec => []SyncNotStuck
<1>1. Init => WaitInv
  BY InitWait
<1>2. WaitInv /\ [Next]_vars => WaitInv'
  BY LockedWaits, NextWaits
<1>3. WaitInv => SyncNotStuck
  BY ScheduledHas DEF WaitInv, SyncNotStuck
<1> QED BY <1>1, <1>2, <1>3, PTL DEF Spec
=============================================================================
