---------------------------- MODULE TimeoutProofs ----------------------------
(***************************************************************************)
(* Proofs about the timeout queue (module TimeoutQueue): for any number of *)
(* CPUs no announced tick is lost, the clock tells the time, the driver's  *)
(* differences of cycles do not overflow, and the list of differences      *)
(* keeps the deadline of every timeout.  With one CPU nothing is handled   *)
(* early, and the list implements TimeoutSpec.                             *)
(***************************************************************************)
EXTENDS TimeoutQueue, ListFacts, FiniteSetTheorems

-----------------------------------------------------------------------------
(* Running sums *)

\* The functions that satisfy the recursive definition in Sums.
SumOf(F, s, d) == F = [i \in 0..Len(s) |-> IF i = 0 THEN 0 ELSE F[i - 1] + d[s[i]]]

\* The recursive function in Sums is well defined.
LEMMA SumExists ==
  ASSUME NEW S, NEW s \in Seq(S), NEW d
  PROVE  \E F : SumOf(F, s, d)
<1> DEFINE Step(F, i) == IF i = 0 THEN 0 ELSE F[i - 1] + d[s[i]]
           T == {n \in Nat : \E F : F = [i \in 0..n |-> Step(F, i)]}
<1>1. 0 \in T
  <2> DEFINE F == [i \in 0..0 |-> 0]
  <2>1. F = [i \in 0..0 |-> Step(F, i)]
    OBVIOUS
  <2> QED BY <2>1
<1>2. ASSUME NEW n \in Nat, n \in T PROVE n + 1 \in T
  <2>1. PICK F : F = [i \in 0..n |-> Step(F, i)]
    BY <1>2
  <2> DEFINE G == [i \in 0..(n + 1) |-> IF i <= n THEN F[i] ELSE Step(F, i)]
  <2>2. \A i \in 0..(n + 1) : i # 0 => i - 1 \in 0..n
    OBVIOUS
  <2>3. \A i \in 0..(n + 1) : i # 0 => G[i - 1] = F[i - 1]
    BY <2>2
  <2>4. ASSUME NEW i \in 0..(n + 1) PROVE G[i] = Step(G, i)
    <3>1. Step(G, i) = Step(F, i)
      BY <2>3
    <3>2. CASE i <= n
      <4>1. i \in 0..n
        BY <3>2
      <4>2. F[i] = Step(F, i)
        <5> HIDE DEF Step
        <5> QED BY <2>1, <4>1
      <4>3. G[i] = F[i]
        BY <3>2
      <4> HIDE DEF Step, G
      <4> QED BY <4>2, <4>3, <3>1
    <3>3. CASE ~(i <= n)
      <4>1. G[i] = Step(F, i)
        <5> HIDE DEF Step
        <5> QED BY <3>3
      <4> HIDE DEF Step, G
      <4> QED BY <4>1, <3>1
    <3> QED BY <3>2, <3>3
  <2>5. G = [i \in 0..(n + 1) |-> Step(G, i)]
    <3>1. G = [i \in 0..(n + 1) |-> G[i]]
      OBVIOUS
    <3> HIDE DEF G, Step
    <3> QED BY <3>1, <2>4
  <2> HIDE DEF G, Step
  <2> QED BY <2>5
<1>3. T \in SUBSET Nat
  OBVIOUS
<1>4. Len(s) \in T
  <2>0. Len(s) \in Nat /\ Len(s) \in 0..Len(s)
    OBVIOUS
  <2> HIDE DEF T
  <2> QED BY <2>0, <1>1, <1>2, <1>3, Induction
<1> QED BY <1>4 DEF SumOf

\* What Sums computes.
LEMMA SumsProperties ==
  ASSUME NEW S, NEW s \in Seq(S), NEW d \in [S -> Int]
  PROVE  /\ \A i \in 0..Len(s) : Sums(s, d)[i] \in Int
         /\ Sums(s, d)[0] = 0
         /\ \A i \in 1..Len(s) : Sums(s, d)[i] = Sums(s, d)[i - 1] + d[s[i]]
<1> DEFINE F == Sums(s, d)
<1>1. F = CHOOSE G : SumOf(G, s, d)
  BY DEF Sums, SumOf
<1>2. SumOf(F, s, d)
  BY <1>1, SumExists, Zenon
<1> HIDE DEF F
<1>3. F[0] = 0
  <2>1. 0 \in 0..Len(s)
    OBVIOUS
  <2> QED BY <1>2, <2>1 DEF SumOf
<1>4. ASSUME NEW i \in 1..Len(s) PROVE F[i] = F[i - 1] + d[s[i]]
  <2>1. i \in 0..Len(s) /\ i # 0
    OBVIOUS
  <2> QED BY <1>2, <2>1 DEF SumOf
<1> DEFINE T == {n \in Nat : n <= Len(s) => F[n] \in Int}
<1>5. ASSUME NEW n \in Nat, n + 1 <= Len(s), n \in T PROVE n + 1 \in T
  <2>1. PICK h \in 1..Len(s) : h = n + 1 /\ h - 1 = n
    BY <1>5
  <2>2. d[s[h]] \in Int
    OBVIOUS
  <2> QED BY <1>4, <1>5, <2>1, <2>2
<1>6. 0 \in T /\ T \in SUBSET Nat
  BY <1>3
<1>7. \A n \in 0..Len(s) : n \in T
  <2>1. Len(s) \in Nat
    OBVIOUS
  <2> HIDE DEF T
  <2> QED BY <2>1, <1>5, <1>6, Induction
<1>8. \A n \in 0..Len(s) : F[n] \in Int
  BY <1>7
<1> QED BY <1>3, <1>4, <1>8 DEF F

\* From place k on in s, and m in u, the ticks of N timeouts are the same.
Alike(s, d, k, u, e, m, N) ==
  /\ k + N <= Len(s) /\ m + N <= Len(u)
  /\ \A j \in 1..N : d[s[k + j]] = e[u[m + j]]

\* The sum up to place k of s is by C more than that up to m of u.
Apart(s, d, k, u, e, m, C) == Sums(s, d)[k] = Sums(u, e)[m] + C

\* Over stretches of two lists that agree, the sums grow alike.
LEMMA SumsAgree ==
  ASSUME NEW S, NEW s \in Seq(S), NEW u \in Seq(S), NEW d \in [S -> Int], NEW e \in [S -> Int],
         NEW k \in Nat, NEW m \in Nat, NEW N \in Nat, Alike(s, d, k, u, e, m, N),
         NEW C \in Int, Apart(s, d, k, u, e, m, C)
  PROVE  \A h \in 0..N : Apart(s, d, k + h, u, e, m + h, C)
<1> DEFINE F == Sums(s, d)
           G == Sums(u, e)
<1>1. /\ \A i \in 0..Len(s) : F[i] \in Int
      /\ \A i \in 1..Len(s) : F[i] = F[i - 1] + d[s[i]]
  BY SumsProperties
<1>2. /\ \A i \in 0..Len(u) : G[i] \in Int
      /\ \A i \in 1..Len(u) : G[i] = G[i - 1] + e[u[i]]
  BY SumsProperties
<1>3. Len(s) \in Nat /\ Len(u) \in Nat
  OBVIOUS
<1>3a. F[k] = G[m] + C
  BY DEF Apart
<1>3b. k + N <= Len(s) /\ m + N <= Len(u)
  BY DEF Alike
<1>3c. \A j \in 1..N : d[s[k + j]] = e[u[m + j]]
  BY DEF Alike
<1> HIDE DEF F, G
<1>4. /\ \A h \in 0..N : k + h \in 0..Len(s) /\ m + h \in 0..Len(u)
      /\ k \in 0..Len(s) /\ m \in 0..Len(u)
  BY <1>3, <1>3b
<1>5. /\ \A h \in 0..N : F[k + h] \in Int /\ G[m + h] \in Int
      /\ F[k] \in Int /\ G[m] \in Int
  BY <1>1, <1>2, <1>4
<1> DEFINE P(h) == F[k + h] = G[m + h] + C
           T == {h \in Nat : h <= N => P(h)}
<1>6. 0 \in T /\ T \in SUBSET Nat
  BY <1>5, <1>3a
<1>7. ASSUME NEW h \in Nat, h + 1 <= N, h \in T PROVE h + 1 \in T
  <2>1. PICK i \in 1..Len(s) : i = k + (h + 1)
    BY <1>3, <1>3b, <1>7
  <2>2. PICK j \in 1..Len(u) : j = m + (h + 1)
    BY <1>3, <1>3b, <1>7
  <2>3. PICK g \in 1..N : g = h + 1
    BY <1>7
  <2>4. d[s[i]] = e[u[j]] /\ s[i] \in S
    <3>1. d[s[k + g]] = e[u[m + g]]
      BY <1>3c
    <3>2. k + g = i /\ m + g = j
      BY <2>1, <2>2, <2>3
    <3>3. s[i] \in S
      OBVIOUS
    <3> QED BY <3>1, <3>2, <3>3
  <2>5. d[s[i]] \in Int
    BY <2>4
  <2>6. F[i] = F[i - 1] + d[s[i]] /\ G[j] = G[j - 1] + e[u[j]]
    BY <1>1, <1>2
  <2>7. i - 1 = k + h /\ j - 1 = m + h /\ h \in 0..N
    BY <2>1, <2>2, <1>7
  <2>8. /\ F[i - 1] \in Int /\ G[j - 1] \in Int
        /\ F[i - 1] = G[j - 1] + C
    BY <1>5, <1>7, <2>7
  <2>9. F[i] = G[j] + C
    <3>1. PICK x \in Int, a \in Int, b \in Int : x = d[s[i]] /\ a = F[i - 1] /\ b = G[j - 1]
      BY <2>5, <2>8
    <3>2. F[i] = a + x /\ G[j] = b + x /\ a = b + C
      BY <3>1, <2>4, <2>6, <2>8
    <3>3. a + x = (b + x) + C
      BY <3>2
    <3> QED BY <3>2, <3>3
  <2>10. P(h + 1)
    BY <2>1, <2>2, <2>9
  <2>11. h + 1 \in Nat
    OBVIOUS
  <2> HIDE DEF P
  <2> QED BY <2>10, <2>11
<1>8. \A h \in 0..N : h \in T
  <2> HIDE DEF T
  <2> QED BY <1>6, <1>7, Induction
<1> QED BY <1>8 DEF Apart, F, G

\* ... from place k to place i of both lists,
LEMMA SumsSame ==
  ASSUME NEW S, NEW s \in Seq(S), NEW u \in Seq(S), NEW d \in [S -> Int], NEW e \in [S -> Int],
         NEW k \in Nat, NEW i \in Nat, k <= i, i <= Len(s), i <= Len(u),
         \A j \in (k + 1)..i : d[s[j]] = e[u[j]],
         NEW C \in Int, Apart(s, d, k, u, e, k, C)
  PROVE  Apart(s, d, i, u, e, i, C)
<1>1. PICK N \in Nat : N = i - k
  OBVIOUS
<1>2. k + N = i /\ k + N <= Len(s) /\ k + N <= Len(u) /\ N \in 0..N
  BY <1>1
<1>3. ASSUME NEW j \in 1..N PROVE d[s[k + j]] = e[u[k + j]]
  <2>1. PICK g \in (k + 1)..i : g = k + j
    BY <1>1
  <2> QED BY <2>1
<1>4. \A h \in 0..N : Apart(s, d, k + h, u, e, k + h, C)
  <2>1. Alike(s, d, k, u, e, k, N)
    BY <1>2, <1>3 DEF Alike
  <2> QED BY <2>1, SumsAgree
<1> QED BY <1>2, <1>4

\* ... and from one list to places one further on in the other.
LEMMA SumsNext ==
  ASSUME NEW S, NEW s \in Seq(S), NEW u \in Seq(S), NEW d \in [S -> Int], NEW e \in [S -> Int],
         NEW k \in Nat, NEW i \in Nat, k <= i, i <= Len(s), i + 1 <= Len(u),
         \A j \in (k + 1)..i : d[s[j]] = e[u[j + 1]],
         NEW C \in Int, Apart(s, d, k, u, e, k + 1, C)
  PROVE  Apart(s, d, i, u, e, i + 1, C)
<1>1. PICK N \in Nat : N = i - k
  OBVIOUS
<1>2. PICK m \in Nat : m = k + 1
  OBVIOUS
<1>3. k + N = i /\ m + N = i + 1 /\ k + N <= Len(s) /\ m + N <= Len(u) /\ N \in 0..N
  BY <1>1, <1>2
<1>4. ASSUME NEW j \in 1..N PROVE d[s[k + j]] = e[u[m + j]]
  <2>1. PICK g \in (k + 1)..i : g = k + j /\ g + 1 = m + j
    BY <1>1, <1>2
  <2> QED BY <2>1
<1>5. Apart(s, d, k, u, e, m, C)
  BY <1>2
<1>6. \A h \in 0..N : Apart(s, d, k + h, u, e, m + h, C)
  <2>1. Alike(s, d, k, u, e, m, N)
    BY <1>3, <1>4 DEF Alike
  <2> QED BY <2>1, <1>5, SumsAgree
<1> QED BY <1>3, <1>6

\* An element that goes leaves its ticks to the next one, and one that comes
\* takes its ticks from the next one: u is s without its k-th element.
Shorter(u, e, s, d, k) ==
  /\ Len(u) + 1 = Len(s)
  /\ \A i \in 1..(k - 1) : e[u[i]] = d[s[i]]
  /\ k <= Len(u) => e[u[k]] = d[s[k]] + d[s[k + 1]]
  /\ \A i \in (k + 1)..Len(u) : e[u[i]] = d[s[i + 1]]

SumsKept(u, e, s, d, k) ==
  /\ \A i \in 0..(k - 1) : Sums(u, e)[i] = Sums(s, d)[i]
  /\ \A i \in k..Len(u) : Sums(u, e)[i] = Sums(s, d)[i + 1]

\* The other sums stay what they are.
LEMMA SumsShorter ==
  ASSUME NEW S, NEW s \in Seq(S), NEW u \in Seq(S), NEW d \in [S -> Int], NEW e \in [S -> Int],
         NEW k \in 1..Len(s), Shorter(u, e, s, d, k)
  PROVE  SumsKept(u, e, s, d, k)
<1> DEFINE F == Sums(s, d)
           G == Sums(u, e)
<1>1. /\ F[0] = 0 /\ \A i \in 0..Len(s) : F[i] \in Int
      /\ \A i \in 1..Len(s) : F[i] = F[i - 1] + d[s[i]]
  BY SumsProperties
<1>2. /\ G[0] = 0 /\ \A i \in 0..Len(u) : G[i] \in Int
      /\ \A i \in 1..Len(u) : G[i] = G[i - 1] + e[u[i]]
  BY SumsProperties
<1>3. Len(s) \in Nat /\ Len(u) \in Nat /\ Len(u) + 1 = Len(s) /\ k \in Nat
  BY DEF Shorter
<1> HIDE DEF F, G
<1>4. PICK z \in Nat : z = 0 /\ z \in Int
  OBVIOUS
<1>5. ASSUME NEW i \in 0..(k - 1) PROVE G[i] = F[i]
  <2>1. Apart(u, e, z, s, d, z, z)
    BY <1>1, <1>2, <1>4 DEF Apart, F, G
  <2>2. i \in Nat /\ z <= i /\ i <= Len(u) /\ i <= Len(s)
    BY <1>3, <1>4
  <2>3. ASSUME NEW j \in (z + 1)..i PROVE e[u[j]] = d[s[j]]
    <3>1. j \in 1..(k - 1)
      BY <1>3, <1>4
    <3> QED BY <3>1 DEF Shorter
  <2>4. Apart(u, e, i, s, d, i, z)
    BY <1>4, <2>1, <2>2, <2>3, SumsSame
  <2>5. F[i] \in Int
    BY <1>1, <1>3
  <2> QED BY <1>4, <2>4, <2>5 DEF Apart, F, G
<1>6. ASSUME k <= Len(u) PROVE G[k] = F[k + 1]
  <2>1. PICK h \in 1..Len(s) : h = k + 1 /\ h - 1 = k
    BY <1>3, <1>6
  <2>2. G[k] = G[k - 1] + e[u[k]] /\ F[k] = F[k - 1] + d[s[k]] /\ F[h] = F[k] + d[s[h]]
    BY <1>1, <1>2, <1>3, <1>6, <2>1
  <2>3. e[u[k]] = d[s[k]] + d[s[h]]
    BY <1>6, <2>1 DEF Shorter
  <2>4. k - 1 \in 0..(k - 1) /\ k - 1 \in 0..Len(s)
    BY <1>3
  <2>5. G[k - 1] = F[k - 1] /\ F[k - 1] \in Int
    BY <1>1, <1>5, <2>4
  <2>6. s[k] \in S /\ s[h] \in S
    OBVIOUS
  <2>7. PICK x \in Int, y \in Int, f \in Int : x = d[s[k]] /\ y = d[s[h]] /\ f = F[k - 1]
    BY <2>5, <2>6
  <2>8. G[k] = f + (x + y) /\ F[h] = (f + x) + y
    BY <2>2, <2>3, <2>5, <2>7
  <2> QED BY <2>1, <2>8
<1>7. ASSUME NEW i \in k..Len(u) PROVE G[i] = F[i + 1]
  <2>1. Apart(u, e, k, s, d, k + 1, z)
    <3>1. k + 1 \in 0..Len(s)
      BY <1>3
    <3>2. F[k + 1] \in Int
      BY <1>1, <3>1
    <3>3. G[k] = F[k + 1]
      BY <1>3, <1>6
    <3> QED BY <1>4, <3>2, <3>3 DEF Apart, F, G
  <2>2. i \in Nat /\ k <= i /\ i <= Len(u) /\ i + 1 <= Len(s)
    BY <1>3
  <2>3. ASSUME NEW j \in (k + 1)..i PROVE e[u[j]] = d[s[j + 1]]
    <3>1. j \in (k + 1)..Len(u)
      BY <1>3
    <3> QED BY <3>1 DEF Shorter
  <2>4. Apart(u, e, i, s, d, i + 1, z)
    BY <1>3, <1>4, <2>1, <2>2, <2>3, SumsNext
  <2>5. i + 1 \in 0..Len(s)
    BY <1>3
  <2>6. F[i + 1] \in Int
    BY <1>1, <2>5
  <2> QED BY <1>4, <2>4, <2>6 DEF Apart, F, G
<1> QED BY <1>5, <1>7 DEF SumsKept, F, G

\* Where an element is.
LEMMA PlaceOf ==
  ASSUME NEW S, NEW s \in Seq(S), Distinct(s), NEW i \in 1..Len(s), NEW t, s[i] = t
  PROVE  Place(s, t) = i
<1> DEFINE I == {j \in 1..Len(s) : s[j] = t}
<1>1. I = {i}
  BY DEF Distinct
<1>2. Place(s, t) = Min(I)
  BY <1>1 DEF Place, SelectInSeq
<1>3. I \in SUBSET Nat
  OBVIOUS
<1>4. Min(I) \in I
  <2> HIDE DEF I
  <2> QED BY <1>1, <1>3, MinOfNats
<1> QED BY <1>1, <1>2, <1>4

\* List s is u with x at place k.
With(s, u, k, x) ==
  /\ Len(s) = Len(u) + 1
  /\ \A i \in 1..(k - 1) : i \in 1..Len(s) /\ i \in 1..Len(u) /\ s[i] = u[i]
  /\ k \in 1..Len(s) /\ s[k] = x
  /\ \A i \in k..Len(u) : i \in 1..Len(u) /\ i + 1 \in 1..Len(s) /\ s[i + 1] = u[i]

\* Where everything is after an insertion.
LEMMA Inserted ==
  ASSUME NEW S, NEW u \in Seq(S), Distinct(u), NEW k \in 1..(Len(u) + 1), NEW x \in S,
         x \notin ToSet(u), NEW s, s = InsertAt(u, k, x)
  PROVE  s \in Seq(S) /\ Distinct(s) /\ With(s, u, k, x)
<1>1. /\ s \in Seq(S) /\ Len(s) = Len(u) + 1
      /\ \A i \in 1..Len(s) : s[i] = IF i < k THEN u[i] ELSE IF i = k THEN x ELSE u[i - 1]
  <2>1. s \in Seq(S) /\ HasAt(s, u, k, x)
    BY InsertPlaces
  <2> QED BY <2>1 DEF HasAt
<1>2. Len(u) \in Nat
  OBVIOUS
<1>3. \A i \in 1..Len(u) : u[i] # x
  BY ListElements
<1>4. ASSUME NEW i \in 1..(k - 1) PROVE i \in 1..Len(s) /\ i \in 1..Len(u) /\ s[i] = u[i]
  BY <1>1, <1>2
<1>5. k \in 1..Len(s) /\ s[k] = x
  BY <1>1, <1>2
<1>6. ASSUME NEW i \in k..Len(u)
      PROVE  i \in 1..Len(u) /\ i + 1 \in 1..Len(s) /\ s[i + 1] = u[i]
  <2>1. i \in 1..Len(u) /\ i + 1 \in 1..Len(s)
    BY <1>1, <1>2
  <2>2. ~(i + 1 < k) /\ i + 1 # k /\ (i + 1) - 1 = i
    BY <1>2
  <2>3. s[i + 1] = u[(i + 1) - 1]
    BY <1>1, <2>1, <2>2
  <2> QED BY <2>1, <2>2, <2>3
<1>7. Distinct(s)
  <2> SUFFICES ASSUME NEW i \in 1..Len(s), NEW j \in 1..Len(s), i < j, s[i] = s[j]
               PROVE  FALSE
    BY <1>1, <1>2 DEF Distinct
  <2>1. CASE i < k /\ j < k
    <3>1. s[i] = u[i] /\ s[j] = u[j] /\ i \in 1..Len(u) /\ j \in 1..Len(u)
      BY <2>1, <1>1, <1>2
    <3>2. i # j
      OBVIOUS
    <3> QED BY <3>1, <3>2 DEF Distinct
  <2>2. CASE i < k /\ j = k
    <3>1. s[i] = u[i] /\ s[j] = x /\ i \in 1..Len(u)
      BY <2>2, <1>1, <1>2
    <3> QED BY <3>1, <1>3
  <2>3. CASE i < k /\ j > k
    <3>1. s[i] = u[i] /\ s[j] = u[j - 1] /\ i \in 1..Len(u) /\ j - 1 \in 1..Len(u) /\ i # j - 1
      BY <2>3, <1>1, <1>2
    <3> QED BY <3>1 DEF Distinct
  <2>4. CASE i = k
    <3>1. s[i] = x /\ s[j] = u[j - 1] /\ j - 1 \in 1..Len(u)
      BY <2>4, <1>1, <1>2
    <3> QED BY <3>1, <1>3
  <2>5. CASE i > k
    <3>1. i - 1 \in 1..Len(u) /\ j - 1 \in 1..Len(u) /\ i - 1 # j - 1
      BY <2>5, <1>1, <1>2
    <3>2. s[i] = u[i - 1] /\ ~(j < k) /\ j # k
      BY <2>5, <1>1, <1>2
    <3>3. s[j] = u[j - 1]
      BY <3>2, <1>1
    <3> QED BY <3>1, <3>2, <3>3 DEF Distinct
  <2> QED BY <2>1, <2>2, <2>3, <2>4, <2>5
<1> QED BY <1>1, <1>4, <1>5, <1>6, <1>7 DEF With

\* ... and after a removal.
LEMMA Removed ==
  ASSUME NEW S, NEW s \in Seq(S), Distinct(s), NEW x \in ToSet(s), NEW u, u = RemoveFirst(s, x)
  PROVE  /\ u \in Seq(S) /\ Distinct(u) /\ Place(s, x) \in 1..Len(s)
         /\ With(s, u, Place(s, x), x)
<1>1. u \in Seq(S) /\ Distinct(u)
  BY RemoveList
<1>2. PICK k \in 1..Len(s) : /\ s[k] = x /\ Len(u) = Len(s) - 1
                             /\ \A i \in 1..Len(u) : u[i] = IF i < k THEN s[i] ELSE s[i + 1]
  <2>1. LET v == RemoveFirst(s, x)
        IN  \E k \in 1..Len(s) :
              /\ s[k] = x /\ v \in Seq(S) /\ Len(v) = Len(s) - 1
              /\ \A i \in 1..Len(v) : v[i] = IF i < k THEN s[i] ELSE s[i + 1]
    BY RemoveFirstPlaces
  <2> QED BY <2>1
<1>3. Place(s, x) = k
  BY <1>2, PlaceOf
<1>4. Len(s) \in Nat /\ Len(s) = Len(u) + 1
  BY <1>2
<1>5. ASSUME NEW i \in 1..(k - 1) PROVE i \in 1..Len(s) /\ i \in 1..Len(u) /\ s[i] = u[i]
  BY <1>2, <1>4
<1>6. ASSUME NEW i \in k..Len(u)
      PROVE  i \in 1..Len(u) /\ i + 1 \in 1..Len(s) /\ s[i + 1] = u[i]
  BY <1>2, <1>4
<1> QED BY <1>1, <1>2, <1>3, <1>4, <1>5, <1>6 DEF With

SameSum(u, e, s, d, v) == Sums(u, e)[Place(u, v)] = Sums(s, d)[Place(s, v)]

\* The sum up to an element of the shorter list is the same in both.
LEMMA PlacesKept ==
  ASSUME NEW S, NEW s \in Seq(S), Distinct(s), NEW u \in Seq(S), Distinct(u),
         NEW d \in [S -> Int], NEW e \in [S -> Int], NEW k \in 1..Len(s), NEW x,
         With(s, u, k, x), Shorter(u, e, s, d, k), NEW v \in ToSet(u)
  PROVE  SameSum(u, e, s, d, v)
<1>1. SumsKept(u, e, s, d, k)
  BY SumsShorter
<1>2. PICK i \in 1..Len(u) : u[i] = v
  BY ListElements
<1>3. Place(u, v) = i
  BY <1>2, PlaceOf
<1>4. Len(u) \in Nat
  OBVIOUS
<1>5. CASE i < k
  <2>1. i \in 1..(k - 1) /\ i \in 0..(k - 1)
    BY <1>5
  <2>2. s[i] = v /\ i \in 1..Len(s)
    BY <2>1, <1>2 DEF With
  <2>3. Place(s, v) = i
    BY <2>2, PlaceOf
  <2> QED BY <2>1, <2>3, <1>1, <1>3 DEF SumsKept, SameSum
<1>6. CASE ~(i < k)
  <2>1. i \in k..Len(u)
    BY <1>4, <1>6
  <2>2. PICK h \in 1..Len(s) : h = i + 1 /\ s[h] = v
    BY <2>1, <1>2 DEF With
  <2>3. Place(s, v) = h
    BY <2>2, PlaceOf
  <2>4. Sums(u, e)[i] = Sums(s, d)[h]
    BY <2>1, <2>2, <1>1 DEF SumsKept
  <2> QED BY <2>3, <2>4, <1>3 DEF SameSum
<1> QED BY <1>5, <1>6

-----------------------------------------------------------------------------
(* Totals over all CPUs *)

\* The CPUs in some order.
CpuList ==
  CHOOSE e \in [1..Cardinality(Cpus) -> Cpus] :
    Distinct(e) /\ \A p \in Cpus : \E i \in 1..Len(e) : e[i] = p

Total(f) == Sums(CpuList, f)[Len(CpuList)]

LEMMA CpusListed ==
  /\ CpuList \in Seq(Cpus) /\ Distinct(CpuList) /\ Len(CpuList) = Cardinality(Cpus)
  /\ \A p \in Cpus : \E i \in 1..Len(CpuList) : CpuList[i] = p
<1> DEFINE n == Cardinality(Cpus)
<1>1. n \in Nat /\ ExistsBijection(1..n, Cpus)
  BY TimeoutQueueAssumption, FS_CardinalityType
<1> HIDE DEF n
<1>2. PICK e \in Bijection(1..n, Cpus) : TRUE
  BY <1>1 DEF ExistsBijection
<1>3. /\ e \in [1..n -> Cpus]
      /\ \A i, j \in 1..n : e[i] = e[j] => i = j
      /\ \A p \in Cpus : \E i \in 1..n : e[i] = p
  BY <1>2 DEF Bijection, Injection, Surjection, IsInjective
<1>4. \A f \in [1..n -> Cpus] : f \in Seq(Cpus) /\ Len(f) = n
  BY <1>1
<1>5. Distinct(e) /\ \A p \in Cpus : \E i \in 1..Len(e) : e[i] = p
  BY <1>3, <1>4 DEF Distinct
<1>6. /\ CpuList \in [1..n -> Cpus] /\ Distinct(CpuList)
      /\ \A p \in Cpus : \E i \in 1..Len(CpuList) : CpuList[i] = p
  BY <1>3, <1>5, Zenon DEF CpuList, n
<1> QED BY <1>4, <1>6 DEF n

\* Nothing on any CPU makes nothing altogether.
LEMMA TotalZero ==
  ASSUME NEW f \in [Cpus -> Int], \A p \in Cpus : f[p] = 0
  PROVE  Total(f) = 0
<1> DEFINE s == CpuList
           F == Sums(s, f)
           T == {n \in Nat : n <= Len(s) => F[n] = 0}
<1>1. s \in Seq(Cpus) /\ Len(s) \in Nat
  BY CpusListed
<1>2. F[0] = 0 /\ \A i \in 1..Len(s) : F[i] = F[i - 1] + f[s[i]]
  <2> HIDE DEF s
  <2> QED BY <1>1, SumsProperties
<1> HIDE DEF F, s
<1>3. 0 \in T /\ T \in SUBSET Nat
  BY <1>2
<1>4. ASSUME NEW n \in Nat, n + 1 <= Len(s), n \in T PROVE n + 1 \in T
  <2>1. PICK h \in 1..Len(s) : h = n + 1 /\ h - 1 = n
    BY <1>1, <1>4
  <2>2. f[s[h]] = 0
    BY <1>1
  <2>3. F[h] = F[h - 1] + f[s[h]] /\ F[h - 1] = 0
    BY <1>2, <1>4, <2>1
  <2>4. F[n + 1] = 0
    BY <2>1, <2>2, <2>3
  <2> QED BY <2>4
<1>5. \A n \in 0..Len(s) : n \in T
  <2> HIDE DEF T
  <2> QED BY <1>1, <1>3, <1>4, Induction
<1> QED BY <1>1, <1>5 DEF F, s, Total

\* A CPU that changes its part changes the total by as much.
LEMMA TotalChange ==
  ASSUME NEW f \in [Cpus -> Int], NEW g \in [Cpus -> Int], NEW p \in Cpus,
         \A r \in Cpus \ {p} : g[r] = f[r]
  PROVE  Total(f) \in Int /\ Total(g) = Total(f) + (g[p] - f[p])
<1> DEFINE s == CpuList
           F == Sums(s, f)
           G == Sums(s, g)
<1>1. s \in Seq(Cpus) /\ Len(s) \in Nat /\ Distinct(s)
  BY CpusListed
<1>2. PICK k \in 1..Len(s) : s[k] = p
  BY CpusListed
<1> HIDE DEF s
<1>3. /\ F[0] = 0 /\ \A i \in 1..Len(s) : F[i] = F[i - 1] + f[s[i]]
      /\ \A i \in 0..Len(s) : F[i] \in Int
  BY <1>1, SumsProperties
<1>4. /\ G[0] = 0 /\ \A i \in 1..Len(s) : G[i] = G[i - 1] + g[s[i]]
      /\ \A i \in 0..Len(s) : G[i] \in Int
  BY <1>1, SumsProperties
<1>5. \A i \in 1..Len(s) : i # k => g[s[i]] = f[s[i]]
  BY <1>1, <1>2 DEF Distinct
<1> HIDE DEF F, G
<1>6. G[k - 1] = F[k - 1]
  <2>1. PICK i \in Nat : i = k - 1
    BY <1>1
  <2>2. PICK z \in Nat : z = 0
    OBVIOUS
  <2>3. \A j \in (z + 1)..i : g[s[j]] = f[s[j]]
    BY <1>1, <1>5, <2>1, <2>2
  <2>4. z <= i /\ i <= Len(s) /\ z \in Int
    BY <1>1, <2>1, <2>2
  <2>5. G[z] = F[z] + z
    BY <1>3, <1>4, <2>2
  <2>6. G[i] = F[i] + z
    <3>1. Apart(s, g, z, s, f, z, z)
      BY <2>5 DEF Apart, F, G
    <3>2. Apart(s, g, i, s, f, i, z)
      BY <1>1, <2>3, <2>4, <3>1, SumsSame
    <3> QED BY <3>2 DEF Apart, F, G
  <2>7. F[i] \in Int
    BY <1>1, <1>3, <2>4
  <2> QED BY <2>1, <2>2, <2>6, <2>7
<1>7. PICK C \in Int : C = g[p] - f[p]
  OBVIOUS
<1>8. G[k] = F[k] + C
  <2>1. k - 1 \in 0..Len(s) /\ s[k] = p
    BY <1>1, <1>2
  <2>2. G[k] = G[k - 1] + g[p]
    BY <2>1, <1>4
  <2>3. F[k] = F[k - 1] + f[p] /\ F[k - 1] \in Int
    BY <2>1, <1>3
  <2> QED BY <2>2, <2>3, <1>6, <1>7
<1>9. G[Len(s)] = F[Len(s)] + C
  <2>1. \A j \in (k + 1)..Len(s) : g[s[j]] = f[s[j]]
    BY <1>1, <1>5
  <2>2. k \in Nat /\ Len(s) \in Nat /\ k <= Len(s) /\ Len(s) <= Len(s)
    BY <1>1
  <2>3. Apart(s, g, k, s, f, k, C)
    BY <1>8 DEF Apart, F, G
  <2>4. Apart(s, g, Len(s), s, f, Len(s), C)
    BY <1>1, <2>1, <2>2, <2>3, SumsSame
  <2> QED BY <2>4 DEF Apart, F, G
<1>10. F[Len(s)] \in Int
  BY <1>1, <1>3
<1> QED BY <1>7, <1>9, <1>10 DEF F, G, s, Total

-----------------------------------------------------------------------------
(* The list *)

ClockTypes ==
  /\ mtime \in Int /\ last_count \in Int /\ last_ticks \in Int /\ last_elapsed \in Int
  /\ curr_tick \in Int /\ announce_remaining \in Int
  /\ at \in [Cpus -> {"thread", "isr", "fn"}] /\ arg \in [Cpus -> Int]

ListInv ==
  /\ timeout_list \in Seq(Timeouts) /\ Distinct(timeout_list)
  /\ dticks \in [Timeouts -> Int]

\* No timeout that stays on the list gets another deadline.
Kept ==
  \A t \in ToSet(timeout_list) \cap ToSet(timeout_list') :
    z_timeout_expires(t)' = z_timeout_expires(t)

\* The driver counts whole ticks.
LEMMA TicksSinceNat ==
  ASSUME ClockTypes, NEW cycle \in Int
  PROVE  TicksSince(cycle) \in Nat
<1>1. PICK w \in Nat \ {0} : w = 2^CYCLE_DIFF_W
  BY MachineTimerAssumption
<1>2. (cycle - last_count) % w \in Nat
  BY DEF ClockTypes
<1>3. ((cycle - last_count) % w) \div CYC_PER_TICK \in Nat
  BY <1>2, MachineTimerAssumption
<1> QED BY <1>1, <1>3 DEF TicksSince

LEMMA ElapsedNat ==
  ASSUME ClockTypes, NEW cycle \in Int
  PROVE  elapsed(cycle) \in Nat
BY TicksSinceNat DEF elapsed

LEMMA TicksFromNowInt ==
  ASSUME ClockTypes, NEW n \in Nat, NEW absolute \in BOOLEAN
  PROVE  TicksFromNow(n, absolute) \in Int
<1>1. elapsed(mtime) \in Nat
  BY ElapsedNat DEF ClockTypes
<1> QED BY <1>1 DEF TicksFromNow, Higher, ClockTypes

\* What the loop of z_add_timeout has found when it ends at place i.
Ends(n, absolute, i) ==
  /\ \/ i = Len(timeout_list) + 1
     \/ dticks[timeout_list[i]] > Left(n, absolute, i - 1)
  /\ \A j \in 1..(i - 1) : dticks[timeout_list[j]] <= Left(n, absolute, j - 1)

\* The search of z_add_timeout ends at a place.
LEMMA SearchEnds ==
  ASSUME ClockTypes, ListInv, NEW n \in Nat, NEW absolute \in BOOLEAN
  PROVE  /\ FirstLater(n, absolute) \in 1..(Len(timeout_list) + 1)
         /\ Left(n, absolute, FirstLater(n, absolute) - 1) \in Int
         /\ Ends(n, absolute, FirstLater(n, absolute))
<1> DEFINE N == Len(timeout_list)
           Later(i) == i = N + 1 \/ dticks[timeout_list[i]] > Left(n, absolute, i - 1)
           I == {i \in 1..(N + 1) : Later(i)}
<1>0. N \in Nat
  BY DEF ListInv
<1>1. \A i \in 0..N : Sums(timeout_list, dticks)[i] \in Int
  BY SumsProperties DEF ListInv
<1>2. \A i \in 0..N : Left(n, absolute, i) \in Int
  BY <1>1, TicksFromNowInt DEF Left
<1>3. \A i \in 1..N : dticks[timeout_list[i]] \in Int /\ i - 1 \in 0..N
  BY <1>0 DEF ListInv
<1>4. I # {} /\ I \in SUBSET Nat
  <2>1. N + 1 \in 1..(N + 1) /\ Later(N + 1)
    BY <1>0
  <2> HIDE DEF Later
  <2> QED BY <2>1, <1>0
<1>5. PICK m \in I : \A y \in I : m <= y
  <2> HIDE DEF I
  <2> QED BY <1>4, MinOfNats
<1>6. \A j \in 1..(m - 1) : dticks[timeout_list[j]] <= Left(n, absolute, j - 1)
  <2> TAKE j \in 1..(m - 1)
  <2>1. j \in 1..N /\ j \in 1..(N + 1) /\ ~(m <= j)
    BY <1>0, <1>5
  <2>2. ~Later(j)
    <3> HIDE DEF Later
    <3> QED BY <1>5, <2>1
  <2>3. dticks[timeout_list[j]] \in Int /\ Left(n, absolute, j - 1) \in Int
    BY <1>2, <1>3, <2>1
  <2> QED BY <2>1, <2>2, <2>3
<1>7. /\ m \in 1..(Len(timeout_list) + 1)
      /\ \/ m = Len(timeout_list) + 1
         \/ dticks[timeout_list[m]] > Left(n, absolute, m - 1)
  BY <1>5
<1>8. /\ FirstLater(n, absolute) \in 1..(Len(timeout_list) + 1)
      /\ Ends(n, absolute, FirstLater(n, absolute))
  BY <1>6, <1>7, Zenon DEF FirstLater, Ends
<1>9. FirstLater(n, absolute) - 1 \in 0..N
  BY <1>0, <1>8
<1> QED BY <1>2, <1>8, <1>9

\* Adding a timeout.
LEMMA AddKeeps ==
  ASSUME ClockTypes, ListInv, NEW p \in Cpus, NEW t \in Timeouts, NEW n \in Nat,
         NEW absolute \in BOOLEAN, z_add_timeout(p, t, n, absolute)
  PROVE  /\ ListInv' /\ Kept
         /\ With(timeout_list', timeout_list, FirstLater(n, absolute), t)
         /\ timeout_rem(t)' = TicksFromNow(n, absolute)
<1> DEFINE u == timeout_list
           s == timeout_list'
           k == FirstLater(n, absolute)
           x == Left(n, absolute, k - 1)
<1>1. k \in 1..(Len(u) + 1) /\ x \in Int
  BY SearchEnds
<1>2. /\ t \notin ToSet(u) /\ s = InsertAt(u, k, t)
      /\ dticks' = [v \in Timeouts |->
           IF v = t THEN x
           ELSE IF k <= Len(u) /\ v = u[k] THEN dticks[v] - x ELSE dticks[v]]
      /\ UNCHANGED curr_tick
  BY DEF z_add_timeout, announceVars
<1>3. u \in Seq(Timeouts) /\ Len(u) \in Nat /\ Distinct(u) /\ dticks \in [Timeouts -> Int]
  BY DEF ListInv
<1> HIDE DEF k, x
<1> HIDE DEF s, u
<1>4. s \in Seq(Timeouts) /\ Distinct(s) /\ With(s, u, k, t) /\ k \in 1..Len(s)
  <2>1. s \in Seq(Timeouts) /\ Distinct(s) /\ With(s, u, k, t)
    BY <1>1, <1>2, <1>3, Inserted
  <2> QED BY <2>1 DEF With
<1>5. dticks' \in [Timeouts -> Int]
  BY <1>1, <1>2, <1>3
<1>6. \A i \in 1..Len(u) : u[i] # t /\ u[i] \in Timeouts
  BY <1>2, <1>3, ListElements
<1>7. ListInv'
  BY <1>4, <1>5 DEF ListInv, s
<1>8. Shorter(u, dticks, s, dticks', k)
  <2>1. ASSUME NEW i \in 1..(k - 1) PROVE dticks[u[i]] = dticks'[s[i]]
    <3>1. u[i] # t /\ u[i] \in Timeouts /\ s[i] = u[i]
      BY <1>6, <1>4 DEF With
    <3>2. k <= Len(u) => u[i] # u[k]
      BY <1>1, <1>3, <1>4 DEF With, Distinct
    <3> QED BY <3>1, <3>2, <1>2
  <2>2. ASSUME k <= Len(u) PROVE dticks[u[k]] = dticks'[s[k]] + dticks'[s[k + 1]]
    <3>1. k \in k..Len(u) /\ k \in 1..Len(u)
      BY <2>2, <1>1, <1>3
    <3>2. s[k] = t /\ s[k + 1] = u[k] /\ u[k] # t /\ u[k] \in Timeouts
      BY <3>1, <1>6, <1>4 DEF With
    <3>3. dticks'[t] = x /\ dticks'[u[k]] = dticks[u[k]] - x /\ dticks[u[k]] \in Int
      BY <3>2, <2>2, <1>2, <1>3
    <3>4. dticks[u[k]] = x + (dticks[u[k]] - x)
      BY <3>3, <1>1
    <3> QED BY <3>2, <3>3, <3>4
  <2>3. ASSUME NEW i \in (k + 1)..Len(u) PROVE dticks[u[i]] = dticks'[s[i + 1]]
    <3>1. i \in k..Len(u) /\ i # k /\ k \in 1..Len(u)
      BY <1>1, <1>3
    <3>2. u[i] # t /\ u[i] \in Timeouts /\ s[i + 1] = u[i] /\ i \in 1..Len(u)
      BY <3>1, <1>6, <1>4 DEF With
    <3>3. u[i] # u[k]
      BY <3>1, <3>2, <1>3 DEF Distinct
    <3> QED BY <3>2, <3>3, <1>2
  <2> QED BY <1>4, <2>1, <2>2, <2>3 DEF With, Shorter
<1>9. ASSUME NEW v \in ToSet(u) PROVE timeout_rem(v)' = timeout_rem(v)
  <2>1. SameSum(u, dticks, s, dticks', v)
    BY <1>3, <1>4, <1>5, <1>8, PlacesKept
  <2> QED BY <2>1 DEF SameSum, timeout_rem, u, s
<1>10. Kept
  BY <1>2, <1>9 DEF Kept, z_timeout_expires, u
<1>11. timeout_rem(t)' = TicksFromNow(n, absolute)
  <2>1. SumsKept(u, dticks, s, dticks', k)
    BY <1>3, <1>4, <1>5, <1>8, SumsShorter
  <2>2. PICK j \in Nat : j = k - 1 /\ j \in 0..(k - 1) /\ j \in 0..Len(u)
    BY <1>1, <1>3
  <2>3. Sums(u, dticks)[j] = Sums(s, dticks')[j]
    BY <2>1, <2>2 DEF SumsKept
  <2>4. Sums(s, dticks')[k] = Sums(s, dticks')[k - 1] + dticks'[s[k]]
    BY <1>4, <1>5, SumsProperties
  <2>5. s[k] = t /\ dticks'[t] = x
    BY <1>2, <1>4 DEF With
  <2>6. PICK y \in Int : y = Sums(u, dticks)[j]
    BY <2>2, <1>3, SumsProperties
  <2>7. PICK z \in Int : z = TicksFromNow(n, absolute)
    BY TicksFromNowInt
  <2>8. x = z - y
    BY <2>2, <2>6, <2>7 DEF x, Left, u
  <2>9. Sums(s, dticks')[k] = y + (z - y)
    BY <2>2, <2>3, <2>4, <2>5, <2>6, <2>8
  <2>10. Place(s, t) = k
    BY <2>5, <1>4, PlaceOf
  <2> QED BY <2>7, <2>9, <2>10 DEF timeout_rem, s
<1> QED BY <1>4, <1>7, <1>10, <1>11 DEF s, u, k

\* Aborting a timeout.
LEMMA AbortKeeps ==
  ASSUME ClockTypes, ListInv, NEW p \in Cpus, NEW t \in Timeouts, z_abort_timeout(p, t)
  PROVE  ListInv' /\ Kept
<1> DEFINE u == timeout_list'
           s == timeout_list
           k == Place(s, t)
<1>1. /\ t \in ToSet(s) /\ u = RemoveFirst(s, t)
      /\ dticks' = IF k < Len(s)
                     THEN [dticks EXCEPT ![s[k + 1]] = @ + dticks[t], ![t] = 0]
                     ELSE [dticks EXCEPT ![t] = 0]
      /\ UNCHANGED curr_tick
  BY DEF z_abort_timeout, remove_timeout, announceVars
<1>2. s \in Seq(Timeouts) /\ Len(s) \in Nat /\ Distinct(s) /\ dticks \in [Timeouts -> Int]
  BY DEF ListInv
<1> HIDE DEF s, u
<1>3. u \in Seq(Timeouts) /\ Distinct(u) /\ k \in 1..Len(s) /\ With(s, u, k, t)
  BY <1>1, <1>2, Removed
<1> HIDE DEF k
<1>4. /\ Len(s) = Len(u) + 1 /\ s[k] = t
      /\ \A i \in 1..(k - 1) : i \in 1..Len(s) /\ i \in 1..Len(u) /\ s[i] = u[i]
      /\ \A i \in k..Len(u) : i \in 1..Len(u) /\ i + 1 \in 1..Len(s) /\ s[i + 1] = u[i]
  BY <1>3 DEF With
<1>5. ASSUME k < Len(s) PROVE s[k + 1] \in Timeouts /\ s[k + 1] # t /\ k + 1 \in 1..Len(s)
  <2>1. PICK h \in 1..Len(s) : h = k + 1
    BY <1>2, <1>3, <1>5
  <2>2. h # k
    BY <2>1
  <2> QED BY <2>1, <2>2, <1>2, <1>3, <1>4 DEF Distinct
<1>6. dticks' \in [Timeouts -> Int]
  <2>1. CASE k < Len(s)
    BY <2>1, <1>1, <1>2, <1>5
  <2>2. CASE ~(k < Len(s))
    BY <2>2, <1>1, <1>2
  <2> QED BY <2>1, <2>2
<1>7. ListInv'
  BY <1>3, <1>6 DEF ListInv, u
<1>8. ASSUME NEW i \in 1..Len(s), i # k, i # k + 1
      PROVE  dticks'[s[i]] = dticks[s[i]]
  <2>1. s[i] # t /\ s[i] \in Timeouts
    BY <1>2, <1>3, <1>4, <1>8 DEF Distinct
  <2>2. k < Len(s) => s[i] # s[k + 1]
    BY <1>2, <1>5, <1>8 DEF Distinct
  <2> QED BY <2>1, <2>2, <1>1, <1>2
<1>9. Shorter(u, dticks', s, dticks, k)
  <2>1. ASSUME NEW i \in 1..(k - 1) PROVE dticks'[u[i]] = dticks[s[i]]
    <3>1. i \in 1..Len(s) /\ s[i] = u[i] /\ i # k /\ i # k + 1
      BY <1>2, <1>3, <1>4
    <3> QED BY <3>1, <1>8
  <2>2. ASSUME k <= Len(u) PROVE dticks'[u[k]] = dticks[s[k]] + dticks[s[k + 1]]
    <3>1. k < Len(s) /\ k \in k..Len(u)
      BY <2>2, <1>2, <1>3, <1>4
    <3>2. u[k] = s[k + 1] /\ s[k + 1] \in Timeouts /\ s[k + 1] # t
      BY <3>1, <1>4, <1>5
    <3>3. dticks'[s[k + 1]] = dticks[s[k + 1]] + dticks[t]
      BY <3>1, <3>2, <1>1, <1>2
    <3>4. dticks[s[k + 1]] \in Int /\ dticks[t] \in Int
      BY <3>2, <1>2
    <3> QED BY <3>2, <3>3, <3>4, <1>4
  <2>3. ASSUME NEW i \in (k + 1)..Len(u) PROVE dticks'[u[i]] = dticks[s[i + 1]]
    <3>1. i + 1 \in 1..Len(s) /\ s[i + 1] = u[i] /\ i + 1 # k /\ i + 1 # k + 1
      BY <1>2, <1>3, <1>4
    <3>2. PICK h \in 1..Len(s) : h = i + 1 /\ s[h] = u[i] /\ h # k /\ h # k + 1
      BY <3>1
    <3> QED BY <3>2, <1>8
  <2> QED BY <1>4, <2>1, <2>2, <2>3 DEF Shorter
<1>10. ASSUME NEW v \in ToSet(u) PROVE timeout_rem(v)' = timeout_rem(v)
  <2>1. SameSum(u, dticks', s, dticks, v)
    BY <1>2, <1>3, <1>6, <1>9, PlacesKept
  <2> QED BY <2>1 DEF SameSum, timeout_rem, u, s
<1>11. Kept
  BY <1>1, <1>10 DEF Kept, z_timeout_expires, u
<1> QED BY <1>7, <1>11

\* Handling the first timeout.
LEMMA FirstKeeps ==
  ASSUME ClockTypes, ListInv, NEW p \in Cpus, NEW rem \in Int, HandleFirst(p, rem)
  PROVE  /\ ListInv' /\ Kept
         /\ Head(timeout_list) \in Timeouts /\ dticks[Head(timeout_list)] \in Int
<1> DEFINE s == timeout_list
           u == timeout_list'
           t == Head(s)
<1>1. /\ s # <<>> /\ u = Tail(s) /\ dticks' = [dticks EXCEPT ![t] = 0]
      /\ curr_tick' = curr_tick + dticks[t]
  BY DEF HandleFirst, Overdue
<1>2. /\ s \in Seq(Timeouts) /\ Len(s) \in Nat /\ Distinct(s) /\ dticks \in [Timeouts -> Int]
      /\ curr_tick \in Int
  BY DEF ListInv, ClockTypes
<1> HIDE DEF s, u
<1>3. u \in Seq(Timeouts) /\ Distinct(u) /\ t \in Timeouts
  BY <1>1, <1>2, TailList
<1>4. /\ Len(s) = Len(u) + 1 /\ t = s[1] /\ Len(u) \in Nat
      /\ \A i \in 1..Len(u) : i + 1 \in 1..Len(s) /\ u[i] = s[i + 1]
  BY <1>1, <1>2
<1>5. PICK x \in Int : x = dticks[t]
  BY <1>2, <1>3
<1>6. dticks' \in [Timeouts -> Int]
  BY <1>1, <1>2, <1>3
<1>7. ListInv'
  BY <1>3, <1>6 DEF ListInv, u
<1>8. \A i \in 1..Len(u) : u[i] # t /\ u[i] \in Timeouts
  <2> TAKE i \in 1..Len(u)
  <2>1. PICK h \in 1..Len(s) : h = i + 1 /\ h # 1 /\ u[i] = s[h]
    BY <1>4
  <2>2. 1 \in 1..Len(s)
    BY <1>4
  <2> QED BY <2>1, <2>2, <1>2, <1>4 DEF Distinct
<1>9. PICK z \in Nat, c \in Int : z = 0 /\ c = 0 - x
  OBVIOUS
<1>10. Apart(u, dticks', z, s, dticks, z + 1, c)
  <2>1. Sums(u, dticks')[0] = 0
    BY <1>3, <1>6, SumsProperties
  <2>2. Sums(s, dticks)[0] = 0 /\ \A i \in 1..Len(s) : Sums(s, dticks)[i] = Sums(s, dticks)[i - 1] + dticks[s[i]]
    BY <1>2, SumsProperties
  <2>3. 1 \in 1..Len(s) /\ 1 - 1 = 0
    BY <1>4
  <2>4. Sums(s, dticks)[1] = 0 + x
    BY <2>2, <2>3, <1>4, <1>5
  <2> QED BY <2>1, <2>4, <1>9 DEF Apart
<1>11. ASSUME NEW v \in ToSet(u)
       PROVE  timeout_rem(v)' = timeout_rem(v) + c /\ timeout_rem(v) \in Int
  <2>1. PICK i \in 1..Len(u) : u[i] = v
    BY <1>3, ListElements
  <2>2. PICK h \in 1..Len(s) : h = i + 1 /\ s[h] = v
    BY <2>1, <1>4
  <2>3. Place(u, v) = i /\ Place(s, v) = h
    BY <2>1, <2>2, <1>2, <1>3, PlaceOf
  <2>4. i \in Nat /\ z <= i /\ i <= Len(u) /\ i + 1 <= Len(s)
    BY <1>4, <1>9
  <2>5. ASSUME NEW j \in (z + 1)..i PROVE dticks'[u[j]] = dticks[s[j + 1]]
    <3>1. j \in 1..Len(u)
      BY <2>4, <1>4, <1>9
    <3> QED BY <3>1, <1>1, <1>2, <1>4, <1>8
  <2>6. Apart(u, dticks', i, s, dticks, i + 1, c)
    BY <2>4, <2>5, <1>2, <1>3, <1>6, <1>10, SumsNext
  <2>7. h \in 0..Len(s)
    BY <1>4
  <2>8. Sums(s, dticks)[h] \in Int
    BY <2>7, <1>2, SumsProperties
  <2>9. Sums(u, dticks')[i] = Sums(s, dticks)[h] + c
    BY <2>2, <2>6 DEF Apart
  <2> QED BY <2>3, <2>8, <2>9 DEF timeout_rem, s, u
<1>12. Kept
  <2> SUFFICES ASSUME NEW v \in ToSet(u)
               PROVE  z_timeout_expires(v)' = z_timeout_expires(v)
    BY DEF Kept, u
  <2>1. PICK r \in Int : r = timeout_rem(v) /\ timeout_rem(v)' = r + c
    BY <1>11
  <2>2. curr_tick' = curr_tick + x
    BY <1>1, <1>5
  <2>3. (curr_tick + x) + (r + c) = curr_tick + r
    BY <1>2, <1>9
  <2> QED BY <2>1, <2>2, <2>3 DEF z_timeout_expires
<1> QED BY <1>3, <1>5, <1>7, <1>12 DEF s

\* The end of an announcement.
LEMMA RestKeeps ==
  ASSUME ClockTypes, ListInv, NEW p \in Cpus, NEW rem \in Int, HandleRest(p, rem)
  PROVE  ListInv' /\ Kept
<1> DEFINE s == timeout_list
           t == Head(s)
<1>1. /\ UNCHANGED timeout_list
      /\ dticks' = IF s = <<>> THEN dticks ELSE [dticks EXCEPT ![t] = @ - rem]
      /\ curr_tick' = curr_tick + rem
  BY DEF HandleRest, RestDelta, RestTick
<1>2. /\ s \in Seq(Timeouts) /\ Len(s) \in Nat /\ Distinct(s) /\ dticks \in [Timeouts -> Int]
      /\ curr_tick \in Int
  BY DEF ListInv, ClockTypes
<1>3. s # <<>> => t = s[1] /\ 1 \in 1..Len(s) /\ t \in Timeouts
  BY <1>2
<1> HIDE DEF s
<1>4. dticks' \in [Timeouts -> Int]
  <2>1. CASE s = <<>>
    BY <2>1, <1>1, <1>2
  <2>2. CASE s # <<>>
    BY <2>2, <1>1, <1>2, <1>3
  <2> QED BY <2>1, <2>2
<1>5. ListInv'
  BY <1>1, <1>2, <1>4 DEF ListInv, s
<1>6. PICK o \in Nat, c \in Int : o = 1 /\ c = 0 - rem
  OBVIOUS
<1>7. ASSUME NEW v \in ToSet(s)
      PROVE  timeout_rem(v)' = timeout_rem(v) + c /\ timeout_rem(v) \in Int
  <2>1. PICK i \in 1..Len(s) : s[i] = v
    BY <1>2, ListElements
  <2>2. s # <<>> /\ t = s[1] /\ 1 \in 1..Len(s) /\ t \in Timeouts
    <3>1. 1 \in 1..Len(s)
      BY <1>2
    <3> QED BY <3>1, <1>2, <1>3
  <2>3. Place(s, v) = i
    BY <2>1, <1>2, PlaceOf
  <2>4. Apart(s, dticks', o, s, dticks, o, c)
    <3>1. Sums(s, dticks)[0] = 0 /\ Sums(s, dticks')[0] = 0
      BY <1>2, <1>4, SumsProperties
    <3>2. /\ Sums(s, dticks)[1] = Sums(s, dticks)[1 - 1] + dticks[s[1]]
          /\ Sums(s, dticks')[1] = Sums(s, dticks')[1 - 1] + dticks'[s[1]]
      BY <2>2, <1>2, <1>4, SumsProperties
    <3>3. PICK x \in Int : x = dticks[s[1]]
      BY <2>2, <1>2
    <3>4. dticks'[s[1]] = x - rem
      BY <2>2, <3>3, <1>1, <1>2
    <3>5. Sums(s, dticks)[1] = 0 + x /\ Sums(s, dticks')[1] = 0 + (x - rem)
      BY <3>1, <3>2, <3>3, <3>4
    <3>6. 0 + (x - rem) = (0 + x) + c
      BY <1>6
    <3> QED BY <3>5, <3>6, <1>6 DEF Apart
  <2>5. i \in Nat /\ o <= i /\ i <= Len(s)
    BY <1>2, <1>6
  <2>6. ASSUME NEW j \in (o + 1)..i PROVE dticks'[s[j]] = dticks[s[j]]
    <3>1. j \in 1..Len(s) /\ j # 1
      BY <2>5, <1>2, <1>6
    <3>2. s[j] # t /\ s[j] \in Timeouts
      BY <3>1, <2>2, <1>2 DEF Distinct
    <3> QED BY <3>2, <2>2, <1>1, <1>2
  <2>7. Apart(s, dticks', i, s, dticks, i, c)
    BY <2>4, <2>5, <2>6, <1>2, <1>4, SumsSame
  <2>8. i \in 0..Len(s)
    BY <1>2
  <2>9. Sums(s, dticks)[i] \in Int
    BY <2>8, <1>2, SumsProperties
  <2> QED BY <2>3, <2>7, <2>9, <1>1 DEF Apart, timeout_rem, s
<1>8. Kept
  <2> SUFFICES ASSUME NEW v \in ToSet(s)
               PROVE  z_timeout_expires(v)' = z_timeout_expires(v)
    BY DEF Kept, s
  <2>1. PICK r \in Int : r = timeout_rem(v) /\ timeout_rem(v)' = r + c
    BY <1>7
  <2>2. (curr_tick + rem) + (r + c) = curr_tick + r
    BY <1>2, <1>6
  <2> QED BY <2>1, <2>2, <1>1 DEF z_timeout_expires
<1> QED BY <1>5, <1>8

\* What timer_isr, an announcement or the return of a callback does to the list.
LEMMA InterruptKeeps ==
  ASSUME ClockTypes, ListInv, NEW p \in Cpus, Interrupt(p)
  PROVE  ListInv' /\ Kept
<1>1. arg[p] \in Int /\ announce_remaining - arg[p] \in Int
  BY DEF ClockTypes
<1>2. CASE timer_isr(p)
  BY <1>2 DEF timer_isr, listVars, ListInv, Kept, z_timeout_expires, timeout_rem
<1>3. CASE sys_clock_announce(p)
  <2>1. CASE LeaveTicks(p)
    BY <2>1 DEF LeaveTicks, listVars, ListInv, Kept, z_timeout_expires, timeout_rem
  <2>2. CASE HandleFirst(p, arg[p]) \/ HandleRest(p, arg[p])
    BY <1>1, <2>2, FirstKeeps, RestKeeps
  <2> QED BY <1>3, <2>1, <2>2 DEF sys_clock_announce
<1>4. CASE CallbackDone(p)
  BY <1>1, <1>4, FirstKeeps, RestKeeps DEF CallbackDone
<1> QED BY <1>2, <1>3, <1>4 DEF Interrupt

\* Every step keeps the list in order, and the deadlines.
LEMMA NextKeeps ==
  ASSUME ClockTypes, ListInv, [Next]_vars
  PROVE  ListInv' /\ Kept
<1>1. ASSUME UNCHANGED <<listVars, curr_tick>> PROVE ListInv' /\ Kept
  BY <1>1 DEF listVars, ListInv, Kept, z_timeout_expires, timeout_rem
<1>2. CASE Tick /\ UNCHANGED <<listVars, announceVars>>
  BY <1>1, <1>2 DEF announceVars
<1>3. ASSUME NEW p \in Cpus, Interrupt(p) PROVE ListInv' /\ Kept
  BY <1>3, InterruptKeeps
<1>4. ASSUME NEW p \in Cpus, sys_clock_tick_get(p) PROVE ListInv' /\ Kept
  BY <1>1, <1>4 DEF sys_clock_tick_get, announceVars
<1>5. ASSUME NEW p \in Cpus, NEW t \in Timeouts, NEW n \in Delays \cup Dates,
             NEW absolute \in BOOLEAN, z_add_timeout(p, t, n, absolute)
      PROVE  ListInv' /\ Kept
  BY <1>5, TimeoutQueueAssumption, AddKeeps
<1>6. ASSUME NEW p \in Cpus, NEW t \in Timeouts, z_abort_timeout(p, t)
      PROVE  ListInv' /\ Kept
  BY <1>6, AbortKeeps
<1>7. CASE UNCHANGED vars
  BY <1>1, <1>7 DEF vars, announceVars
<1> QED BY <1>2, <1>3, <1>4, <1>5, <1>6, <1>7 DEF Next

\* What sys_clock_announce does with its own variables, on CPU p with rem ticks.
LEMMA HandleTypes ==
  ASSUME ClockTypes, ListInv, NEW p \in Cpus, NEW rem \in Int,
         HandleFirst(p, rem) \/ HandleRest(p, rem)
  PROVE  ClockTypes'
<1>1. CASE HandleFirst(p, rem)
  <2>1. dticks[Head(timeout_list)] \in Int
    BY <1>1, FirstKeeps
  <2> QED BY <1>1, <2>1 DEF HandleFirst, timerVars, ClockTypes
<1>2. CASE HandleRest(p, rem)
  <2>1. TicksSince(mtime) \in Nat
    BY TicksSinceNat DEF ClockTypes
  <2> QED BY <1>2, <2>1 DEF HandleRest, RestTick, ClockTypes
<1> QED BY <1>1, <1>2

\* Every step keeps the types.
LEMMA NextTypes ==
  ASSUME ClockTypes, ListInv, [Next]_vars
  PROVE  ClockTypes'
<1>1. TicksSince(mtime) \in Nat
  BY TicksSinceNat DEF ClockTypes
<1>2. CASE Tick /\ UNCHANGED <<listVars, announceVars>>
  BY <1>2 DEF Tick, announceVars, ClockTypes
<1>3. ASSUME NEW p \in Cpus, Interrupt(p) PROVE ClockTypes'
  <2>1. arg[p] \in Int /\ announce_remaining - arg[p] \in Int
    BY DEF ClockTypes
  <2>2. CASE timer_isr(p)
    BY <1>1, <2>2, MachineTimerAssumption DEF timer_isr, timer_isr_locked, ClockTypes
  <2>3. CASE sys_clock_announce(p)
    <3>1. CASE LeaveTicks(p)
      BY <3>1 DEF LeaveTicks, Joined, timerVars, ClockTypes
    <3> QED BY <2>1, <2>3, <3>1, HandleTypes DEF sys_clock_announce
  <2>4. CASE CallbackDone(p)
    BY <2>1, <2>4, HandleTypes DEF CallbackDone
  <2> QED BY <1>3, <2>2, <2>3, <2>4 DEF Interrupt
<1>4. ASSUME NEW p \in Cpus, sys_clock_tick_get(p) PROVE ClockTypes'
  BY <1>1, <1>4 DEF sys_clock_tick_get, NoteElapsed, announceVars, ClockTypes
<1>5. ASSUME NEW p \in Cpus, NEW t \in Timeouts, NEW n, NEW absolute \in BOOLEAN,
             z_add_timeout(p, t, n, absolute)
      PROVE  ClockTypes'
  <2>1. /\ UNCHANGED <<last_count, last_ticks, announceVars>>
        /\ \/ \E later \in mtime .. mtime + Skew : mtime' = later /\ NoteElapsed(later)
           \/ UNCHANGED <<mtime, last_elapsed>>
           \/ NoteElapsed(mtime) /\ UNCHANGED mtime
    BY <1>5 DEF z_add_timeout
  <2>2. \A later \in Int : TicksSince(later) \in Nat
    BY TicksSinceNat
  <2> QED BY <1>1, <2>1, <2>2 DEF NoteElapsed, announceVars, ClockTypes
<1>6. ASSUME NEW p \in Cpus, NEW t \in Timeouts, z_abort_timeout(p, t) PROVE ClockTypes'
  BY <1>1, <1>6 DEF z_abort_timeout, NoteElapsed, announceVars, ClockTypes
<1>7. CASE UNCHANGED vars
  BY <1>7 DEF vars, timerVars, announceVars, ClockTypes
<1> QED BY <1>2, <1>3, <1>4, <1>5, <1>6, <1>7 DEF Next

LEMMA InitTypes == Init => ClockTypes /\ ListInv
<1> SUFFICES ASSUME Init PROVE ClockTypes /\ ListInv
  OBVIOUS
<1>1. boot \in Int
  BY MachineTimerAssumption DEF boot
<1>2. ListInv
  BY EmptyList DEF Init, ListInv
<1> QED BY <1>1, <1>2, MachineTimerAssumption DEF Init, sys_clock_driver_init, ClockTypes

\* The types, and that no timeout is twice on the list.
THEOREM TimeoutTypes == Spec => [](ClockTypes /\ ListInv)
<1>1. ClockTypes /\ ListInv /\ [Next]_vars => (ClockTypes /\ ListInv)'
  BY NextTypes, NextKeeps
<1> QED BY <1>1, InitTypes, PTL DEF Spec

\* timeout.c: whatever is added, aborted or handled, on however many CPUs, the
\* list of differences keeps the deadline of every timeout that is on it.
THEOREM DeadlinesStay == Spec => DeadlinesFixed
<1>1. ClockTypes /\ ListInv /\ [Next]_vars =>
        [\A t \in ToSet(timeout_list) \cap ToSet(timeout_list') :
           z_timeout_expires(t)' = z_timeout_expires(t)]_vars
  BY NextKeeps DEF Kept
<1> QED BY <1>1, TimeoutTypes, PTL DEF Spec, DeadlinesFixed
-----------------------------------------------------------------------------
(* The ticks that are announced *)

\* Ticks that a CPU has counted and not handed over yet (in timer_isr), or
\* handled and not yet taken from announce_remaining (in a callback).
InTransit ==
  [p \in Cpus |-> CASE at[p] = "isr" -> arg[p] [] at[p] = "fn" -> -arg[p]
                    [] OTHER -> 0]

\* Ticks handled, to be handled and in transit are the driver's.
TicksInv ==
  /\ announce_remaining # 0 => \E p \in Cpus : at[p] = "fn"
  /\ curr_tick + announce_remaining + Total(InTransit) = last_ticks - boot

\* What the CPUs other than p have in transit, with what p goes on with.
Balanced(p, rem) ==
  curr_tick + rem + (Total(InTransit) - InTransit[p]) = last_ticks - boot

LEMMA InTransitType == ClockTypes => InTransit \in [Cpus -> Int]
<1> SUFFICES ASSUME ClockTypes, NEW p \in Cpus
             PROVE  (CASE at[p] = "isr" -> arg[p] [] at[p] = "fn" -> -arg[p]
                       [] OTHER -> 0) \in Int
  BY DEF InTransit
<1>1. arg[p] \in Int
  BY DEF ClockTypes
<1> QED BY <1>1

LEMMA TransitInt ==
  ASSUME ClockTypes, NEW p \in Cpus
  PROVE  Total(InTransit) \in Int /\ InTransit[p] \in Int
<1>1. PICK f \in [Cpus -> Int] : f = InTransit
  BY InTransitType
<1> QED BY <1>1, TotalChange

\* A step of p changes the total by what p has in transit.
LEMMA TransitChange ==
  ASSUME ClockTypes, ClockTypes', NEW p \in Cpus,
         \A r \in Cpus \ {p} : at'[r] = at[r] /\ arg'[r] = arg[r]
  PROVE  /\ Total(InTransit) \in Int /\ InTransit[p] \in Int /\ InTransit'[p] \in Int
         /\ Total(InTransit)' = Total(InTransit) + (InTransit'[p] - InTransit[p])
<1>1. InTransit \in [Cpus -> Int] /\ InTransit' \in [Cpus -> Int]
  BY InTransitType DEF InTransit, ClockTypes
<1>2. \A r \in Cpus \ {p} : InTransit'[r] = InTransit[r]
  BY DEF InTransit
<1>3. PICK f \in [Cpus -> Int], g \in [Cpus -> Int] : f = InTransit /\ g = InTransit'
  BY <1>1
<1>4. Total(f) \in Int /\ Total(g) = Total(f) + (g[p] - f[p])
  BY <1>2, <1>3, TotalChange
<1>5. Total(InTransit)' = Total(InTransit')
  BY DEF Total
<1> QED BY <1>1, <1>3, <1>4, <1>5

LEMMA HandleTicks ==
  ASSUME ClockTypes, ClockTypes', ListInv, NEW p \in Cpus, NEW rem \in Int, Balanced(p, rem),
         HandleFirst(p, rem) \/ HandleRest(p, rem)
  PROVE  TicksInv'
<1>1. \A r \in Cpus \ {p} : at'[r] = at[r] /\ arg'[r] = arg[r]
  BY DEF HandleFirst, HandleRest, ClockTypes
<1>2. /\ Total(InTransit) \in Int /\ InTransit[p] \in Int /\ InTransit'[p] \in Int
      /\ Total(InTransit)' = Total(InTransit) + (InTransit'[p] - InTransit[p])
  BY <1>1, TransitChange
<1>3. UNCHANGED last_ticks /\ boot \in Int /\ boot' = boot
  BY MachineTimerAssumption DEF HandleFirst, HandleRest, timerVars, boot
<1>4. CASE HandleFirst(p, rem)
  <2>1. PICK d \in Int : d = dticks[Head(timeout_list)]
    BY <1>4, FirstKeeps
  <2>2. /\ curr_tick' = curr_tick + d /\ announce_remaining' = rem
        /\ at'[p] = "fn" /\ arg'[p] = d
    BY <1>4, <2>1 DEF HandleFirst, ClockTypes
  <2>3. InTransit'[p] = -d
    BY <2>2 DEF InTransit
  <2>4. curr_tick \in Int /\ last_ticks \in Int
    BY DEF ClockTypes
  <2> QED BY <1>2, <1>3, <2>2, <2>3, <2>4 DEF TicksInv, Balanced
<1>5. CASE HandleRest(p, rem)
  <2>1. /\ curr_tick' = curr_tick + rem /\ announce_remaining' = 0 /\ at'[p] = "thread"
    BY <1>5 DEF HandleRest, RestTick, ClockTypes
  <2>2. InTransit'[p] = 0
    BY <2>1 DEF InTransit
  <2>3. curr_tick \in Int /\ last_ticks \in Int
    BY DEF ClockTypes
  <2> QED BY <1>2, <1>3, <2>1, <2>2, <2>3 DEF TicksInv, Balanced
<1> QED BY <1>4, <1>5

\* With one CPU nobody else is in a callback.
LEMMA AloneOnOneCpu ==
  ASSUME ~SMP, NEW p \in Cpus, NEW q \in Cpus
  PROVE  p = q
<1>1. PICK i \in 1..Len(CpuList), j \in 1..Len(CpuList) : CpuList[i] = p /\ CpuList[j] = q
  BY CpusListed
<1>2. Len(CpuList) <= 1 /\ Len(CpuList) \in Nat
  BY CpusListed DEF SMP
<1> QED BY <1>1, <1>2

\* What an announcement has to handle, when it begins or when it goes on after a
\* callback.
LEMMA GoesOn ==
  ASSUME ClockTypes, TicksInv, NEW p \in Cpus,
         (sys_clock_announce(p) /\ ~LeaveTicks(p)) \/ CallbackDone(p)
  PROVE  \E rem \in Int : Balanced(p, rem) /\ (HandleFirst(p, rem) \/ HandleRest(p, rem))
<1>1. /\ curr_tick \in Int /\ announce_remaining \in Int /\ last_ticks \in Int
      /\ arg[p] \in Int /\ boot \in Int
  BY MachineTimerAssumption DEF ClockTypes, boot
<1>2. Total(InTransit) \in Int /\ InTransit[p] \in Int
  BY TransitInt
<1>3. CASE sys_clock_announce(p) /\ ~LeaveTicks(p)
  <2>1. /\ at[p] = "isr" /\ ~(SMP /\ announce_remaining # 0)
        /\ HandleFirst(p, arg[p]) \/ HandleRest(p, arg[p])
    BY <1>3 DEF sys_clock_announce
  <2>2. announce_remaining = 0
    <3>1. CASE ~SMP
      BY <2>1, <3>1, AloneOnOneCpu DEF TicksInv
    <3> QED BY <2>1, <3>1
  <2>3. InTransit[p] = arg[p]
    BY <2>1 DEF InTransit
  <2>4. Balanced(p, arg[p])
    BY <1>1, <1>2, <2>2, <2>3 DEF Balanced, TicksInv
  <2> QED BY <1>1, <2>1, <2>4
<1>4. CASE CallbackDone(p)
  <2>1. PICK rem \in Int : rem = announce_remaining - arg[p]
    BY <1>1
  <2>2. at[p] = "fn" /\ (HandleFirst(p, rem) \/ HandleRest(p, rem))
    BY <1>4, <2>1 DEF CallbackDone
  <2>3. InTransit[p] = -arg[p]
    BY <2>2 DEF InTransit
  <2>4. Balanced(p, rem)
    BY <1>1, <1>2, <2>1, <2>3 DEF Balanced, TicksInv
  <2> QED BY <2>2, <2>4
<1> QED BY <1>3, <1>4

LEMMA InterruptTicks ==
  ASSUME ClockTypes, ClockTypes', ListInv, TicksInv, NEW p \in Cpus, Interrupt(p)
  PROVE  TicksInv'
<1>1. /\ curr_tick \in Int /\ announce_remaining \in Int /\ last_ticks \in Int
      /\ arg[p] \in Int /\ boot \in Int /\ boot' = boot
  BY MachineTimerAssumption DEF ClockTypes, boot
<1>2. Total(InTransit) \in Int /\ InTransit[p] \in Int
  BY TransitInt
<1>3. CASE timer_isr(p)
  <2>1. PICK n \in Nat : n = TicksSince(mtime)
    BY TicksSinceNat DEF ClockTypes
  <2>2. /\ at[p] = "thread" /\ at' = [at EXCEPT ![p] = "isr"]
        /\ arg' = [arg EXCEPT ![p] = n]
        /\ last_ticks' = last_ticks + n /\ UNCHANGED <<curr_tick, announce_remaining>>
    BY <1>3, <2>1 DEF timer_isr, timer_isr_locked
  <2>3. \A r \in Cpus \ {p} : at'[r] = at[r] /\ arg'[r] = arg[r]
    BY <2>2 DEF ClockTypes
  <2>4. Total(InTransit)' = Total(InTransit) + (InTransit'[p] - InTransit[p])
    BY <2>3, TransitChange
  <2>5. InTransit[p] = 0 /\ InTransit'[p] = n
    BY <2>2 DEF InTransit, ClockTypes
  <2>6. announce_remaining' # 0 => \E q \in Cpus : at'[q] = "fn"
    BY <2>2, <2>3 DEF TicksInv
  <2> QED BY <1>1, <1>2, <2>2, <2>4, <2>5, <2>6 DEF TicksInv
<1>4. CASE sys_clock_announce(p) /\ LeaveTicks(p)
  <2>1. /\ at[p] = "isr" /\ at' = [at EXCEPT ![p] = "thread"]
        /\ arg' = [arg EXCEPT ![p] = 0] /\ announce_remaining # 0
        /\ announce_remaining' = announce_remaining + arg[p]
        /\ UNCHANGED <<curr_tick, last_ticks>>
    BY <1>4 DEF sys_clock_announce, LeaveTicks, Joined, timerVars
  <2>2. \A r \in Cpus \ {p} : at'[r] = at[r] /\ arg'[r] = arg[r]
    BY <2>1 DEF ClockTypes
  <2>3. Total(InTransit)' = Total(InTransit) + (InTransit'[p] - InTransit[p])
    BY <2>2, TransitChange
  <2>4. InTransit[p] = arg[p] /\ InTransit'[p] = 0
    BY <2>1 DEF InTransit, ClockTypes
  <2>5. \E q \in Cpus : at'[q] = "fn"
    BY <2>1, <2>2 DEF TicksInv
  <2> QED BY <1>1, <1>2, <2>1, <2>3, <2>4, <2>5 DEF TicksInv
<1>5. CASE (sys_clock_announce(p) /\ ~LeaveTicks(p)) \/ CallbackDone(p)
  BY <1>5, GoesOn, HandleTicks
<1> QED BY <1>3, <1>4, <1>5 DEF Interrupt

\* Nothing but an interrupt moves ticks.
LEMMA OthersLeaveTicks ==
  ASSUME [Next]_vars, \A p \in Cpus : ~Interrupt(p)
  PROVE  UNCHANGED <<announceVars, last_count, last_ticks>>
<1>1. CASE Tick /\ UNCHANGED <<listVars, announceVars>>
  BY <1>1 DEF Tick
<1>2. ASSUME NEW p \in Cpus, sys_clock_tick_get(p)
      PROVE  UNCHANGED <<announceVars, last_count, last_ticks>>
  BY <1>2 DEF sys_clock_tick_get
<1>3. ASSUME NEW p \in Cpus, NEW t \in Timeouts, NEW n, NEW absolute,
             z_add_timeout(p, t, n, absolute)
      PROVE  UNCHANGED <<announceVars, last_count, last_ticks>>
  BY <1>3 DEF z_add_timeout
<1>4. ASSUME NEW p \in Cpus, NEW t \in Timeouts, z_abort_timeout(p, t)
      PROVE  UNCHANGED <<announceVars, last_count, last_ticks>>
  BY <1>4 DEF z_abort_timeout
<1>5. CASE UNCHANGED vars
  BY <1>5 DEF vars, timerVars
<1> QED BY <1>1, <1>2, <1>3, <1>4, <1>5 DEF Next

LEMMA NextTicks ==
  ASSUME ClockTypes, ListInv, TicksInv, [Next]_vars
  PROVE  TicksInv'
<1>1. ClockTypes'
  BY NextTypes
<1>2. CASE \E p \in Cpus : Interrupt(p)
  BY <1>1, <1>2, InterruptTicks
<1>3. CASE \A p \in Cpus : ~Interrupt(p)
  BY <1>3, OthersLeaveTicks DEF announceVars, TicksInv, InTransit, Total, boot
<1> QED BY <1>2, <1>3

\* Outside an interrupt nothing is in transit.
LEMMA QuietTicks ==
  ASSUME ClockTypes, TicksInv
  PROVE  NoTickLost
<1> SUFFICES ASSUME Quiet PROVE curr_tick = last_ticks - boot /\ announce_remaining = 0
  BY DEF NoTickLost
<1>1. announce_remaining = 0
  BY DEF TicksInv, Quiet
<1>2. PICK f \in [Cpus -> Int] : f = InTransit
  BY InTransitType
<1>3. \A p \in Cpus : f[p] = 0
  BY <1>2 DEF InTransit, Quiet
<1>4. Total(InTransit) = 0
  BY <1>2, <1>3, TotalZero
<1> QED BY <1>1, <1>4 DEF TicksInv, ClockTypes

LEMMA InitTicks == Init => TicksInv
<1> SUFFICES ASSUME Init PROVE TicksInv
  OBVIOUS
<1>1. /\ curr_tick = 0 /\ announce_remaining = 0 /\ last_ticks = boot /\ boot \in Int
      /\ Quiet
  BY MachineTimerAssumption DEF Init, sys_clock_driver_init, boot, Quiet
<1>2. PICK f \in [Cpus -> Int] : f = InTransit
  BY InitTypes, InTransitType
<1>3. \A p \in Cpus : f[p] = 0
  BY <1>1, <1>2 DEF InTransit, Quiet
<1>4. Total(InTransit) = 0
  BY <1>2, <1>3, TotalZero
<1> QED BY <1>1, <1>4 DEF TicksInv

\* sys_clock_announce: with any number of CPUs that announce, leave their ticks
\* to another one or wait for a callback to return, no tick is lost or counted
\* twice.
THEOREM TicksConserved == Spec => []NoTickLost
<1>1. TicksInv /\ ClockTypes /\ ListInv /\ [Next]_vars => TicksInv'
  BY NextTicks
<1>2. TicksInv /\ ClockTypes => NoTickLost
  BY QuietTicks
<1> QED BY <1>1, <1>2, InitTicks, TimeoutTypes, PTL DEF Spec
-----------------------------------------------------------------------------
(* The counter and the compare registers *)

\* The driver's choice of CYCLES_MAX: at least one tick, and what is left of
\* the range is enough for the latency of the interrupts.
RoomForLatency ==
  /\ CYCLES_MAX \in Nat /\ CYC_PER_TICK <= CYCLES_MAX
  /\ CYCLES_MAX + Latency <= CYCLES_MAX_3

\* Every compare register is in reach of the counter.
CompareInv ==
  /\ mtimecmp \in [Cpus -> Int]
  /\ \A p \in Cpus : mtimecmp[p] <= last_count + CYCLES_MAX

\* The driver's two counts agree, and are not ahead of the hardware.
CountInv == last_count = last_ticks * CYC_PER_TICK /\ last_count <= mtime

CycleInv == CompareInv /\ CountInv /\ NoOverflow

LEMMA RangeNat == CYCLES_MAX_3 \in Nat /\ CYCLES_MAX_3 <= 2^CYCLE_DIFF_W - 1
<1>1. PICK w \in Nat \ {0} : w = 2^CYCLE_DIFF_W
  BY MachineTimerAssumption
<1>2. PICK a \in Nat : a = INT32_MAX * CYC_PER_TICK
  BY MachineTimerAssumption
<1>3. CYCLES_MAX_3 = IF a < w - 1 THEN a ELSE w - 1
  BY <1>1, <1>2 DEF CYCLES_MAX_3, Lower
<1> QED BY <1>1, <1>2, <1>3

\* TicksSince never counts more cycles than have gone by, and all whole ticks of
\* them as long as the difference does not overflow.
LEMMA TicksSinceExact ==
  ASSUME ClockTypes, CountInv, NEW cycle \in Int, mtime <= cycle
  PROVE  /\ TicksSince(cycle) * CYC_PER_TICK <= cycle - last_count
         /\ cycle - last_count <= CYCLES_MAX_3
              => TicksSince(cycle) = cycle \div CYC_PER_TICK - last_ticks
<1>1. PICK w \in Nat \ {0} : w = 2^CYCLE_DIFF_W
  BY MachineTimerAssumption
<1>2. PICK c \in Nat \ {0} : c = CYC_PER_TICK
  BY MachineTimerAssumption
<1>3. PICK x \in Nat : x = cycle - last_count
  BY DEF ClockTypes, CountInv
<1>4. PICK y \in Nat : y = x % w
  OBVIOUS
<1>5. y <= x /\ (x < w => y = x)
  BY <1>4
<1>6. PICK k \in Nat : k = y \div c
  OBVIOUS
<1>7. TicksSince(cycle) = k
  BY <1>1, <1>2, <1>3, <1>4, <1>6 DEF TicksSince
<1>8. k * c <= y
  BY <1>6
<1>9. k * c <= x
  <2>1. PICK m \in Int : m = k * c
    OBVIOUS
  <2> QED BY <2>1, <1>5, <1>8
<1>10. ASSUME x <= CYCLES_MAX_3 PROVE k = cycle \div c - last_ticks
  <2>1. y = x
    BY <1>1, <1>5, <1>10, RangeNat
  <2>2. PICK l \in Int : l = last_ticks
    BY DEF ClockTypes
  <2>3. k = (cycle - l * c) \div c
    BY <1>2, <1>3, <1>6, <2>1, <2>2 DEF CountInv
  <2>4. (cycle - l * c) \div c = cycle \div c - l
    OBVIOUS
  <2> QED BY <2>2, <2>3, <2>4
<1> QED BY <1>2, <1>3, <1>7, <1>9, <1>10

\* The driver never programs a wait longer than CYCLES_MAX.
LEMMA SetTimeoutCapped ==
  ASSUME ClockTypes, CompareInv, RoomForLatency, UNCHANGED last_count,
         NEW p \in Cpus, NEW ticks \in Int, NEW gone \in Int,
         sys_clock_set_timeout(p, ticks, gone)
  PROVE  CompareInv'
<1>1. PICK cyc \in Int : cyc = (last_ticks + gone + ticks) * CYC_PER_TICK
  BY MachineTimerAssumption DEF ClockTypes
<1>2. mtimecmp' = [mtimecmp EXCEPT ![p] =
        IF ticks = K_TICKS_FOREVER \/ cyc - last_count > CYCLES_MAX
          THEN last_count + CYCLES_MAX ELSE cyc]
  BY <1>1 DEF sys_clock_set_timeout
<1>3. CYCLES_MAX \in Int /\ last_count \in Int
  BY DEF RoomForLatency, ClockTypes
<1>4. CYCLES_MAX' = CYCLES_MAX
  BY DEF CYCLES_MAX, CYCLES_MAX_3, Lower
<1>5. PICK v \in Int : v <= last_count + CYCLES_MAX /\ mtimecmp' = [mtimecmp EXCEPT ![p] = v]
  <2>1. CASE ticks = K_TICKS_FOREVER \/ cyc - last_count > CYCLES_MAX
    <3>1. PICK w \in Int : w = last_count + CYCLES_MAX
      BY <1>3
    <3>2. w <= last_count + CYCLES_MAX
      BY <3>1
    <3>3. mtimecmp' = [mtimecmp EXCEPT ![p] = w]
      BY <2>1, <3>1, <1>2
    <3> QED BY <3>2, <3>3
  <2>2. CASE ~(ticks = K_TICKS_FOREVER \/ cyc - last_count > CYCLES_MAX)
    <3>1. cyc <= last_count + CYCLES_MAX
      BY <2>2, <1>3
    <3> QED BY <2>2, <3>1, <1>2
  <2> QED BY <2>1, <2>2
<1> QED BY <1>4, <1>5 DEF CompareInv

LEMMA NextTimeoutInt ==
  ASSUME NEW s \in Seq(Timeouts), NEW d \in [Timeouts -> Int], NEW gone \in Int
  PROVE  next_timeout(s, d, gone) \in Int
<1>1. CASE s = <<>>
  BY <1>1, MachineTimerAssumption DEF next_timeout, MAX_WAIT, K_TICKS_FOREVER
<1>2. CASE s # <<>>
  <2>1. PICK x \in Int : x = d[Head(s)]
    BY <1>2
  <2> QED BY <1>2, <2>1, MachineTimerAssumption
        DEF next_timeout, MAX_WAIT, K_TICKS_FOREVER, Higher
<1> QED BY <1>1, <1>2

\* The counter is read no later than the latency behind each compare register.
LEMMA ReadableInRange ==
  ASSUME ClockTypes, CompareInv, RoomForLatency, NEW cycle \in Int, Readable(cycle)
  PROVE  cycle - last_count <= CYCLES_MAX_3
<1>1. PICK p \in Cpus : TRUE
  BY MachineTimerAssumption
<1>2. cycle <= mtimecmp[p] + Latency /\ mtimecmp[p] <= last_count + CYCLES_MAX
  BY DEF Readable, CompareInv
<1>3. mtimecmp[p] \in Int
  BY DEF CompareInv
<1> QED BY <1>2, <1>3, RangeNat, MachineTimerAssumption DEF RoomForLatency, ClockTypes

\* A step that does not count ticks leaves the counter in range.
LEMMA CountKept ==
  ASSUME ClockTypes, CycleInv, RoomForLatency, UNCHANGED <<last_count, last_ticks>>,
         mtime' = mtime \/ (mtime' \in Int /\ mtime <= mtime' /\ Readable(mtime'))
  PROVE  CountInv' /\ NoOverflow'
<1>1. mtime' \in Int /\ mtime <= mtime' /\ mtime' - last_count <= CYCLES_MAX_3
  BY ReadableInRange DEF ClockTypes, CycleInv, NoOverflow
<1>2. CYCLES_MAX_3' = CYCLES_MAX_3
  BY DEF CYCLES_MAX_3, Lower
<1> QED BY <1>1, <1>2 DEF CycleInv, CountInv, NoOverflow, ClockTypes

LEMMA HandleCycles ==
  ASSUME ClockTypes, ListInv, ListInv', CycleInv, RoomForLatency, NEW p \in Cpus,
         NEW rem \in Int, HandleFirst(p, rem) \/ HandleRest(p, rem)
  PROVE  CycleInv'
<1>1. CountInv' /\ NoOverflow'
  BY CountKept DEF HandleFirst, HandleRest, timerVars
<1>2. CASE HandleFirst(p, rem)
  BY <1>1, <1>2 DEF HandleFirst, timerVars, CycleInv, CompareInv, CYCLES_MAX, CYCLES_MAX_3, Lower
<1>3. CASE HandleRest(p, rem)
  <2>1. PICK n \in Nat : n = TicksSince(mtime)
    BY TicksSinceNat DEF ClockTypes
  <2>2. PICK k \in Int : k = next_timeout(timeout_list, dticks', n)
    <3>1. timeout_list \in Seq(Timeouts) /\ dticks' \in [Timeouts -> Int]
      BY DEF ListInv
    <3> QED BY <3>1, NextTimeoutInt
  <2>3. sys_clock_set_timeout(p, k, n) /\ UNCHANGED last_count
    BY <1>3, <2>1, <2>2 DEF HandleRest
  <2>4. CompareInv'
    BY <2>3, SetTimeoutCapped DEF CycleInv
  <2> QED BY <1>1, <2>4 DEF CycleInv
<1> QED BY <1>2, <1>3

LEMMA InterruptCycles ==
  ASSUME ClockTypes, ListInv, ListInv', CycleInv, RoomForLatency, NEW p \in Cpus,
         Interrupt(p)
  PROVE  CycleInv'
<1>1. arg[p] \in Int /\ announce_remaining - arg[p] \in Int
  BY DEF ClockTypes
<1>2. CYCLES_MAX_3' = CYCLES_MAX_3 /\ CYCLES_MAX' = CYCLES_MAX
  BY DEF CYCLES_MAX, CYCLES_MAX_3, Lower
<1>3. CASE timer_isr(p)
  <2>1. PICK n \in Nat : n = TicksSince(mtime)
    BY TicksSinceNat DEF ClockTypes
  <2>2. /\ last_count' = last_count + n * CYC_PER_TICK /\ last_ticks' = last_ticks + n
        /\ UNCHANGED <<mtime, mtimecmp>>
    BY <1>3, <2>1 DEF timer_isr, timer_isr_locked
  <2>3. PICK c \in Nat \ {0} : c = CYC_PER_TICK
    BY MachineTimerAssumption
  <2>4. PICK g \in Nat : g = n * c
    BY <2>3
  <2>5. g <= mtime - last_count
    BY <2>1, <2>3, <2>4, TicksSinceExact DEF CycleInv, ClockTypes
  <2>6. last_count' = last_count + g /\ last_count' = last_ticks' * c
    <3>1. last_count = last_ticks * c /\ last_ticks \in Int
      BY <2>3 DEF CycleInv, CountInv, ClockTypes
    <3>2. (last_ticks + n) * c = last_ticks * c + n * c
      BY <3>1
    <3> QED BY <2>2, <2>3, <2>4, <3>1, <3>2
  <2>7. CountInv' /\ NoOverflow'
    BY <1>2, <2>2, <2>3, <2>5, <2>6, RangeNat DEF CycleInv, CountInv, NoOverflow, ClockTypes
  <2>8. CompareInv'
    <3> SUFFICES ASSUME NEW q \in Cpus PROVE mtimecmp[q] <= last_count' + CYCLES_MAX
      BY <1>2, <2>2 DEF CycleInv, CompareInv
    <3>1. mtimecmp[q] \in Int /\ mtimecmp[q] <= last_count + CYCLES_MAX
      BY DEF CycleInv, CompareInv
    <3> QED BY <3>1, <2>6 DEF RoomForLatency, ClockTypes
  <2> QED BY <2>7, <2>8 DEF CycleInv
<1>4. CASE sys_clock_announce(p)
  <2>1. CASE LeaveTicks(p)
    BY <2>1, <1>2 DEF LeaveTicks, timerVars, CycleInv, CompareInv, CountInv, NoOverflow
  <2> QED BY <1>1, <1>4, <2>1, HandleCycles DEF sys_clock_announce
<1>5. CASE CallbackDone(p)
  BY <1>1, <1>5, HandleCycles DEF CallbackDone
<1> QED BY <1>3, <1>4, <1>5 DEF Interrupt

LEMMA AddCycles ==
  ASSUME ClockTypes, ClockTypes', ListInv', CycleInv, RoomForLatency, NEW p \in Cpus,
         NEW t, NEW n, NEW absolute, z_add_timeout(p, t, n, absolute)
  PROVE  CycleInv'
<1>1. UNCHANGED <<last_count, last_ticks>>
  BY DEF z_add_timeout
<1>2. mtime \in Int /\ Skew \in Nat
  BY TimeoutQueueAssumption DEF ClockTypes
<1>3. CASE UNCHANGED <<mtime, mtimecmp>>
  <2>1. CountInv' /\ NoOverflow'
    BY <1>1, <1>3, CountKept
  <2> QED BY <1>1, <1>3, <2>1 DEF CycleInv, CompareInv, CYCLES_MAX, CYCLES_MAX_3, Lower
<1>4. ASSUME NEW later \in mtime .. mtime + Skew, Readable(later) \/ later = mtime,
             mtime' = later,
             sys_clock_set_timeout(p,
               next_timeout(timeout_list', dticks', elapsed(later)), last_elapsed')
      PROVE  CycleInv'
  <2>1. later \in Int /\ mtime <= later
    BY <1>2
  <2>2. CountInv' /\ NoOverflow'
    BY <1>1, <1>4, <2>1, CountKept
  <2>3. PICK g \in Nat : g = elapsed(later)
    BY <2>1, ElapsedNat
  <2>4. PICK k \in Int : k = next_timeout(timeout_list', dticks', g)
    BY NextTimeoutInt DEF ListInv
  <2>5. PICK e \in Int : e = last_elapsed'
    BY DEF ClockTypes
  <2>6. sys_clock_set_timeout(p, k, e)
    BY <1>4, <2>3, <2>4, <2>5
  <2>7. CompareInv'
    BY <1>1, <2>6, SetTimeoutCapped DEF CycleInv
  <2> QED BY <2>2, <2>7 DEF CycleInv
<1> QED BY <1>3, <1>4 DEF z_add_timeout

LEMMA AbortCycles ==
  ASSUME ClockTypes, ClockTypes', ListInv', CycleInv, RoomForLatency, NEW p \in Cpus,
         NEW t, z_abort_timeout(p, t)
  PROVE  CycleInv'
<1>1. UNCHANGED <<mtime, last_count, last_ticks>>
  BY DEF z_abort_timeout
<1>2. CountInv' /\ NoOverflow'
  BY <1>1, CountKept
<1>3. CASE UNCHANGED mtimecmp
  BY <1>1, <1>2, <1>3 DEF CycleInv, CompareInv, CYCLES_MAX, CYCLES_MAX_3, Lower
<1>4. CASE sys_clock_set_timeout(p,
             next_timeout(timeout_list', dticks', elapsed(mtime)), last_elapsed')
  <2>1. PICK g \in Nat : g = elapsed(mtime)
    BY ElapsedNat DEF ClockTypes
  <2>2. PICK k \in Int : k = next_timeout(timeout_list', dticks', g)
    BY NextTimeoutInt DEF ListInv
  <2>3. PICK e \in Int : e = last_elapsed'
    BY DEF ClockTypes
  <2>4. sys_clock_set_timeout(p, k, e)
    BY <1>4, <2>1, <2>2, <2>3
  <2>5. CompareInv'
    BY <1>1, <2>4, SetTimeoutCapped DEF CycleInv
  <2> QED BY <1>2, <2>5 DEF CycleInv
<1> QED BY <1>3, <1>4 DEF z_abort_timeout

LEMMA NextCycles ==
  ASSUME ClockTypes, ListInv, CycleInv, RoomForLatency, [Next]_vars
  PROVE  CycleInv'
<1>1. ClockTypes' /\ ListInv'
  BY NextTypes, NextKeeps
<1>2. ASSUME UNCHANGED <<last_count, last_ticks, mtimecmp>>,
             mtime' = mtime \/ (mtime' = mtime + 1 /\ Readable(mtime'))
      PROVE  CycleInv'
  <2>1. mtime' = mtime \/ (mtime' \in Int /\ mtime <= mtime' /\ Readable(mtime'))
    BY <1>2 DEF ClockTypes
  <2>2. CountInv' /\ NoOverflow'
    BY <1>2, <2>1, CountKept
  <2> QED BY <1>2, <2>2 DEF CycleInv, CompareInv, CYCLES_MAX, CYCLES_MAX_3, Lower
<1>3. CASE Tick /\ UNCHANGED <<listVars, announceVars>>
  BY <1>2, <1>3 DEF Tick
<1>4. ASSUME NEW p \in Cpus, Interrupt(p) PROVE CycleInv'
  BY <1>1, <1>4, InterruptCycles
<1>5. ASSUME NEW p \in Cpus, sys_clock_tick_get(p) PROVE CycleInv'
  BY <1>2, <1>5 DEF sys_clock_tick_get
<1>6. ASSUME NEW p \in Cpus, NEW t \in Timeouts, NEW n, NEW absolute,
             z_add_timeout(p, t, n, absolute)
      PROVE  CycleInv'
  BY <1>1, <1>6, AddCycles
<1>7. ASSUME NEW p \in Cpus, NEW t \in Timeouts, z_abort_timeout(p, t) PROVE CycleInv'
  BY <1>1, <1>7, AbortCycles
<1>8. CASE UNCHANGED vars
  BY <1>2, <1>8 DEF vars, timerVars
<1> QED BY <1>3, <1>4, <1>5, <1>6, <1>7, <1>8 DEF Next

LEMMA InitCycles == RoomForLatency /\ Init => CycleInv
<1> SUFFICES ASSUME RoomForLatency, Init PROVE CycleInv
  OBVIOUS
<1>1. PICK c \in Nat \ {0}, b \in Nat : c = CYC_PER_TICK /\ b = BootCycles
  BY MachineTimerAssumption
<1>2. PICK k \in Nat : k = b \div c
  BY <1>1
<1>3. k * c <= b /\ b < k * c + c
  BY <1>2
<1>4. PICK l \in Nat : l = k * c
  BY <1>1
<1>5. /\ mtime = b /\ last_ticks = k /\ last_count = l
      /\ mtimecmp = [p \in Cpus |-> l + c]
  BY <1>1, <1>2, <1>4 DEF Init, sys_clock_driver_init, boot
<1>6. CompareInv
  BY <1>1, <1>5 DEF CompareInv, RoomForLatency
<1>7. CountInv
  BY <1>1, <1>3, <1>4, <1>5 DEF CountInv
<1>8. NoOverflow
  BY <1>1, <1>3, <1>4, <1>5, RangeNat, MachineTimerAssumption DEF NoOverflow, RoomForLatency
<1> QED BY <1>6, <1>7, <1>8 DEF CycleInv

\* Outside an interrupt the uptime is the time since boot.
LEMMA ClockFromCount ==
  ASSUME ClockTypes, CycleInv, NoTickLost
  PROVE  ClockTrue
<1> SUFFICES ASSUME Quiet
             PROVE  curr_tick + elapsed(mtime) = mtime \div CYC_PER_TICK - boot
  BY DEF ClockTrue
<1>1. curr_tick = last_ticks - boot /\ announce_remaining = 0
  BY DEF NoTickLost
<1>2. elapsed(mtime) = mtime \div CYC_PER_TICK - last_ticks
  BY <1>1, TicksSinceExact DEF elapsed, CycleInv, NoOverflow, ClockTypes
<1>3. boot \in Int /\ last_ticks \in Int /\ mtime \div CYC_PER_TICK \in Int
  BY MachineTimerAssumption DEF boot, ClockTypes
<1> QED BY <1>1, <1>2, <1>3

\* riscv_machine_timer.c: however far the next timeout is, and with any number
\* of CPUs, the cycles since the last announced tick stay in the range that
\* cycle_diff_t and sys_clock_announce hold.
THEOREM CyclesInRange == ASSUME RoomForLatency PROVE Spec => []NoOverflow
<1>1. Init => CycleInv
  BY InitCycles
<1>2. CycleInv /\ ClockTypes /\ ListInv /\ [Next]_vars => CycleInv'
  BY NextCycles
<1>3. CycleInv => NoOverflow
  BY DEF CycleInv
<1> QED BY <1>1, <1>2, <1>3, TimeoutTypes, PTL DEF Spec

\* The kernel's clock: whenever no announcement is under way, on any number of
\* CPUs, the uptime that sys_clock_tick_get returns is the ticks of the hardware
\* counter since boot; nothing drifts, no rounding is lost and no count is taken
\* twice.
THEOREM ClockIsTrue == ASSUME RoomForLatency PROVE Spec => []ClockTrue
<1>1. Init => CycleInv
  BY InitCycles
<1>2. CycleInv /\ ClockTypes /\ ListInv /\ [Next]_vars => CycleInv'
  BY NextCycles
<1>3. ClockTypes /\ CycleInv /\ NoTickLost => ClockTrue
  BY ClockFromCount
<1> QED BY <1>1, <1>2, <1>3, TimeoutTypes, TicksConserved, PTL DEF Spec
-----------------------------------------------------------------------------
(* Deadlines and the time, with one CPU *)

\* No timeout is due before the one in front of it, and a callback's arg is what
\* was taken for its timeout.
OrderInv ==
  /\ \A t \in ToSet(timeout_list) : dticks[t] >= 0
  /\ \A p \in Cpus : arg[p] >= 0

\* Sums of such ticks grow.
LEMMA SumsGrow ==
  ASSUME NEW S, NEW s \in Seq(S), NEW d \in [S -> Int], \A i \in 1..Len(s) : d[s[i]] >= 0,
         NEW i \in 0..Len(s), NEW j \in 0..Len(s), i <= j
  PROVE  Sums(s, d)[i] <= Sums(s, d)[j]
<1> DEFINE F == Sums(s, d)
           T == {h \in Nat : i + h <= Len(s) => F[i] <= F[i + h]}
<1>1. Len(s) \in Nat
  OBVIOUS
<1>2. /\ \A h \in 0..Len(s) : F[h] \in Int
      /\ \A h \in 1..Len(s) : F[h] = F[h - 1] + d[s[h]]
  BY SumsProperties
<1> HIDE DEF F
<1>3. 0 \in T /\ T \in SUBSET Nat
  BY <1>1, <1>2
<1>4. ASSUME NEW h \in Nat, h + 1 <= Len(s), h \in T PROVE h + 1 \in T
  <2> SUFFICES ASSUME i + (h + 1) <= Len(s) PROVE F[i] <= F[i + (h + 1)]
    OBVIOUS
  <2>1. PICK g \in 1..Len(s) : g = i + (h + 1) /\ g - 1 = i + h /\ g - 1 \in 0..Len(s)
    BY <1>1
  <2>2. F[i] <= F[g - 1]
    BY <1>1, <1>4, <2>1
  <2>3. F[g] = F[g - 1] + d[s[g]] /\ d[s[g]] >= 0 /\ d[s[g]] \in Int
    BY <1>2
  <2>4. F[i] \in Int /\ F[g - 1] \in Int
    BY <1>2, <2>1
  <2> QED BY <2>1, <2>2, <2>3, <2>4
<1>5. \A h \in 0..Len(s) : h \in T
  <2> HIDE DEF T
  <2> QED BY <1>1, <1>3, <1>4, Induction
<1>6. PICK h \in 0..Len(s) : i + h = j
  <2>1. j - i \in 0..Len(s) /\ i + (j - i) = j
    BY <1>1
  <2> QED BY <2>1
<1>7. F[i] <= F[j]
  <2>1. h \in T /\ j <= Len(s)
    BY <1>1, <1>5
  <2> QED BY <1>6, <2>1
<1> QED BY <1>7 DEF F

\* What an insertion adds.
LEMMA WithSet ==
  ASSUME NEW S, NEW s \in Seq(S), NEW u \in Seq(S), NEW k, NEW x, k \in Nat, With(s, u, k, x)
  PROVE  ToSet(s) = ToSet(u) \cup {x}
<1>1. ToSet(s) = {s[i] : i \in 1..Len(s)} /\ ToSet(u) = {u[i] : i \in 1..Len(u)}
  BY ListElements
<1>2. Len(u) \in Nat /\ Len(s) = Len(u) + 1 /\ k \in 1..Len(s) /\ s[k] = x
  BY DEF With
<1>3. ASSUME NEW i \in 1..Len(s) PROVE s[i] \in ToSet(u) \cup {x}
  <2>1. CASE i < k
    BY <1>1, <1>2, <2>1 DEF With
  <2>2. CASE i > k
    <3>1. PICK h \in k..Len(u) : h = i - 1 /\ h + 1 = i
      BY <1>2, <2>2
    <3> QED BY <1>1, <3>1 DEF With
  <2> QED BY <1>2, <2>1, <2>2
<1>4. ASSUME NEW i \in 1..Len(u) PROVE u[i] \in ToSet(s)
  <2>1. CASE i < k
    <3>1. i \in 1..(k - 1)
      BY <1>2, <2>1
    <3> QED BY <1>1, <3>1 DEF With
  <2>2. CASE ~(i < k)
    <3>1. i \in k..Len(u)
      BY <1>2, <2>2
    <3> QED BY <1>1, <3>1 DEF With
  <2> QED BY <2>1, <2>2
<1> QED BY <1>1, <1>2, <1>3, <1>4

\* The place that z_add_timeout finds: behind every timeout that is due no
\* later, in front of those that are due later.
LEMMA PlaceInOrder ==
  ASSUME ClockTypes, ListInv, OrderInv, NEW n \in Nat, NEW absolute \in BOOLEAN
  PROVE  LET k == FirstLater(n, absolute)
             F == Sums(timeout_list, dticks)
         IN  /\ Left(n, absolute, k - 1) >= 0
             /\ \A j \in 1..(k - 1) : F[j] <= TicksFromNow(n, absolute)
             /\ \A j \in k..Len(timeout_list) : F[j] > TicksFromNow(n, absolute)
             /\ k <= Len(timeout_list)
                  => dticks[timeout_list[k]] > Left(n, absolute, k - 1)
<1> DEFINE s == timeout_list
           k == FirstLater(n, absolute)
           F == Sums(s, dticks)
<1>1. s \in Seq(Timeouts) /\ Len(s) \in Nat /\ dticks \in [Timeouts -> Int]
  BY DEF ListInv
<1>2. /\ F[0] = 0 /\ \A i \in 0..Len(s) : F[i] \in Int
      /\ \A i \in 1..Len(s) : F[i] = F[i - 1] + dticks[s[i]]
  BY <1>1, SumsProperties
<1>3. PICK z \in Int : z = TicksFromNow(n, absolute) /\ z >= 1
  <2>1. elapsed(mtime) \in Nat
    BY ElapsedNat DEF ClockTypes
  <2> QED BY <2>1 DEF TicksFromNow, Higher, ClockTypes
<1>4. k \in 1..(Len(s) + 1) /\ Ends(n, absolute, k)
  BY SearchEnds
<1>5. \A i \in 0..Len(s) : Left(n, absolute, i) = z - F[i]
  BY <1>3 DEF Left
<1>6. \A i \in 1..Len(s) : dticks[s[i]] \in Int /\ dticks[s[i]] >= 0
  BY <1>1, ListElements DEF OrderInv
<1>7. /\ k = Len(s) + 1 \/ dticks[s[k]] > Left(n, absolute, k - 1)
      /\ \A j \in 1..(k - 1) : dticks[s[j]] <= Left(n, absolute, j - 1)
  BY <1>4 DEF Ends
<1> HIDE DEF F, k, s
<1>8. ASSUME NEW j \in 1..(k - 1) PROVE F[j] <= z
  <2>1. j \in 1..Len(s) /\ j - 1 \in 0..Len(s)
    BY <1>1, <1>4
  <2>2. dticks[s[j]] <= z - F[j - 1]
    BY <1>5, <1>7, <2>1
  <2>3. F[j - 1] \in Int /\ dticks[s[j]] \in Int /\ F[j] = F[j - 1] + dticks[s[j]]
    BY <1>2, <1>6, <2>1
  <2> QED BY <2>2, <2>3
<1>9. ASSUME NEW j \in k..Len(s) PROVE F[j] > z
  <2>1. k \in 1..Len(s) /\ k - 1 \in 0..Len(s) /\ k \in 0..Len(s) /\ j \in 0..Len(s) /\ k <= j
    BY <1>1, <1>4
  <2>2. dticks[s[k]] > z - F[k - 1]
    <3>1. Left(n, absolute, k - 1) = z - F[k - 1]
      BY <1>5, <2>1
    <3>2. k # Len(s) + 1
      BY <1>1, <2>1
    <3> QED BY <1>7, <3>1, <3>2
  <2>3. F[k - 1] \in Int /\ dticks[s[k]] \in Int /\ F[k] = F[k - 1] + dticks[s[k]]
    BY <1>2, <1>6, <2>1
  <2>4. F[k] <= F[j]
    BY <1>1, <1>6, <2>1, SumsGrow DEF F
  <2>5. F[k] \in Int /\ F[j] \in Int
    BY <1>2, <2>1
  <2> QED BY <2>2, <2>3, <2>4, <2>5
<1>10. PICK h \in 0..Len(s) : h = k - 1
  BY <1>1, <1>4
<1>11. F[h] <= z
  <2>1. CASE h = 0
    BY <1>2, <1>3, <2>1
  <2>2. CASE h # 0
    <3>1. h \in 1..(k - 1)
      BY <1>4, <1>10, <2>2
    <3> QED BY <1>8, <3>1
  <2> QED BY <2>1, <2>2
<1>12. Left(n, absolute, k - 1) >= 0
  <2>1. F[h] \in Int /\ Left(n, absolute, h) = z - F[h]
    BY <1>2, <1>5
  <2>2. Left(n, absolute, h) >= 0
    BY <1>3, <1>11, <2>1
  <2> QED BY <1>10, <2>2
<1>13. k <= Len(s) => dticks[s[k]] > Left(n, absolute, k - 1)
  BY <1>1, <1>4, <1>7
<1> QED BY <1>3, <1>8, <1>9, <1>12, <1>13 DEF F, k, s
LEMMA HandleOrder ==
  ASSUME ClockTypes, ListInv, OrderInv, NEW p \in Cpus, NEW rem \in Int,
         HandleFirst(p, rem) \/ HandleRest(p, rem)
  PROVE  OrderInv'
<1> DEFINE s == timeout_list
<1>1. s \in Seq(Timeouts) /\ Distinct(s) /\ dticks \in [Timeouts -> Int]
  BY DEF ListInv
<1>2. \A v \in ToSet(s) : v \in Timeouts /\ dticks[v] \in Int /\ dticks[v] >= 0
  BY <1>1, ListElements DEF OrderInv
<1>3. s # <<>> => Head(s) \in ToSet(s) /\ ToSet(Tail(s)) = ToSet(s) \ {Head(s)}
  BY <1>1, TailList
<1>4. CASE HandleFirst(p, rem)
  <2>1. /\ s # <<>> /\ timeout_list' = Tail(s) /\ dticks' = [dticks EXCEPT ![Head(s)] = 0]
        /\ arg' = [arg EXCEPT ![p] = dticks[Head(s)]]
    BY <1>4 DEF HandleFirst, Overdue
  <2> HIDE DEF s
  <2>2. ASSUME NEW v \in ToSet(timeout_list') PROVE dticks'[v] >= 0
    BY <1>1, <1>2, <1>3, <2>1
  <2>3. ASSUME NEW q \in Cpus PROVE arg'[q] >= 0
    BY <1>2, <1>3, <2>1 DEF OrderInv, ClockTypes
  <2> QED BY <2>2, <2>3 DEF OrderInv
<1>5. CASE HandleRest(p, rem)
  <2>1. /\ UNCHANGED timeout_list /\ arg' = [arg EXCEPT ![p] = 0]
        /\ s # <<>> => ~(dticks[Head(s)] <= rem)
        /\ dticks' = IF s = <<>> THEN dticks ELSE [dticks EXCEPT ![Head(s)] = @ - rem]
    BY <1>5 DEF HandleRest, Overdue, RestDelta
  <2> HIDE DEF s
  <2>2. ASSUME NEW v \in ToSet(s) PROVE dticks'[v] >= 0
    <3>1. CASE s = <<>>
      BY <1>2, <2>1, <3>1
    <3>2. CASE s # <<>> /\ v = Head(s)
      BY <1>1, <1>2, <2>1, <3>2
    <3>3. CASE s # <<>> /\ v # Head(s)
      BY <1>1, <1>2, <2>1, <3>3
    <3> QED BY <3>1, <3>2, <3>3
  <2>3. ASSUME NEW q \in Cpus PROVE arg'[q] >= 0
    BY <2>1 DEF OrderInv, ClockTypes
  <2> QED BY <2>1, <2>2, <2>3 DEF OrderInv, s
<1> QED BY <1>4, <1>5

LEMMA AddOrder ==
  ASSUME ClockTypes, ListInv, OrderInv, NEW p \in Cpus, NEW t \in Timeouts, NEW n \in Nat,
         NEW absolute \in BOOLEAN, z_add_timeout(p, t, n, absolute)
  PROVE  /\ OrderInv' /\ ToSet(timeout_list') = ToSet(timeout_list) \cup {t}
         /\ t \notin ToSet(timeout_list)
<1> DEFINE u == timeout_list
           k == FirstLater(n, absolute)
           x == Left(n, absolute, k - 1)
<1>1. /\ t \notin ToSet(u) /\ UNCHANGED arg
      /\ dticks' = [v \in Timeouts |->
           IF v = t THEN x
           ELSE IF k <= Len(u) /\ v = u[k] THEN dticks[v] - x ELSE dticks[v]]
  BY DEF z_add_timeout, announceVars
<1>2. /\ x >= 0 /\ x \in Int /\ k \in Nat
      /\ k <= Len(u) => dticks[u[k]] > x
  BY PlaceInOrder, SearchEnds
<1>3. /\ u \in Seq(Timeouts) /\ timeout_list' \in Seq(Timeouts) /\ dticks \in [Timeouts -> Int]
      /\ With(timeout_list', u, k, t)
  BY AddKeeps DEF ListInv
<1>4. \A v \in ToSet(u) : v \in Timeouts /\ dticks[v] \in Int /\ dticks[v] >= 0
  BY <1>3, ListElements DEF OrderInv
<1> HIDE DEF u, k, x
<1>5. ToSet(timeout_list') = ToSet(u) \cup {t}
  BY <1>2, <1>3, WithSet
<1>6. ASSUME NEW v \in ToSet(timeout_list') PROVE dticks'[v] >= 0
  <2>1. CASE v = t
    BY <1>1, <1>2, <2>1
  <2>2. CASE v # t /\ k <= Len(u) /\ v = u[k]
    <3>1. v \in ToSet(u)
      BY <1>5, <2>2
    <3> QED BY <1>1, <1>2, <1>4, <2>2, <3>1
  <2>3. CASE v # t /\ ~(k <= Len(u) /\ v = u[k])
    <3>1. v \in ToSet(u)
      BY <1>5, <2>3
    <3> QED BY <1>1, <1>4, <2>3, <3>1
  <2> QED BY <2>1, <2>2, <2>3
<1> QED BY <1>1, <1>5, <1>6 DEF OrderInv, u

LEMMA AbortOrder ==
  ASSUME ClockTypes, ListInv, OrderInv, NEW p \in Cpus, NEW t \in Timeouts, z_abort_timeout(p, t)
  PROVE  OrderInv' /\ ToSet(timeout_list') = ToSet(timeout_list) \ {t}
<1> DEFINE s == timeout_list
           k == Place(s, t)
<1>1. /\ t \in ToSet(s) /\ timeout_list' = RemoveFirst(s, t) /\ UNCHANGED arg
      /\ dticks' = IF k < Len(s)
                     THEN [dticks EXCEPT ![s[k + 1]] = @ + dticks[t], ![t] = 0]
                     ELSE [dticks EXCEPT ![t] = 0]
  BY DEF z_abort_timeout, remove_timeout, announceVars
<1>2. s \in Seq(Timeouts) /\ Distinct(s) /\ dticks \in [Timeouts -> Int]
  BY DEF ListInv
<1>3. \A v \in ToSet(s) : v \in Timeouts /\ dticks[v] \in Int /\ dticks[v] >= 0
  BY <1>2, ListElements DEF OrderInv
<1> HIDE DEF s
<1>4. ToSet(timeout_list') = ToSet(s) \ {t}
  BY <1>1, <1>2, RemoveList
<1> HIDE DEF k
<1>5. ASSUME NEW v \in ToSet(timeout_list') PROVE dticks'[v] >= 0
  <2>1. v \in ToSet(s) /\ v # t
    BY <1>4
  <2>2. CASE k < Len(s) /\ v = s[k + 1]
    <3>1. dticks'[v] = dticks[v] + dticks[t]
      BY <1>1, <1>2, <1>3, <2>1, <2>2
    <3> QED BY <1>1, <1>3, <2>1, <3>1
  <2>3. CASE ~(k < Len(s) /\ v = s[k + 1])
    <3>1. dticks'[v] = dticks[v]
      BY <1>1, <1>2, <1>3, <2>1, <2>3
    <3> QED BY <1>3, <2>1, <3>1
  <2> QED BY <2>2, <2>3
<1> QED BY <1>1, <1>4, <1>5 DEF OrderInv, s

LEMMA NextOrder ==
  ASSUME ClockTypes, ListInv, TicksInv, OrderInv, [Next]_vars
  PROVE  OrderInv'
<1>1. ASSUME UNCHANGED <<timeout_list, dticks, arg>> PROVE OrderInv'
  BY <1>1 DEF OrderInv
<1>2. CASE Tick /\ UNCHANGED <<listVars, announceVars>>
  BY <1>1, <1>2 DEF listVars, announceVars
<1>3. ASSUME NEW p \in Cpus, Interrupt(p) PROVE OrderInv'
  <2>1. CASE timer_isr(p)
    <3>1. PICK n \in Nat : n = TicksSince(mtime)
      BY TicksSinceNat DEF ClockTypes
    <3> QED BY <2>1, <3>1 DEF timer_isr, listVars, OrderInv, ClockTypes
  <2>2. CASE LeaveTicks(p)
    BY <2>2 DEF LeaveTicks, listVars, OrderInv, ClockTypes
  <2>3. CASE (sys_clock_announce(p) /\ ~LeaveTicks(p)) \/ CallbackDone(p)
    BY <2>3, GoesOn, HandleOrder
  <2> QED BY <1>3, <2>1, <2>2, <2>3 DEF Interrupt
<1>4. ASSUME NEW p \in Cpus, sys_clock_tick_get(p) PROVE OrderInv'
  BY <1>1, <1>4 DEF sys_clock_tick_get, listVars, announceVars
<1>5. ASSUME NEW p \in Cpus, NEW t \in Timeouts, NEW n \in Delays \cup Dates,
             NEW absolute \in BOOLEAN, z_add_timeout(p, t, n, absolute)
      PROVE  OrderInv'
  BY <1>5, TimeoutQueueAssumption, AddOrder
<1>6. ASSUME NEW p \in Cpus, NEW t \in Timeouts, z_abort_timeout(p, t) PROVE OrderInv'
  BY <1>6, AbortOrder
<1>7. CASE UNCHANGED vars
  BY <1>1, <1>7 DEF vars, listVars, announceVars
<1> QED BY <1>2, <1>3, <1>4, <1>5, <1>6, <1>7 DEF Next

LEMMA InitOrder == Init => OrderInv
BY EmptyList DEF Init, OrderInv

\* With one CPU, what it has in transit is all there is.
LEMMA OneCpuTotal ==
  ASSUME ~SMP, ClockTypes, NEW p \in Cpus
  PROVE  Total(InTransit) = InTransit[p]
<1>1. PICK f \in [Cpus -> Int] : f = InTransit
  BY InTransitType
<1>2. PICK g \in [Cpus -> Int] : g = [q \in Cpus |-> 0]
  <2>1. [q \in Cpus |-> 0] \in [Cpus -> Int]
    OBVIOUS
  <2> QED BY <2>1
<1>3. Total(g) = 0
  BY <1>2, TotalZero
<1>4. \A r \in Cpus \ {p} : f[r] = g[r]
  BY AloneOnOneCpu
<1>5. Total(f) = Total(g) + (f[p] - g[p])
  BY <1>4, TotalChange
<1> QED BY <1>1, <1>2, <1>3, <1>5

\* Where the first timeout of the list is.
LEMMA FirstDue ==
  ASSUME ClockTypes, ListInv, timeout_list # <<>>
  PROVE  /\ Head(timeout_list) \in ToSet(timeout_list)
         /\ timeout_rem(Head(timeout_list)) = dticks[Head(timeout_list)]
         /\ dticks[Head(timeout_list)] \in Int
<1> DEFINE s == timeout_list
<1>1. s \in Seq(Timeouts) /\ Distinct(s) /\ dticks \in [Timeouts -> Int] /\ s # <<>>
  BY DEF ListInv
<1> HIDE DEF s
<1>2. Head(s) = s[1] /\ 1 \in 1..Len(s) /\ s[1] \in Timeouts
  BY <1>1
<1>3. Place(s, Head(s)) = 1
  BY <1>1, <1>2, PlaceOf
<1>4. Sums(s, dticks)[0] = 0 /\ Sums(s, dticks)[1] = Sums(s, dticks)[1 - 1] + dticks[s[1]]
  BY <1>1, <1>2, SumsProperties
<1>5. dticks[s[1]] \in Int
  BY <1>1, <1>2
<1>6. Sums(s, dticks)[1] = dticks[s[1]]
  BY <1>4, <1>5
<1>7. Head(s) \in ToSet(s)
  BY <1>1, TailList
<1> QED BY <1>2, <1>3, <1>5, <1>6, <1>7 DEF timeout_rem, s

\* With one CPU no timeout is handled before its tick has been counted.
LEMMA NotBeforeTick ==
  ASSUME ~SMP, ClockTypes, ListInv, NEW p \in Cpus, NEW rem \in Int, Balanced(p, rem),
         HandleFirst(p, rem)
  PROVE  /\ z_timeout_expires(Head(timeout_list)) \in Int
         /\ boot + z_timeout_expires(Head(timeout_list)) <= last_ticks
<1>1. timeout_list # <<>> /\ dticks[Head(timeout_list)] <= rem
  BY DEF HandleFirst, Overdue
<1>2. PICK d \in Int : d = dticks[Head(timeout_list)] /\ timeout_rem(Head(timeout_list)) = d
  BY <1>1, FirstDue
<1>3. Total(InTransit) \in Int /\ Total(InTransit) = InTransit[p]
  BY TransitInt, OneCpuTotal
<1>4. curr_tick \in Int /\ last_ticks \in Int /\ boot \in Int
  BY MachineTimerAssumption DEF ClockTypes, boot
<1>5. curr_tick + rem = last_ticks - boot
  BY <1>3, <1>4 DEF Balanced
<1>6. boot + (curr_tick + d) <= last_ticks
  BY <1>1, <1>2, <1>4, <1>5
<1> QED BY <1>2, <1>4, <1>6 DEF z_timeout_expires
\* No deadline is earlier than what was asked for, counted in cycles.
DueInv ==
  /\ earliest \in [Timeouts -> Int]
  /\ \A t \in ToSet(timeout_list) :
       earliest[t] <= (boot + z_timeout_expires(t)) * CYC_PER_TICK

\* A timeout that stays keeps it.
LEMMA DueStays ==
  ASSUME ListInv, DueInv, Kept, earliest' \in [Timeouts -> Int],
         NEW v \in ToSet(timeout_list) \cap ToSet(timeout_list'), earliest'[v] = earliest[v]
  PROVE  earliest'[v] <= (boot' + z_timeout_expires(v)') * CYC_PER_TICK
<1>1. z_timeout_expires(v)' = z_timeout_expires(v) /\ boot' = boot
  BY DEF Kept, boot
<1> QED BY <1>1 DEF DueInv

LEMMA ExpiresInt ==
  ASSUME ClockTypes, ListInv, NEW v \in ToSet(timeout_list)
  PROVE  z_timeout_expires(v) \in Int
<1>1. timeout_list \in Seq(Timeouts) /\ Distinct(timeout_list) /\ dticks \in [Timeouts -> Int]
  BY DEF ListInv
<1>2. PICK i \in 1..Len(timeout_list) : timeout_list[i] = v
  BY <1>1, ListElements
<1>3. Place(timeout_list, v) = i /\ i \in 0..Len(timeout_list)
  BY <1>1, <1>2, PlaceOf
<1>4. timeout_rem(v) \in Int
  BY <1>1, <1>3, SumsProperties DEF timeout_rem
<1> QED BY <1>4 DEF z_timeout_expires, ClockTypes

LEMMA Multiples ==
  ASSUME NEW a \in Int, NEW b \in Int, NEW c \in Nat, a <= b
  PROVE  a * c <= b * c
OBVIOUS

\* z_add_timeout does not set a deadline that is too early: a relative one is
\* counted from the end of the tick that has begun.
LEMMA AddedDue ==
  ASSUME ~SMP, RoomForLatency, ClockTypes, ListInv, OrderInv, TicksInv, CycleInv,
         NEW p \in Cpus, NEW t \in Timeouts, NEW n \in Nat, NEW absolute \in BOOLEAN,
         z_add_timeout(p, t, n, absolute), DueInv
  PROVE  /\ earliest'[t] \in Int
         /\ earliest'[t] <= (boot + (curr_tick + TicksFromNow(n, absolute))) * CYC_PER_TICK
<1>1. PICK c \in Nat \ {0}, b \in Int, k \in Int, l \in Int, m \in Int :
        c = CYC_PER_TICK /\ b = boot /\ k = curr_tick /\ l = last_ticks /\ m = mtime
  BY MachineTimerAssumption DEF boot, ClockTypes
<1>2. /\ earliest'[t] = IF absolute THEN (b + n) * c
                        ELSE n * c + IF announce_remaining = 0 THEN m ELSE (b + k) * c
      /\ at[p] # "isr"
  BY <1>1 DEF z_add_timeout, DueInv
<1>3. CASE absolute
  <2>1. PICK z \in Int : z = TicksFromNow(n, absolute) /\ z >= n - k
    BY <1>1, <1>3 DEF TicksFromNow, Higher
  <2>2. (b + n) * c <= (b + (k + z)) * c
    BY <2>1, Multiples
  <2>3. earliest'[t] = (b + n) * c /\ (b + n) * c \in Int
    BY <1>2, <1>3
  <2> QED BY <1>1, <2>1, <2>2, <2>3
<1>4. CASE ~absolute /\ announce_remaining # 0
  <2>1. TicksFromNow(n, absolute) = n + 1
    BY <1>4 DEF TicksFromNow, elapsed
  <2>2. n * c + (b + k) * c = (b + (k + n)) * c
    OBVIOUS
  <2>3. (b + (k + n)) * c <= (b + (k + (n + 1))) * c
    BY Multiples
  <2> QED BY <1>1, <1>2, <1>4, <2>1, <2>2, <2>3
<1>5. CASE ~absolute /\ announce_remaining = 0
  <2>1. PICK e \in Int : e = elapsed(mtime) /\ e = m \div c - l
    <3>1. TicksSince(mtime) = mtime \div CYC_PER_TICK - last_ticks
      BY TicksSinceExact DEF CycleInv, NoOverflow, ClockTypes
    <3>2. m \div c - l \in Int
      OBVIOUS
    <3> QED BY <1>1, <1>5, <3>1, <3>2 DEF elapsed
  <2>2. TicksFromNow(n, absolute) = n + 1 + e
    BY <1>5, <2>1 DEF TicksFromNow
  <2>3. b + k >= l
    <3>1. Total(InTransit) = InTransit[p] /\ InTransit[p] \in Int
      BY TransitInt, OneCpuTotal
    <3>2. InTransit[p] <= 0
      BY <1>2 DEF InTransit, OrderInv, ClockTypes
    <3>3. k + 0 + InTransit[p] = l - b
      BY <1>1, <1>5, <3>1 DEF TicksInv
    <3> QED BY <3>1, <3>2, <3>3
  <2>4. PICK q \in Int : q = m \div c /\ m < (q + 1) * c
    OBVIOUS
  <2>5. n * c + m <= (n + (q + 1)) * c
    BY <2>4
  <2>6. n + (q + 1) <= b + (k + (n + 1 + e))
    BY <2>1, <2>3, <2>4
  <2>7. (n + (q + 1)) * c <= (b + (k + (n + 1 + e))) * c
    BY <2>6, Multiples
  <2>8. PICK x \in Int, y \in Int : x = (n + (q + 1)) * c /\ y = (b + (k + (n + 1 + e))) * c
    OBVIOUS
  <2>9. n * c + m \in Int /\ n * c + m <= y
    BY <2>5, <2>7, <2>8
  <2> QED BY <1>1, <1>2, <1>5, <2>2, <2>8, <2>9
<1> QED BY <1>3, <1>4, <1>5

LEMMA NextDue ==
  ASSUME ~SMP, RoomForLatency, ClockTypes, ListInv, OrderInv, TicksInv, CycleInv, DueInv,
         [Next]_vars
  PROVE  DueInv'
<1>1. Kept
  BY NextKeeps
<1>2. ASSUME ToSet(timeout_list') \subseteq ToSet(timeout_list), earliest' \in [Timeouts -> Int],
             \A v \in ToSet(timeout_list') : earliest'[v] = earliest[v]
      PROVE  DueInv'
  BY <1>1, <1>2, DueStays DEF DueInv
<1>3. ASSUME UNCHANGED <<timeout_list, earliest>> PROVE DueInv'
  BY <1>2, <1>3 DEF DueInv
<1>4. CASE Tick /\ UNCHANGED <<listVars, announceVars>>
  BY <1>3, <1>4 DEF listVars
<1>5. ASSUME NEW p \in Cpus, Interrupt(p) PROVE DueInv'
  <2>1. CASE timer_isr(p)
    BY <1>3, <2>1 DEF timer_isr, listVars
  <2>2. CASE LeaveTicks(p)
    BY <1>3, <2>2 DEF LeaveTicks, listVars
  <2>3. ASSUME NEW rem \in Int, HandleFirst(p, rem) PROVE DueInv'
    <3>1. /\ timeout_list # <<>> /\ timeout_list' = Tail(timeout_list)
          /\ earliest' = [earliest EXCEPT ![Head(timeout_list)] = 0]
      BY <2>3 DEF HandleFirst, Overdue
    <3>2. ToSet(timeout_list') = ToSet(timeout_list) \ {Head(timeout_list)}
      BY <3>1, TailList DEF ListInv
    <3>3. \A v \in ToSet(timeout_list') : v \in Timeouts
      BY <3>2, ListElements DEF ListInv
    <3>4. /\ earliest' \in [Timeouts -> Int]
          /\ \A v \in ToSet(timeout_list') : earliest'[v] = earliest[v]
      <4>1. PICK h \in Timeouts : h = Head(timeout_list)
        BY <3>1, TailList DEF ListInv
      <4>2. earliest' = [earliest EXCEPT ![h] = 0] /\ h \notin ToSet(timeout_list')
        BY <3>1, <3>2, <4>1
      <4>3. earliest \in [Timeouts -> Int] /\ earliest' \in [Timeouts -> Int]
        <5>1. earliest \in [Timeouts -> Int]
          BY DEF DueInv
        <5> QED BY <4>2, <5>1
      <4>4. ASSUME NEW v \in ToSet(timeout_list') PROVE earliest'[v] = earliest[v]
        BY <3>3, <4>2, <4>3
      <4> QED BY <4>3, <4>4
    <3> QED BY <1>2, <3>2, <3>4
  <2>4. ASSUME NEW rem \in Int, HandleRest(p, rem) PROVE DueInv'
    BY <1>3, <2>4 DEF HandleRest
  <2>5. CASE (sys_clock_announce(p) /\ ~LeaveTicks(p)) \/ CallbackDone(p)
    BY <2>3, <2>4, <2>5, GoesOn
  <2> QED BY <1>5, <2>1, <2>2, <2>5 DEF Interrupt
<1>6. ASSUME NEW p \in Cpus, sys_clock_tick_get(p) PROVE DueInv'
  BY <1>3, <1>6 DEF sys_clock_tick_get, listVars
<1>7. ASSUME NEW p \in Cpus, NEW t \in Timeouts, NEW n \in Delays \cup Dates,
             NEW absolute \in BOOLEAN, z_add_timeout(p, t, n, absolute)
      PROVE  DueInv'
  <2>1. n \in Nat
    BY TimeoutQueueAssumption
  <2>2. /\ earliest'[t] \in Int
        /\ earliest'[t] <= (boot + (curr_tick + TicksFromNow(n, absolute))) * CYC_PER_TICK
    BY <1>7, <2>1, AddedDue
  <2>3. z_timeout_expires(t)' = curr_tick + TicksFromNow(n, absolute)
    <3>1. timeout_rem(t)' = TicksFromNow(n, absolute)
      BY <1>7, <2>1, AddKeeps
    <3>2. UNCHANGED curr_tick
      BY <1>7 DEF z_add_timeout, announceVars
    <3> QED BY <3>1, <3>2 DEF z_timeout_expires
  <2>4. ToSet(timeout_list') = ToSet(timeout_list) \cup {t}
    BY <1>7, <2>1, AddOrder
  <2>5. /\ earliest' = [earliest EXCEPT ![t] = earliest'[t]]
        /\ earliest' \in [Timeouts -> Int]
    BY <1>7, <2>2 DEF z_add_timeout, DueInv
  <2>6. ASSUME NEW v \in ToSet(timeout_list')
        PROVE  earliest'[v] <= (boot' + z_timeout_expires(v)') * CYC_PER_TICK
    <3>1. CASE v = t
      <4>1. boot' = boot
        BY DEF boot
      <4> QED BY <3>1, <4>1, <2>2, <2>3
    <3>2. CASE v # t
      <4>1. v \in ToSet(timeout_list) /\ v \in Timeouts
        BY <2>4, <3>2, ListElements DEF ListInv
      <4>2. earliest'[v] = earliest[v]
        BY <2>5, <3>2, <4>1 DEF DueInv
      <4> QED BY <1>1, <2>5, <4>1, <4>2, DueStays
    <3> QED BY <3>1, <3>2
  <2> QED BY <2>5, <2>6 DEF DueInv
<1>8. ASSUME NEW p \in Cpus, NEW t \in Timeouts, z_abort_timeout(p, t) PROVE DueInv'
  <2>1. ToSet(timeout_list') = ToSet(timeout_list) \ {t}
    BY <1>8, AbortOrder
  <2>2. earliest' = [earliest EXCEPT ![t] = 0]
    BY <1>8 DEF z_abort_timeout
  <2>3. \A v \in ToSet(timeout_list') : v \in Timeouts
    BY <2>1, ListElements DEF ListInv
  <2> QED BY <1>2, <2>1, <2>2, <2>3 DEF DueInv
<1>9. CASE UNCHANGED vars
  BY <1>3, <1>9 DEF vars, listVars
<1> QED BY <1>4, <1>5, <1>6, <1>7, <1>8, <1>9 DEF Next

LEMMA InitDue == Init => DueInv
BY EmptyList DEF Init, DueInv

LEMMA FiresInTime ==
  ASSUME ~SMP, ClockTypes, ListInv, TicksInv, CycleInv, DueInv, NEW p \in Cpus,
         sys_clock_announce(p) \/ CallbackDone(p),
         NEW t \in ToSet(timeout_list) \ ToSet(timeout_list')
  PROVE  mtime >= earliest[t]
<1>1. ~LeaveTicks(p)
  BY DEF LeaveTicks, listVars
<1>2. PICK rem \in Int : Balanced(p, rem) /\ (HandleFirst(p, rem) \/ HandleRest(p, rem))
  BY <1>1, GoesOn
<1>3. HandleFirst(p, rem)
  BY <1>2 DEF HandleRest
<1>4. timeout_list # <<>> /\ timeout_list' = Tail(timeout_list)
  BY <1>3 DEF HandleFirst, Overdue
<1>5. t = Head(timeout_list)
  BY <1>4, TailList DEF ListInv
<1>6. z_timeout_expires(t) \in Int /\ boot + z_timeout_expires(t) <= last_ticks
  BY <1>2, <1>3, <1>5, NotBeforeTick
<1>7. PICK c \in Nat, b \in Int, l \in Int, x \in Int :
        c = CYC_PER_TICK /\ b = boot /\ l = last_ticks /\ x = z_timeout_expires(t)
  BY <1>6, MachineTimerAssumption DEF boot, ClockTypes
<1>8. (b + x) * c <= l * c
  BY <1>6, <1>7, Multiples
<1>9. t \in Timeouts
  BY ListElements DEF ListInv
<1>10. earliest[t] <= (b + x) * c /\ earliest[t] \in Int
  BY <1>7, <1>9 DEF DueInv
<1>11. l * c <= mtime /\ mtime \in Int
  BY <1>7 DEF CycleInv, CountInv, ClockTypes
<1>12. PICK y \in Int, z \in Int : y = (b + x) * c /\ z = l * c
  OBVIOUS
<1> QED BY <1>8, <1>10, <1>11, <1>12

\* timeout.c with one CPU: no callback is executed before the time that was asked
\* for has passed in full, whatever is added and aborted in the meantime.
THEOREM NeverEarly == ASSUME ~SMP, RoomForLatency PROVE Spec => NotEarly
<1> DEFINE J == ClockTypes /\ ListInv /\ TicksInv /\ CycleInv /\ OrderInv /\ DueInv
<1>1. Init => J
  BY InitTypes, InitTicks, InitCycles, InitOrder, InitDue
<1>2. J /\ [Next]_vars => J'
  BY NextTypes, NextKeeps, NextTicks, NextCycles, NextOrder, NextDue
<1>3. J /\ [Next]_vars =>
        [\A t \in ToSet(timeout_list) \ ToSet(timeout_list') :
           (\E p \in Cpus : sys_clock_announce(p) \/ CallbackDone(p))
             => mtime >= earliest[t]]_vars
  BY FiresInTime
<1> HIDE DEF J
<1> QED BY <1>1, <1>2, <1>3, PTL DEF Spec, NotEarly
-----------------------------------------------------------------------------
(* The abstract specification, with one CPU *)

Entries == Timeouts \X Int

\* A holds the timeouts of list s with their deadlines f.
Lists(A, s, f) ==
  /\ A \in Seq(Entries) /\ Len(A) = Len(s)
  /\ \A i \in 1..Len(s) : A[i] = <<s[i], f[s[i]]>>

ScheduleOf(s, d, now) ==
  [i \in DOMAIN s |-> <<s[i], now + Sums(s, d)[Place(s, s[i])]>>]

DeadlineOf(s, d, now) == [v \in Timeouts |-> now + Sums(s, d)[Place(s, v)]]

LEMMA ScheduleLists ==
  ASSUME NEW s \in Seq(Timeouts), Distinct(s), NEW d \in [Timeouts -> Int], NEW now \in Int
  PROVE  Lists(ScheduleOf(s, d, now), s, DeadlineOf(s, d, now))
<1> DEFINE A == ScheduleOf(s, d, now)
           f == DeadlineOf(s, d, now)
<1>1. Len(s) \in Nat /\ DOMAIN s = 1..Len(s)
  OBVIOUS
<1>2. ASSUME NEW i \in 1..Len(s)
      PROVE  A[i] = <<s[i], f[s[i]]>> /\ s[i] \in Timeouts /\ f[s[i]] \in Int
  <2>1. s[i] \in Timeouts
    OBVIOUS
  <2>2. f[s[i]] = now + Sums(s, d)[Place(s, s[i])]
    BY <2>1 DEF DeadlineOf
  <2>3. Place(s, s[i]) = i /\ i \in 0..Len(s)
    BY PlaceOf
  <2>4. Sums(s, d)[i] \in Int
    BY <2>3, SumsProperties
  <2>5. A[i] = <<s[i], now + Sums(s, d)[Place(s, s[i])]>>
    BY <1>1 DEF ScheduleOf
  <2> QED BY <2>1, <2>2, <2>3, <2>4, <2>5
<1>3. A = [i \in 1..Len(s) |-> A[i]]
  BY <1>1 DEF ScheduleOf
<1> HIDE DEF A, f
<1>4. ASSUME NEW i \in 1..Len(s) PROVE A[i] \in Entries
  <2>1. PICK a \in Timeouts, b \in Int : a = s[i] /\ b = f[s[i]]
    BY <1>2
  <2>2. A[i] = <<a, b>>
    BY <1>2, <2>1
  <2> QED BY <2>2 DEF Entries
<1>5. A \in [1..Len(s) -> Entries]
  BY <1>3, <1>4
<1>6. A \in Seq(Entries) /\ Len(A) = Len(s)
  <2>1. PICK n \in Nat : n = Len(s)
    BY <1>1
  <2>2. A \in [1..n -> Entries]
    BY <1>5, <2>1
  <2> QED BY <2>1, <2>2
<1> QED BY <1>2, <1>6 DEF Lists, A, f

LEMMA ListsDistinct ==
  ASSUME NEW A, NEW s \in Seq(Timeouts), Distinct(s), NEW f, Lists(A, s, f)
  PROVE  Distinct(A)
<1> SUFFICES ASSUME NEW i \in 1..Len(s), NEW j \in 1..Len(s), A[i] = A[j] PROVE i = j
  BY DEF Distinct, Lists
<1>1. A[i] = <<s[i], f[s[i]]>> /\ A[j] = <<s[j], f[s[j]]>>
  BY DEF Lists
<1>2. s[i] = s[j]
  <2>1. \A a, b, c, e : <<a, b>> = <<c, e>> => a = c
    BY SMT
  <2>2. <<s[i], f[s[i]]>> = <<s[j], f[s[j]]>>
    BY <1>1, Zenon
  <2> QED BY <2>1, <2>2, Zenon
<1> QED BY <1>2 DEF Distinct

\* A timeout that comes or goes does so in the schedule as well.
LEMMA ScheduleWith ==
  ASSUME NEW s \in Seq(Timeouts), NEW u \in Seq(Timeouts), NEW k \in Nat, NEW x,
         With(s, u, k, x), NEW A, NEW f, Lists(A, s, f), NEW B, NEW g, Lists(B, u, g),
         \A v \in ToSet(u) : f[v] = g[v]
  PROVE  With(A, B, k, A[k])
<1>1. Len(A) = Len(B) + 1 /\ Len(A) = Len(s) /\ Len(B) = Len(u) /\ k \in 1..Len(A)
  BY DEF With, Lists
<1>2. \A i \in 1..Len(u) : u[i] \in ToSet(u)
  BY ListElements
<1>3. ASSUME NEW i \in 1..(k - 1) PROVE i \in 1..Len(A) /\ i \in 1..Len(B) /\ A[i] = B[i]
  <2>1. i \in 1..Len(s) /\ i \in 1..Len(u) /\ s[i] = u[i]
    BY DEF With
  <2>2. A[i] = <<s[i], f[s[i]]>> /\ B[i] = <<u[i], g[u[i]]>>
    BY <2>1 DEF Lists
  <2> QED BY <1>1, <1>2, <2>1, <2>2
<1>4. ASSUME NEW i \in k..Len(B)
      PROVE  i \in 1..Len(B) /\ i + 1 \in 1..Len(A) /\ A[i + 1] = B[i]
  <2>1. i \in 1..Len(u) /\ i + 1 \in 1..Len(s) /\ s[i + 1] = u[i]
    BY <1>1 DEF With
  <2>2. PICK h \in 1..Len(s) : h = i + 1
    BY <2>1
  <2>3. A[h] = <<s[h], f[s[h]]>> /\ B[i] = <<u[i], g[u[i]]>>
    BY <2>1, <2>2 DEF Lists
  <2> QED BY <1>1, <1>2, <2>1, <2>2, <2>3
<1> QED BY <1>1, <1>3, <1>4 DEF With

\* Two lists with the same elements at the same places are one.
LEMMA SameList ==
  ASSUME NEW S, NEW s \in Seq(S), NEW u \in Seq(S), Len(s) = Len(u),
         \A i \in 1..Len(s) : s[i] = u[i]
  PROVE  s = u
OBVIOUS

LEMMA WithUnique ==
  ASSUME NEW S, NEW s \in Seq(S), NEW u \in Seq(S), NEW v \in Seq(S), NEW k \in Nat, NEW x
  PROVE  /\ With(s, u, k, x) /\ With(s, v, k, x) => u = v
         /\ With(u, s, k, x) /\ With(v, s, k, x) => u = v
<1>1. ASSUME With(s, u, k, x), With(s, v, k, x) PROVE u = v
  <2>1. Len(u) = Len(v) /\ Len(u) \in Nat
    BY <1>1 DEF With
  <2>2. ASSUME NEW i \in 1..Len(u) PROVE u[i] = v[i]
    <3>1. CASE i < k
      <4>1. i \in 1..(k - 1)
        BY <3>1
      <4>2. s[i] = u[i] /\ s[i] = v[i]
        BY <1>1, <4>1 DEF With
      <4> QED BY <4>2
    <3>2. CASE ~(i < k)
      <4>1. i \in k..Len(u) /\ i \in k..Len(v)
        BY <2>1, <3>2
      <4>2. s[i + 1] = u[i] /\ s[i + 1] = v[i]
        BY <1>1, <4>1 DEF With
      <4> QED BY <4>2
    <3> QED BY <3>1, <3>2
  <2> QED BY <2>1, <2>2, SameList
<1>2. ASSUME With(u, s, k, x), With(v, s, k, x) PROVE u = v
  <2>1. Len(u) = Len(v) /\ Len(u) = Len(s) + 1 /\ Len(s) \in Nat
    BY <1>2 DEF With
  <2>2. ASSUME NEW i \in 1..Len(u) PROVE u[i] = v[i]
    <3>1. CASE i < k
      <4>1. i \in 1..(k - 1)
        BY <3>1
      <4>2. u[i] = s[i] /\ v[i] = s[i]
        BY <1>2, <4>1 DEF With
      <4> QED BY <4>2
    <3>2. CASE i = k
      BY <1>2, <3>2 DEF With
    <3>3. CASE i > k
      <4>1. PICK h \in k..Len(s) : h + 1 = i
        <5>1. i - 1 \in k..Len(s) /\ (i - 1) + 1 = i
          BY <2>1, <3>3
        <5> QED BY <5>1
      <4>2. u[h + 1] = s[h] /\ v[h + 1] = s[h]
        BY <1>2, <4>1 DEF With
      <4> QED BY <4>1, <4>2
    <3> QED BY <3>1, <3>2, <3>3
  <2> QED BY <2>1, <2>2, SameList
<1> QED BY <1>1, <1>2

\* The schedule before and after a step.
Deadlines == DeadlineOf(timeout_list, dticks, curr_tick)

LEMMA Schedules ==
  ASSUME ClockTypes, ListInv, ClockTypes', ListInv', Kept
  PROVE  /\ Lists(Schedule, timeout_list, Deadlines)
         /\ Lists(Schedule', timeout_list', Deadlines')
         /\ \A v \in ToSet(timeout_list) \cap ToSet(timeout_list') : Deadlines'[v] = Deadlines[v]
<1>1. Schedule = ScheduleOf(timeout_list, dticks, curr_tick)
  BY DEF Schedule, ScheduleOf, z_timeout_expires, timeout_rem
<1>2. Schedule' = ScheduleOf(timeout_list', dticks', curr_tick')
  BY DEF Schedule, ScheduleOf, z_timeout_expires, timeout_rem
<1>3. Deadlines' = DeadlineOf(timeout_list', dticks', curr_tick')
  BY DEF Deadlines
<1>4. Lists(ScheduleOf(timeout_list, dticks, curr_tick), timeout_list, Deadlines)
  BY ScheduleLists DEF ClockTypes, ListInv, Deadlines
<1>5. Lists(ScheduleOf(timeout_list', dticks', curr_tick'), timeout_list',
            DeadlineOf(timeout_list', dticks', curr_tick'))
  BY ScheduleLists DEF ClockTypes, ListInv
<1>6. ASSUME NEW v \in ToSet(timeout_list) \cap ToSet(timeout_list')
      PROVE  Deadlines'[v] = Deadlines[v]
  <2>1. v \in Timeouts
    BY ListElements DEF ListInv
  <2>2. Deadlines[v] = z_timeout_expires(v) /\ Deadlines'[v] = z_timeout_expires(v)'
    BY <2>1 DEF Deadlines, DeadlineOf, z_timeout_expires, timeout_rem
  <2> QED BY <2>2 DEF Kept
<1> QED BY <1>1, <1>2, <1>3, <1>4, <1>5, <1>6

\* A step that leaves the list alone leaves the schedule alone.
LEMMA ScheduleStays ==
  ASSUME ClockTypes, ListInv, ClockTypes', ListInv', Kept, UNCHANGED timeout_list
  PROVE  Schedule' = Schedule
<1> DEFINE s == timeout_list
<1>1. /\ Lists(Schedule, s, Deadlines) /\ Lists(Schedule', s, Deadlines')
      /\ \A v \in ToSet(s) : Deadlines'[v] = Deadlines[v]
  BY Schedules
<1>2. s \in Seq(Timeouts)
  BY DEF ListInv
<1>3. PICK A, B, f, g : A = Schedule /\ B = Schedule' /\ f = Deadlines /\ g = Deadlines'
  OBVIOUS
<1> HIDE DEF s
<1>4. Lists(A, s, f) /\ Lists(B, s, g) /\ \A v \in ToSet(s) : g[v] = f[v]
  BY <1>1, <1>3
<1>5. A \in Seq(Entries) /\ B \in Seq(Entries) /\ Len(A) = Len(B) /\ Len(A) = Len(s)
  BY <1>4 DEF Lists
<1>6. ASSUME NEW i \in 1..Len(A) PROVE A[i] = B[i]
  <2>1. s[i] \in ToSet(s)
    BY <1>2, <1>5, ListElements
  <2> QED BY <1>4, <1>5, <2>1 DEF Lists
<1> QED BY <1>3, <1>5, <1>6, SameList
\* z_abort_timeout takes one entry from the schedule, ...
LEMMA AbortImplements ==
  ASSUME ClockTypes, ListInv, ClockTypes', ListInv', Kept, NEW p \in Cpus, NEW t \in Timeouts,
         z_abort_timeout(p, t)
  PROVE  Abstract!Abort(t)
<1> DEFINE s == timeout_list
           u == timeout_list'
           k == Place(s, t)
<1>1. t \in ToSet(s) /\ u = RemoveFirst(s, t) /\ UNCHANGED last_ticks
  BY DEF z_abort_timeout
<1>2. s \in Seq(Timeouts) /\ Distinct(s)
  BY DEF ListInv
<1>3. PICK A, B, f, g : A = Schedule /\ B = Schedule' /\ f = Deadlines /\ g = Deadlines'
  OBVIOUS
<1>4. Lists(A, s, f) /\ Lists(B, u, g) /\ \A v \in ToSet(s) \cap ToSet(u) : g[v] = f[v]
  BY <1>3, Schedules
<1> HIDE DEF s, u, k
<1>5. /\ u \in Seq(Timeouts) /\ k \in 1..Len(s) /\ k \in Nat /\ With(s, u, k, t)
      /\ ToSet(u) = ToSet(s) \ {t}
  BY <1>1, <1>2, Removed, RemoveList DEF k
<1>6. A \in Seq(Entries) /\ B \in Seq(Entries) /\ Len(A) = Len(s) /\ Distinct(A)
  BY <1>2, <1>4, ListsDistinct DEF Lists
<1>7. s[k] = t /\ A[k] = <<s[k], f[s[k]]>> /\ k \in 1..Len(A) /\ A[k] \in ToSet(A)
  BY <1>4, <1>5, <1>6, ListElements DEF With, Lists
<1>8. With(A, B, k, A[k])
  <2>1. \A v \in ToSet(u) : f[v] = g[v]
    BY <1>4, <1>5
  <2> QED BY <1>2, <1>4, <1>5, <2>1, ScheduleWith
<1>9. PICK C : C = RemoveFirst(A, A[k])
  OBVIOUS
<1>10. C \in Seq(Entries) /\ With(A, C, k, A[k])
  <2>1. C \in Seq(Entries) /\ With(A, C, Place(A, A[k]), A[k])
    BY <1>6, <1>7, <1>9, Removed
  <2>2. Place(A, A[k]) = k
    BY <1>6, <1>7, PlaceOf
  <2> QED BY <2>1, <2>2
<1>11. B = RemoveFirst(A, A[k])
  BY <1>5, <1>6, <1>8, <1>9, <1>10, WithUnique
<1>12. B = Abstract!RemoveAt(A, k)
  <2>1. \E i \in 1..Len(A) : A[i] = A[k]
    BY <1>7
  <2>2. RemoveFirst(A, A[k]) = RemoveAt(A, Place(A, A[k]))
    BY <2>1 DEF RemoveFirst, Place
  <2>3. Place(A, A[k]) = k
    BY <1>6, <1>7, PlaceOf
  <2>4. RemoveAt(A, k) = Abstract!RemoveAt(A, k)
    BY DEF RemoveAt, Abstract!RemoveAt
  <2> QED BY <1>11, <2>2, <2>3, <2>4
<1>13. k \in DOMAIN A /\ A[k][1] = t
  BY <1>6, <1>7
<1>14. UNCHANGED (last_ticks - boot)
  BY <1>1 DEF boot
<1>15. {i \in DOMAIN A : A[i][1] = t} = {k}
  <2>1. ASSUME NEW i \in DOMAIN A, A[i][1] = t PROVE i = k
    <3>1. i \in 1..Len(s)
      BY <1>6
    <3>2. A[i] = <<s[i], f[s[i]]>>
      BY <1>4, <3>1 DEF Lists
    <3>3. s[i] = s[k]
      BY <1>7, <2>1, <3>2
    <3> QED BY <1>2, <1>5, <3>1, <3>3 DEF Distinct
  <2> QED BY <1>13, <2>1
<1>16. B = Abstract!Without(A, t)
  BY <1>12, <1>15 DEF Abstract!Without, Abstract!Timeout
<1> QED BY <1>3, <1>13, <1>14, <1>16 DEF Abstract!Abort, Abstract!Scheduled, Abstract!Timeout

\* ... z_add_timeout puts one in behind those that are due no later, ...
LEMMA AddImplements ==
  ASSUME ClockTypes, ListInv, OrderInv, ClockTypes', ListInv', Kept, NEW p \in Cpus,
         NEW t \in Timeouts, NEW n \in Nat, NEW absolute \in BOOLEAN,
         z_add_timeout(p, t, n, absolute)
  PROVE  \E i \in DOMAIN Schedule' : /\ Schedule'[i][1] = t
                                     /\ Abstract!Add(t, Schedule'[i][2])
<1> DEFINE s == timeout_list'
           u == timeout_list
           k == FirstLater(n, absolute)
<1>1. /\ With(s, u, k, t) /\ timeout_rem(t)' = TicksFromNow(n, absolute)
      /\ t \notin ToSet(u) /\ ToSet(s) = ToSet(u) \cup {t} /\ UNCHANGED <<last_ticks, curr_tick>>
  <2>1. With(s, u, k, t) /\ timeout_rem(t)' = TicksFromNow(n, absolute)
    BY AddKeeps
  <2>2. t \notin ToSet(u) /\ ToSet(s) = ToSet(u) \cup {t}
    BY AddOrder
  <2>3. UNCHANGED <<last_ticks, curr_tick>>
    BY DEF z_add_timeout, announceVars
  <2> QED BY <2>1, <2>2, <2>3
<1>2. u \in Seq(Timeouts) /\ Distinct(u) /\ s \in Seq(Timeouts) /\ Distinct(s)
  BY DEF ListInv
<1>3. PICK A, B, f, g : A = Schedule /\ B = Schedule' /\ f = Deadlines /\ g = Deadlines'
  OBVIOUS
<1>4. Lists(A, u, f) /\ Lists(B, s, g) /\ \A v \in ToSet(u) \cap ToSet(s) : g[v] = f[v]
  BY <1>3, Schedules
<1>5. k \in 1..(Len(u) + 1) /\ k \in Nat /\ Len(u) \in Nat
  <2>1. k \in 1..(Len(u) + 1)
    BY SearchEnds
  <2>2. Len(u) \in Nat
    BY <1>2
  <2> HIDE DEF k, u
  <2> QED BY <2>1, <2>2
<1>6. PICK z \in Int, c \in Int : z = TicksFromNow(n, absolute) /\ c = curr_tick
  BY TicksFromNowInt DEF ClockTypes
<1>7. g[t] = c + z
  <2>1. g[t] = z_timeout_expires(t)'
    BY <1>3 DEF Deadlines, DeadlineOf, z_timeout_expires, timeout_rem
  <2> QED BY <1>1, <1>6, <2>1 DEF z_timeout_expires
<1>8. \A i \in 1..Len(u) : f[u[i]] = c + Sums(u, dticks)[i] /\ Sums(u, dticks)[i] \in Int
  <2> TAKE i \in 1..Len(u)
  <2>1. u[i] \in Timeouts /\ Place(u, u[i]) = i /\ i \in 0..Len(u)
    BY <1>2, PlaceOf
  <2>2. Sums(u, dticks)[i] \in Int
    BY <1>2, <2>1, SumsProperties DEF ListInv
  <2> QED BY <1>3, <1>6, <2>1, <2>2 DEF Deadlines, DeadlineOf
<1>9. /\ \A j \in 1..(k - 1) : Sums(u, dticks)[j] <= z
      /\ \A j \in k..Len(u) : Sums(u, dticks)[j] > z
  BY <1>6, PlaceInOrder
<1> HIDE DEF s, u, k
<1>10. /\ A \in Seq(Entries) /\ B \in Seq(Entries) /\ Len(A) = Len(u) /\ Len(B) = Len(s)
       /\ Distinct(A)
  BY <1>2, <1>4, ListsDistinct DEF Lists
<1>11. s[k] = t /\ k \in 1..Len(s) /\ B[k] = <<t, c + z>> /\ B[k] \in Entries
  <2>1. s[k] = t /\ k \in 1..Len(s)
    BY <1>1 DEF With
  <2>2. B[k] = <<s[k], g[s[k]]>>
    BY <1>4, <2>1 DEF Lists
  <2> QED BY <1>7, <1>10, <2>1, <2>2
<1>12. \A i \in 1..Len(A) : A[i][1] = u[i] /\ A[i][2] = f[u[i]] /\ u[i] # t
  <2> TAKE i \in 1..Len(A)
  <2>1. A[i] = <<u[i], f[u[i]]>>
    BY <1>4, <1>10 DEF Lists
  <2>2. u[i] \in ToSet(u)
    BY <1>2, <1>10, ListElements
  <2> QED BY <1>1, <2>1, <2>2
<1>13. DOMAIN A = 1..Len(u)
  BY <1>10
<1>14. ASSUME NEW i \in DOMAIN A PROVE A[i][2] <= c + z <=> i < k
  <2>0. i \in 1..Len(u)
    BY <1>13
  <2>1. PICK y \in Int : y = Sums(u, dticks)[i] /\ A[i][2] = c + y
    BY <1>8, <1>10, <1>12, <2>0
  <2>2. CASE i < k
    <3>1. i \in 1..(k - 1)
      BY <1>5, <2>0, <2>2
    <3>2. y <= z
      BY <1>9, <2>1, <3>1
    <3> QED BY <2>1, <2>2, <3>2
  <2>3. CASE ~(i < k)
    <3>1. i \in k..Len(u)
      BY <1>5, <2>0, <2>3
    <3>2. y > z
      BY <1>9, <2>1, <3>1
    <3> QED BY <2>1, <2>3, <3>2
  <2> QED BY <2>2, <2>3
<1>15. With(B, A, k, B[k])
  <2>1. \A v \in ToSet(u) : g[v] = f[v]
    BY <1>1, <1>4
  <2> QED BY <1>1, <1>2, <1>4, <1>5, <2>1, ScheduleWith
<1>16. PICK C : C = InsertAt(A, k, B[k])
  OBVIOUS
<1>17. C \in Seq(Entries) /\ With(C, A, k, B[k])
  <2>1. B[k] \notin ToSet(A)
    <3>1. \A i \in 1..Len(A) : A[i] # B[k]
      BY <1>11, <1>12
    <3> QED BY <1>10, <3>1, ListElements
  <2>2. k \in 1..(Len(A) + 1)
    BY <1>5, <1>10
  <2> QED BY <1>10, <1>11, <1>16, <2>1, <2>2, Inserted
<1>18. B = InsertAt(A, k, <<t, c + z>>)
  BY <1>5, <1>10, <1>11, <1>15, <1>16, <1>17, WithUnique
<1>19. B = Abstract!InsertAt(A, k, <<t, c + z>>) /\ k \in 1..(Len(A) + 1)
  BY <1>5, <1>10, <1>18 DEF InsertAt, Abstract!InsertAt
<1>20. \A i \in DOMAIN A : A[i][1] # t
  BY <1>10, <1>12
<1>21. UNCHANGED (last_ticks - boot)
  BY <1>1 DEF boot
<1>22. Abstract!Add(t, c + z)
  <2> DEFINE Behind(j) == \A i \in DOMAIN A : A[i][2] <= c + z <=> i < j
  <2>1. Behind(k)
    BY <1>14
  <2>2. ASSUME NEW j \in 1..(Len(A) + 1), Behind(j) PROVE j = k
    <3>1. Len(A) \in Nat /\ DOMAIN A = 1..Len(A) /\ k \in 1..(Len(A) + 1)
      BY <1>10, <1>19
    <3>2. CASE j < k
      <4>1. j \in DOMAIN A
        BY <3>1, <3>2
      <4>2. (A[j][2] <= c + z <=> j < j) /\ (A[j][2] <= c + z <=> j < k)
        BY <2>1, <2>2, <4>1
      <4> QED BY <3>2, <4>2
    <3>3. CASE k < j
      <4>1. k \in DOMAIN A
        BY <3>1, <3>3
      <4>2. (A[k][2] <= c + z <=> k < j) /\ (A[k][2] <= c + z <=> k < k)
        BY <2>1, <2>2, <4>1
      <4> QED BY <1>5, <3>3, <4>2
    <3> QED BY <3>1, <3>2, <3>3
  <2>3. k = CHOOSE j \in 1..(Len(A) + 1) : Behind(j)
    <3> HIDE DEF Behind
    <3> QED BY <1>19, <2>1, <2>2
  <2>4. B = Abstract!Inserted(A, t, c + z)
    BY <1>19, <2>3 DEF Abstract!Inserted, Abstract!Deadline
  <2> QED BY <1>3, <1>20, <1>21, <2>4 DEF Abstract!Add, Abstract!Scheduled, Abstract!Timeout
<1>23. k \in DOMAIN B /\ B[k][1] = t /\ B[k][2] = c + z
  BY <1>10, <1>11
<1> QED BY <1>3, <1>22, <1>23

\* ... and sys_clock_announce takes the first one, whose tick has come.
LEMMA FirstImplements ==
  ASSUME ~SMP, ClockTypes, ListInv, ClockTypes', ListInv', Kept, NEW p \in Cpus, NEW rem \in Int,
         Balanced(p, rem), HandleFirst(p, rem)
  PROVE  Abstract!Fire
<1> DEFINE s == timeout_list
           u == timeout_list'
<1>1. s # <<>> /\ u = Tail(s) /\ UNCHANGED last_ticks
  BY DEF HandleFirst, Overdue, timerVars
<1>2. s \in Seq(Timeouts) /\ Distinct(s) /\ u \in Seq(Timeouts)
  BY DEF ListInv
<1>3. PICK A, B, f, g : A = Schedule /\ B = Schedule' /\ f = Deadlines /\ g = Deadlines'
  OBVIOUS
<1>4. Lists(A, s, f) /\ Lists(B, u, g) /\ \A v \in ToSet(s) \cap ToSet(u) : g[v] = f[v]
  BY <1>3, Schedules
<1>5. PICK d \in Int : d = f[Head(s)] /\ d <= last_ticks - boot
  <2>1. Head(s) \in Timeouts
    BY <1>1, <1>2
  <2>2. f[Head(s)] = z_timeout_expires(Head(s))
    BY <1>3, <2>1 DEF Deadlines, DeadlineOf, z_timeout_expires, timeout_rem
  <2>3. z_timeout_expires(Head(s)) \in Int /\ boot + z_timeout_expires(Head(s)) <= last_ticks
    BY NotBeforeTick
  <2>4. boot \in Int /\ last_ticks \in Int
    BY MachineTimerAssumption DEF ClockTypes, boot
  <2> QED BY <2>2, <2>3, <2>4
<1> HIDE DEF s, u
<1>6. /\ Len(s) = Len(u) + 1 /\ Len(u) \in Nat /\ Head(s) = s[1]
      /\ \A i \in 1..Len(u) : i + 1 \in 1..Len(s) /\ u[i] = s[i + 1]
  BY <1>1, <1>2
<1>7. A \in Seq(Entries) /\ B \in Seq(Entries) /\ Len(A) = Len(s) /\ Len(B) = Len(u)
  BY <1>4 DEF Lists
<1>8. A # <<>> /\ Head(A) = A[1] /\ A[1] = <<s[1], f[s[1]]>>
  <2>1. 1 \in 1..Len(s)
    BY <1>6
  <2>2. A[1] = <<s[1], f[s[1]]>>
    BY <1>4, <2>1 DEF Lists
  <2> QED BY <1>6, <1>7, <2>2
<1>9. B = Tail(A)
  <2>1. /\ Tail(A) \in Seq(Entries) /\ Len(Tail(A)) = Len(B)
        /\ \A i \in 1..Len(B) : Tail(A)[i] = A[i + 1]
    BY <1>6, <1>7, <1>8
  <2>2. ASSUME NEW i \in 1..Len(B) PROVE B[i] = A[i + 1]
    <3>1. i \in 1..Len(u)
      BY <1>7
    <3>2. PICK h \in 1..Len(s) : h = i + 1 /\ u[i] = s[h]
      BY <1>6, <3>1
    <3>3. B[i] = <<u[i], g[u[i]]>> /\ A[h] = <<s[h], f[s[h]]>>
      BY <1>4, <3>1, <3>2 DEF Lists
    <3>4. u[i] \in ToSet(u) /\ s[h] \in ToSet(s)
      BY <1>2, <3>1, ListElements
    <3> QED BY <1>4, <3>2, <3>3, <3>4
  <2> QED BY <1>7, <2>1, <2>2, SameList
<1>10. Head(A)[2] <= last_ticks - boot
  BY <1>5, <1>6, <1>8
<1>11. UNCHANGED (last_ticks - boot)
  BY <1>1 DEF boot
<1> QED BY <1>3, <1>8, <1>9, <1>10, <1>11 DEF Abstract!Fire, Abstract!Deadline

LEMMA NextImplements ==
  ASSUME ~SMP, ClockTypes, ListInv, TicksInv, OrderInv, [Next]_vars
  PROVE  [Abstract!Next]_(Abstract!vars)
<1>1. ClockTypes' /\ ListInv' /\ Kept
  BY NextTypes, NextKeeps
<1>2. ASSUME UNCHANGED <<timeout_list, last_ticks>> PROVE UNCHANGED Abstract!vars
  <2>1. Schedule' = Schedule
    BY <1>1, <1>2, ScheduleStays
  <2> QED BY <1>2, <2>1 DEF Abstract!vars, boot
<1>3. CASE Tick /\ UNCHANGED <<listVars, announceVars>>
  BY <1>2, <1>3 DEF Tick, listVars
<1>4. ASSUME NEW p \in Cpus, Interrupt(p) PROVE [Abstract!Next]_(Abstract!vars)
  <2>1. CASE timer_isr(p)
    <3>1. PICK n \in Nat : n = TicksSince(mtime)
      BY TicksSinceNat DEF ClockTypes
    <3>2. last_ticks' = last_ticks + n /\ UNCHANGED timeout_list
      BY <2>1, <3>1 DEF timer_isr, timer_isr_locked, listVars
    <3>3. CASE n = 0
      BY <1>2, <3>2, <3>3 DEF ClockTypes
    <3>4. CASE n > 0
      <4>1. Schedule' = Schedule
        BY <1>1, <3>2, ScheduleStays
      <4>2. last_ticks \in Int /\ boot \in Int /\ boot' = boot
        BY MachineTimerAssumption DEF ClockTypes, boot
      <4>3. (last_ticks - boot)' > last_ticks - boot
        BY <3>2, <3>4, <4>2
      <4>4. Abstract!Advance
        BY <4>1, <4>3 DEF Abstract!Advance
      <4> QED BY <4>4 DEF Abstract!Next
    <3> QED BY <3>3, <3>4
  <2>2. CASE LeaveTicks(p)
    BY <1>2, <2>2 DEF LeaveTicks, listVars, timerVars
  <2>3. CASE (sys_clock_announce(p) /\ ~LeaveTicks(p)) \/ CallbackDone(p)
    <3>1. PICK rem \in Int : Balanced(p, rem) /\ (HandleFirst(p, rem) \/ HandleRest(p, rem))
      BY <2>3, GoesOn
    <3>2. CASE HandleFirst(p, rem)
      <4>1. Abstract!Fire
        BY <1>1, <3>1, <3>2, FirstImplements
      <4> QED BY <4>1 DEF Abstract!Next
    <3>3. CASE HandleRest(p, rem)
      BY <1>2, <3>3 DEF HandleRest
    <3> QED BY <3>1, <3>2, <3>3
  <2> QED BY <1>4, <2>1, <2>2, <2>3 DEF Interrupt
<1>5. ASSUME NEW p \in Cpus, sys_clock_tick_get(p) PROVE [Abstract!Next]_(Abstract!vars)
  BY <1>2, <1>5 DEF sys_clock_tick_get, listVars
<1>6. ASSUME NEW p \in Cpus, NEW t \in Timeouts, NEW n \in Delays \cup Dates,
             NEW absolute \in BOOLEAN, z_add_timeout(p, t, n, absolute)
      PROVE  [Abstract!Next]_(Abstract!vars)
  <2>1. n \in Nat
    BY TimeoutQueueAssumption
  <2>2. \E i \in DOMAIN Schedule' : Schedule'[i][1] = t /\ Abstract!Add(t, Schedule'[i][2])
    BY <1>1, <1>6, <2>1, AddImplements
  <2> QED BY <2>2 DEF Abstract!Next, Abstract!Timeout, Abstract!Deadline
<1>7. ASSUME NEW p \in Cpus, NEW t \in Timeouts, z_abort_timeout(p, t)
      PROVE  [Abstract!Next]_(Abstract!vars)
  <2>1. Abstract!Abort(t)
    BY <1>1, <1>7, AbortImplements
  <2> QED BY <2>1 DEF Abstract!Next
<1>8. CASE UNCHANGED vars
  BY <1>2, <1>8 DEF vars, listVars, timerVars
<1> QED BY <1>3, <1>4, <1>5, <1>6, <1>7, <1>8 DEF Next

LEMMA InitImplements == Init => Abstract!Init
<1> SUFFICES ASSUME Init PROVE Abstract!Init
  OBVIOUS
<1>1. last_ticks - boot = 0
  <2>1. boot \in Int
    BY MachineTimerAssumption DEF boot
  <2> QED BY <2>1 DEF Init, sys_clock_driver_init
<1>2. timeout_list = <<>>
  BY DEF Init
<1>3. Schedule = <<>>
  BY <1>2 DEF Schedule, z_timeout_expires, timeout_rem
<1> QED BY <1>1, <1>3 DEF Abstract!Init

LEMMA AnnounceInTurn ==
  ASSUME ~SMP, ClockTypes, ListInv, TicksInv, [Next]_vars, NEW p \in Cpus,
         sys_clock_announce(p) \/ CallbackDone(p)
  PROVE  Abstract!Fire \/ UNCHANGED Schedule
<1>1. ClockTypes' /\ ListInv' /\ Kept
  BY NextTypes, NextKeeps
<1>2. ASSUME UNCHANGED timeout_list PROVE UNCHANGED Schedule
  BY <1>1, <1>2, ScheduleStays
<1>3. CASE LeaveTicks(p)
  BY <1>2, <1>3 DEF LeaveTicks, listVars
<1>4. CASE (sys_clock_announce(p) /\ ~LeaveTicks(p)) \/ CallbackDone(p)
  <2>1. PICK rem \in Int : Balanced(p, rem) /\ (HandleFirst(p, rem) \/ HandleRest(p, rem))
    BY <1>4, GoesOn
  <2>2. CASE HandleFirst(p, rem)
    BY <1>1, <2>1, <2>2, FirstImplements
  <2>3. CASE HandleRest(p, rem)
    BY <1>2, <2>3 DEF HandleRest
  <2> QED BY <2>1, <2>2, <2>3
<1> QED BY <1>3, <1>4

\* With one CPU what sys_clock_announce takes off the list is the first timeout,
\* and its tick was announced.
THEOREM HandledInTurn == ASSUME ~SMP PROVE Spec => FiresInTurn
<1> DEFINE J == ClockTypes /\ ListInv /\ TicksInv
           InTurn == \A p \in Cpus : sys_clock_announce(p) \/ CallbackDone(p)
                       => Abstract!Fire \/ UNCHANGED Schedule
<1>1. Init => J
  BY InitTypes, InitTicks
<1>2. J /\ [Next]_vars => J'
  BY NextTypes, NextKeeps, NextTicks
<1>3. J /\ [Next]_vars => InTurn
  BY AnnounceInTurn
<1> HIDE DEF J, InTurn
<1>4. Spec => [][InTurn]_vars
  BY <1>1, <1>2, <1>3, PTL DEF Spec
<1> QED BY <1>4 DEF FiresInTurn, InTurn

\* timeout.c with one CPU implements a list of absolute deadlines: nothing moves
\* a deadline, timeouts are handled in the order of their deadlines and then of
\* their calls, and none before its tick was announced.
THEOREM ImplementsAbstract == ASSUME ~SMP PROVE Spec => ImplementsTimeoutSpec
<1> DEFINE J == ClockTypes /\ ListInv /\ TicksInv /\ OrderInv
<1>1. Init => J
  BY InitTypes, InitTicks, InitOrder
<1>2. J /\ [Next]_vars => J'
  BY NextTypes, NextKeeps, NextTicks, NextOrder
<1>3. J /\ [Next]_vars => [Abstract!Next]_(Abstract!vars)
  BY NextImplements
<1> HIDE DEF J
<1>4. Spec => Abstract!Spec
  BY <1>1, <1>2, <1>3, InitImplements, PTL DEF Spec, Abstract!Spec
<1> QED BY <1>4, HandledInTurn DEF ImplementsTimeoutSpec
=============================================================================
