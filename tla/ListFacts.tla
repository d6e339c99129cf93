----------------------------- MODULE ListFacts -----------------------------
(***************************************************************************)
(* Facts about the intrusive lists of the kernel (sys_slist, sys_dlist),   *)
(* which the specifications model as sequences: what each list operation   *)
(* does to the set of elements, and that no element comes twice.           *)
(***************************************************************************)
EXTENDS Integers, Sequences, SequencesExt, Lists, SequenceTheorems,
        WellFoundedInduction, TLAPS

\* No element occurs twice.
Distinct(s) == \A i, j \in 1..Len(s) : s[i] = s[j] => i = j

\* Distinct is the library's IsInjective.
LEMMA DistinctInjective ==
  ASSUME NEW S, NEW s \in Seq(S)
  PROVE  Distinct(s) <=> IsInjective(s)
BY DOMAIN s = 1..Len(s) DEF Distinct, IsInjective

\* A list has its elements from the set it is over.
LEMMA ListElements ==
  ASSUME NEW S, NEW s \in Seq(S)
  PROVE  ToSet(s) = {s[i] : i \in 1..Len(s)} /\ ToSet(s) \subseteq S
BY DEF ToSet

\* The empty list is the one without elements.
LEMMA EmptyList ==
  ASSUME NEW S
  PROVE  /\ <<>> \in Seq(S) /\ ToSet(<<>>) = {} /\ Distinct(<<>>)
         /\ \A s \in Seq(S) : ToSet(s) = {} => s = <<>>
<1>1. <<>> \in Seq(S)
  OBVIOUS
<1>2. ToSet(<<>>) = {}
  BY DEF ToSet
<1>3. Distinct(<<>>)
  BY DEF Distinct
<1>4. ASSUME NEW s \in Seq(S), ToSet(s) = {}
      PROVE  s = <<>>
  <2>1. CASE Len(s) = 0
    BY <2>1
  <2>2. CASE Len(s) # 0
    <3>1. 1 \in 1..Len(s)
      BY <2>2
    <3>2. s[1] \in ToSet(s)
      BY <3>1, ListElements
    <3> QED BY <3>2, <1>4
  <2> QED BY <2>1, <2>2
<1> QED BY <1>1, <1>2, <1>3, <1>4

\* sys_slist_append, sys_dlist_append.
LEMMA AppendList ==
  ASSUME NEW S, NEW s \in Seq(S), NEW e \in S
  PROVE  /\ Append(s, e) \in Seq(S)
         /\ ToSet(Append(s, e)) = ToSet(s) \cup {e}
         /\ Distinct(s) /\ e \notin ToSet(s) => Distinct(Append(s, e))
<1> DEFINE t == Append(s, e)
<1>1. t \in Seq(S) /\ Len(t) = Len(s) + 1
  OBVIOUS
<1>2. \A i \in 1..Len(t) : t[i] = IF i <= Len(s) THEN s[i] ELSE e
  OBVIOUS
<1>3. ToSet(s) = {s[i] : i \in 1..Len(s)} /\ ToSet(t) = {t[i] : i \in 1..Len(t)}
  BY <1>1, ListElements
<1> HIDE DEF t
<1>4. ToSet(t) = ToSet(s) \cup {e}
  BY <1>1, <1>2, <1>3
<1>5. Distinct(s) /\ e \notin ToSet(s) => Distinct(t)
  BY <1>1, <1>2, <1>3 DEF Distinct
<1> QED BY <1>1, <1>4, <1>5 DEF t

\* sys_slist_prepend.
LEMMA PrependList ==
  ASSUME NEW S, NEW s \in Seq(S), NEW e \in S
  PROVE  /\ <<e>> \o s \in Seq(S)
         /\ ToSet(<<e>> \o s) = ToSet(s) \cup {e}
         /\ Distinct(s) /\ e \notin ToSet(s) => Distinct(<<e>> \o s)
<1> DEFINE t == <<e>> \o s
<1>1. t \in Seq(S) /\ Len(t) = Len(s) + 1
  OBVIOUS
<1>2. t[1] = e /\ \A i \in 1..Len(s) : t[i + 1] = s[i]
  OBVIOUS
<1>3. ToSet(s) = {s[i] : i \in 1..Len(s)} /\ ToSet(t) = {t[i] : i \in 1..Len(t)}
  BY <1>1, ListElements
<1> HIDE DEF t
<1>4. \A i \in 1..Len(t) : i = 1 \/ (i - 1 \in 1..Len(s) /\ t[i] = s[i - 1])
  BY <1>1, <1>2
<1>5. \A i \in 1..Len(s) : i + 1 \in 1..Len(t)
  BY <1>1
<1>6. ToSet(t) = ToSet(s) \cup {e}
  <2>1. e \in ToSet(t)
    BY <1>1, <1>2, <1>3
  <2>2. ASSUME NEW i \in 1..Len(s) PROVE s[i] \in ToSet(t)
    BY <1>2, <1>3, <1>5
  <2>3. ASSUME NEW i \in 1..Len(t) PROVE t[i] \in ToSet(s) \cup {e}
    BY <1>2, <1>3, <1>4
  <2> QED BY <1>3, <2>1, <2>2, <2>3
<1>7. Distinct(s) /\ e \notin ToSet(s) => Distinct(t)
  BY <1>1, <1>2, <1>3, <1>4 DEF Distinct
<1> QED BY <1>1, <1>6, <1>7 DEF t

\* sys_slist_get.
LEMMA TailList ==
  ASSUME NEW S, NEW s \in Seq(S), s # <<>>
  PROVE  /\ Tail(s) \in Seq(S)
         /\ Head(s) \in S /\ Head(s) \in ToSet(s)
         /\ Distinct(s) => ToSet(Tail(s)) = ToSet(s) \ {Head(s)} /\ Distinct(Tail(s))
<1> DEFINE t == Tail(s)
<1>1. t \in Seq(S) /\ Len(t) = Len(s) - 1 /\ Len(s) >= 1 /\ Head(s) = s[1]
  OBVIOUS
<1>2. \A i \in 1..Len(t) : t[i] = s[i + 1]
  OBVIOUS
<1>3. ToSet(s) = {s[i] : i \in 1..Len(s)} /\ ToSet(t) = {t[i] : i \in 1..Len(t)}
  BY <1>1, ListElements
<1>4. \A i \in 2..Len(s) : i - 1 \in 1..Len(t) /\ t[i - 1] = s[i]
  BY <1>1, <1>2
<1> HIDE DEF t
<1>5. Head(s) \in S /\ Head(s) \in ToSet(s)
  BY <1>1, <1>3
<1>6. Distinct(s) => ToSet(t) = ToSet(s) \ {Head(s)}
  BY <1>1, <1>2, <1>3, <1>4 DEF Distinct
<1>7. Distinct(s) => Distinct(t)
  BY <1>1, <1>2 DEF Distinct
<1> QED BY <1>1, <1>5, <1>6, <1>7 DEF t

\* Every nonempty set of numbers has a least element, and Min returns it.
LEMMA MinOfNats ==
  ASSUME NEW T \in SUBSET Nat, T # {}
  PROVE  Min(T) \in T /\ \A y \in T : Min(T) <= y
<1> DEFINE R == {ss \in Nat \X Nat : ss[1] < ss[2]}
<1>1. IsWellFoundedOn(R, Nat)
  BY NatLessThanWellFounded, Zenon DEF OpToRel
<1>2. \E x \in T : \A y \in T : ~(<<y, x>> \in R)
  <2> HIDE DEF R
  <2> QED BY <1>1, WFMin
<1>3. PICK x \in T : \A y \in T : x <= y
  <2>1. PICK x \in T : \A y \in T : ~(<<y, x>> \in R)
    BY <1>2
  <2>2. \A y \in T : ~(y < x)
    BY <2>1
  <2> QED BY <2>2
<1> QED BY <1>3 DEF Min

\* A list put together from two lists and an element between them.
LEMMA MiddleList ==
  ASSUME NEW S, NEW a \in Seq(S), NEW x \in S, NEW b \in Seq(S),
         NEW t, t = (a \o <<x>>) \o b
  PROVE  /\ t \in Seq(S) /\ Len(t) = Len(a) + 1 + Len(b)
         /\ \A i \in 1..Len(a) : t[i] = a[i]
         /\ t[Len(a) + 1] = x
         /\ \A i \in 1..Len(b) : t[Len(a) + 1 + i] = b[i]
<1> DEFINE m == a \o <<x>>
<1>1. m \in Seq(S) /\ Len(m) = Len(a) + 1
  OBVIOUS
<1>2. m[Len(a) + 1] = x /\ \A i \in 1..Len(a) : m[i] = a[i]
  OBVIOUS
<1> HIDE DEF m
<1>3. m \o b \in Seq(S) /\ Len(m \o b) = Len(a) + 1 + Len(b)
  <2>1. m \o b \in Seq(S) /\ Len(m \o b) = Len(m) + Len(b)
    BY <1>1, ConcatProperties, ZenonT(30)
  <2> QED BY <1>1, <2>1
<1>4. \A i \in 1..(Len(a) + 1) : (m \o b)[i] = m[i]
  BY <1>1
<1>5. \A i \in 1..Len(b) : (m \o b)[Len(a) + 1 + i] = b[i]
  BY <1>1
<1> QED BY <1>2, <1>3, <1>4, <1>5 DEF m

\* sys_slist_insert: x goes behind the element at position k.
LEMMA InsertList ==
  ASSUME NEW S, NEW s \in Seq(S), NEW k \in 1..Len(s), NEW x \in S
  PROVE  /\ InsertAt(s, k + 1, x) \in Seq(S)
         /\ ToSet(InsertAt(s, k + 1, x)) = ToSet(s) \cup {x}
         /\ Distinct(s) /\ x \notin ToSet(s) => Distinct(InsertAt(s, k + 1, x))
<1> DEFINE u == InsertAt(s, k + 1, x)
<1>1. ToSet(s) = {s[i] : i \in 1..Len(s)}
  BY ListElements
<1> DEFINE a == SubSeq(s, 1, k)
           b == SubSeq(s, k + 1, Len(s))
<1>5a. /\ a \in Seq(S) /\ Len(a) = k
       /\ \A i \in 1..k : a[i] = s[i]
  BY SubSeqProperties
<1>5b. /\ b \in Seq(S) /\ Len(b) = Len(s) - k
       /\ \A i \in 1..(Len(s) - k) : b[i] = s[k + i]
  BY SubSeqProperties
<1>5c. u = (a \o <<x>>) \o b
  <2>1. (k + 1) - 1 = k
    OBVIOUS
  <2> QED BY <2>1 DEF InsertAt
<1> HIDE DEF a, b, u
<1>5d. /\ u \in Seq(S) /\ Len(u) = k + 1 + Len(b)
       /\ \A i \in 1..k : u[i] = a[i]
       /\ u[k + 1] = x
       /\ \A i \in 1..Len(b) : u[k + 1 + i] = b[i]
  <2>0. a \in Seq(S) /\ b \in Seq(S)
    BY <1>5a, <1>5b
  <2>1. /\ u \in Seq(S) /\ Len(u) = Len(a) + 1 + Len(b)
        /\ \A i \in 1..Len(a) : u[i] = a[i]
        /\ u[Len(a) + 1] = x
        /\ \A i \in 1..Len(b) : u[Len(a) + 1 + i] = b[i]
    BY <2>0, <1>5c, MiddleList
  <2> QED BY <2>1, <1>5a, Zenon
<1>5. u \in Seq(S) /\ Len(u) = Len(s) + 1
  BY <1>5b, <1>5d
<1>6. /\ \A i \in 1..k : u[i] = s[i]
      /\ u[k + 1] = x
      /\ \A i \in (k + 2)..Len(u) : u[i] = s[i - 1]
  <2>1. \A i \in (k + 2)..Len(u) : /\ i - (k + 1) \in 1..Len(b)
                                   /\ k + 1 + (i - (k + 1)) = i
                                   /\ k + (i - (k + 1)) = i - 1
    BY <1>5, <1>5b
  <2>2. ASSUME NEW i \in (k + 2)..Len(u) PROVE u[i] = s[i - 1]
    <3> DEFINE h == i - (k + 1)
    <3>1. h \in 1..Len(b) /\ k + 1 + h = i /\ k + h = i - 1
      BY <2>1
    <3>2. h \in 1..(Len(s) - k)
      BY <3>1, <1>5b
    <3> HIDE DEF h
    <3>3. u[k + 1 + h] = b[h] /\ b[h] = s[k + h]
      BY <3>1, <3>2, <1>5b, <1>5d
    <3> QED BY <3>1, <3>3
  <2>3. \A i \in 1..k : u[i] = s[i]
    BY <1>5a, <1>5d
  <2> QED BY <2>2, <2>3, <1>5d
<1>7. ToSet(u) = {u[i] : i \in 1..Len(u)}
  BY <1>5, ListElements
<1>8. \A i \in (k + 1)..Len(s) : i + 1 \in 1..Len(u) /\ s[i] = u[i + 1]
  BY <1>5, <1>6
<1>9. ToSet(u) = ToSet(s) \cup {x}
  <2>1. ToSet(u) \subseteq ToSet(s) \cup {x}
    BY <1>1, <1>5, <1>6, <1>7, SMTT(30)
  <2>2. x \in ToSet(u)
    BY <1>5, <1>6, <1>7
  <2>3. ToSet(s) \subseteq ToSet(u)
    <3> SUFFICES ASSUME NEW i \in 1..Len(s) PROVE s[i] \in ToSet(u)
      BY <1>1
    <3>1. CASE i <= k
      BY <3>1, <1>5, <1>6, <1>7
    <3>2. CASE i > k
      BY <3>2, <1>7, <1>8
    <3> QED BY <3>1, <3>2
  <2> QED BY <2>1, <2>2, <2>3
<1>10. Distinct(s) /\ x \notin ToSet(s) => Distinct(u)
  <2> SUFFICES ASSUME Distinct(s), x \notin ToSet(s),
                      NEW i \in 1..Len(u), NEW j \in 1..Len(u), u[i] = u[j]
               PROVE  i = j
    BY DEF Distinct
  <2>1. \A h \in 1..Len(s) : s[h] # x
    BY <1>1
  <2>2. \A h \in 1..Len(u) : /\ h <= k => u[h] = s[h]
                             /\ h > k + 1 => u[h] = s[h - 1]
                             /\ h = k + 1 => u[h] = x
    BY <1>5, <1>6
  <2> DEFINE old(h) == IF h <= k THEN h ELSE h - 1
  <2>3. ASSUME NEW h \in 1..Len(u), h # k + 1
        PROVE  old(h) \in 1..Len(s) /\ u[h] = s[old(h)] /\ u[h] # x
    BY <1>5, <2>1, <2>2, <2>3
  <2>4. CASE i = k + 1 \/ j = k + 1
    BY <2>2, <2>3, <2>4
  <2>5. CASE i # k + 1 /\ j # k + 1
    <3>1. old(i) = old(j)
      BY <2>3, <2>5 DEF Distinct
    <3> QED BY <1>5, <2>5, <3>1
  <2> QED BY <2>4, <2>5
<1> QED BY <1>5, <1>9, <1>10 DEF u

\* Removing the element at position k.
LEMMA RemoveAtList ==
  ASSUME NEW S, NEW s \in Seq(S), NEW k \in 1..Len(s)
  PROVE  LET t == RemoveAt(s, k)
         IN  /\ t \in Seq(S) /\ ToSet(t) \subseteq ToSet(s)
             /\ Distinct(s) => ToSet(t) = ToSet(s) \ {s[k]} /\ Distinct(t)
<1> DEFINE t == RemoveAt(s, k)
<1> DEFINE a == SubSeq(s, 1, k - 1)
           b == SubSeq(s, k + 1, Len(s))
<1>0a. /\ a \in Seq(S) /\ Len(a) = k - 1
       /\ \A i \in 1..(k - 1) : a[i] = s[i]
  BY SubSeqProperties
<1>0b. /\ b \in Seq(S) /\ Len(b) = Len(s) - k
       /\ \A i \in 1..(Len(s) - k) : b[i] = s[k + i]
  BY SubSeqProperties
<1>0c. t = a \o b
  BY DEF RemoveAt
<1> HIDE DEF a, b, t
<1>1. t \in Seq(S) /\ Len(t) = Len(s) - 1
  BY <1>0a, <1>0b, <1>0c
<1>2. /\ \A i \in 1..(k - 1) : t[i] = s[i]
      /\ \A i \in k..Len(t) : t[i] = s[i + 1]
  BY <1>1, <1>0a, <1>0b, <1>0c
<1>3. ToSet(s) = {s[i] : i \in 1..Len(s)} /\ ToSet(t) = {t[i] : i \in 1..Len(t)}
  BY <1>1, ListElements
<1>4. \A i \in (k + 1)..Len(s) : i - 1 \in k..Len(t) /\ s[i] = t[i - 1]
  BY <1>1, <1>2
<1>5. ToSet(t) \subseteq ToSet(s)
  BY <1>1, <1>2, <1>3
<1>6. ASSUME Distinct(s) PROVE ToSet(t) = ToSet(s) \ {s[k]}
  <2>1. ToSet(t) \subseteq ToSet(s) \ {s[k]}
    <3> SUFFICES ASSUME NEW i \in 1..Len(t) PROVE t[i] \in ToSet(s) \ {s[k]}
      BY <1>3
    <3>1. CASE i < k
      BY <3>1, <1>1, <1>2, <1>3, <1>6 DEF Distinct
    <3>2. CASE i >= k
      BY <3>2, <1>1, <1>2, <1>3, <1>6 DEF Distinct
    <3> QED BY <3>1, <3>2
  <2>2. ToSet(s) \ {s[k]} \subseteq ToSet(t)
    <3> SUFFICES ASSUME NEW i \in 1..Len(s), i # k PROVE s[i] \in ToSet(t)
      BY <1>3
    <3>1. CASE i < k
      BY <3>1, <1>1, <1>2, <1>3
    <3>2. CASE i > k
      BY <3>2, <1>1, <1>3, <1>4
    <3> QED BY <3>1, <3>2
  <2> QED BY <2>1, <2>2
<1>7. Distinct(s) => Distinct(t)
  BY <1>1, <1>2 DEF Distinct
<1> QED BY <1>1, <1>5, <1>6, <1>7 DEF t

\* Where the elements are when the k-th is taken out.
LEMMA RemoveAtPlaces ==
  ASSUME NEW S, NEW s \in Seq(S), NEW k \in 1..Len(s)
  PROVE  LET t == RemoveAt(s, k)
         IN  /\ t \in Seq(S) /\ Len(t) = Len(s) - 1
             /\ \A i \in 1..(k - 1) : t[i] = s[i]
             /\ \A i \in k..(Len(s) - 1) : t[i] = s[i + 1]
<1> DEFINE t == RemoveAt(s, k)
           a == SubSeq(s, 1, k - 1)
           b == SubSeq(s, k + 1, Len(s))
<1>1. /\ a \in Seq(S) /\ Len(a) = k - 1
      /\ \A i \in 1..(k - 1) : a[i] = s[i]
  BY SubSeqProperties
<1>2. /\ b \in Seq(S) /\ Len(b) = Len(s) - k
      /\ \A i \in 1..(Len(s) - k) : b[i] = s[k + i]
  BY SubSeqProperties
<1>3. t = a \o b
  BY DEF RemoveAt
<1> HIDE DEF a, b, t
<1>4. /\ t \in Seq(S) /\ Len(t) = Len(s) - 1
      /\ \A i \in 1..(k - 1) : t[i] = s[i]
      /\ \A i \in k..(Len(s) - 1) : t[i] = s[i + 1]
  <2>1. t \in Seq(S) /\ Len(t) = Len(a) + Len(b)
    BY <1>1, <1>2, <1>3, ConcatProperties
  <2>2. Len(t) = Len(s) - 1
    BY <1>1, <1>2, <2>1
  <2>3. \A i \in 1..(k - 1) : t[i] = s[i]
    BY <1>1, <1>2, <1>3
  <2>4. ASSUME NEW i \in k..(Len(s) - 1) PROVE t[i] = s[i + 1]
    <3>1. t[i] = b[i - (k - 1)]
      BY <1>1, <1>2, <1>3
    <3>2. PICK h \in 1..(Len(s) - k) : h = i - (k - 1)
      OBVIOUS
    <3> QED BY <3>1, <3>2, <1>2
  <2> QED BY <2>1, <2>2, <2>3, <2>4
<1> QED BY <1>4 DEF t

\* What is left when the k-th element is taken out.
LEMMA RestOfList ==
  ASSUME NEW S, NEW s \in Seq(S), NEW k \in 1..Len(s), NEW j \in 1..Len(s), j # k
  PROVE  s[j] \in ToSet(RemoveAt(s, k))
<1> DEFINE t == RemoveAt(s, k)
<1>4. /\ t \in Seq(S) /\ Len(t) = Len(s) - 1
      /\ \A i \in 1..(k - 1) : t[i] = s[i]
      /\ \A i \in k..(Len(s) - 1) : t[i] = s[i + 1]
  BY RemoveAtPlaces
<1> HIDE DEF t
<1>5. ToSet(t) = {t[i] : i \in 1..Len(t)}
  BY <1>4, ListElements
<1>6. CASE j < k
  <2>1. j \in 1..Len(t) /\ t[j] = s[j]
    BY <1>4, <1>6
  <2> QED BY <2>1, <1>5 DEF t
<1>7. CASE j > k
  <2>1. (j - 1) \in 1..Len(t) /\ t[j - 1] = s[j]
    BY <1>4, <1>7
  <2> QED BY <2>1, <1>5 DEF t
<1> QED BY <1>6, <1>7

\* sys_slist_find_and_remove.
LEMMA RemoveList ==
  ASSUME NEW S, NEW s \in Seq(S), NEW e
  PROVE  /\ RemoveFirst(s, e) \in Seq(S)
         /\ Distinct(s) => /\ ToSet(RemoveFirst(s, e)) = ToSet(s) \ {e}
                           /\ Distinct(RemoveFirst(s, e))
<1> DEFINE I == {i \in 1..Len(s) : s[i] = e}
           k == SelectInSeq(s, LAMBDA v : v = e)
<1>1. ToSet(s) = {s[i] : i \in 1..Len(s)}
  BY ListElements
<1>2. CASE I = {}
  <2>1. RemoveFirst(s, e) = s
    BY <1>2 DEF RemoveFirst
  <2> QED BY <1>1, <1>2, <2>1
<1>3. CASE I # {}
  <2>1. RemoveFirst(s, e) = RemoveAt(s, k) /\ k = Min(I)
    BY <1>3 DEF RemoveFirst, SelectInSeq
  <2>2. k \in I
    <3>1. I \in SUBSET Nat
      OBVIOUS
    <3> HIDE DEF k, I
    <3> QED BY <1>3, <2>1, <3>1, MinOfNats
  <2>3. k \in 1..Len(s) /\ s[k] = e
    <3> HIDE DEF k
    <3> QED BY <2>2
  <2> HIDE DEF k, I
  <2> QED BY <2>1, <2>3, RemoveAtList
<1> QED BY <1>2, <1>3

\* Removing what is not there changes nothing.
LEMMA RemoveAbsent ==
  ASSUME NEW S, NEW s \in Seq(S), NEW e, e \notin ToSet(s)
  PROVE  RemoveFirst(s, e) = s
<1>1. ToSet(s) = {s[i] : i \in 1..Len(s)}
  BY ListElements
<1>2. ~\E i \in 1..Len(s) : s[i] = e
  BY <1>1
<1> QED BY <1>2 DEF RemoveFirst

-----------------------------------------------------------------------------
(* Lists ordered by priority *)

\* A list is in the order of the priorities p.
Ordered(s, p) == \A i, j \in 1..Len(s) : i < j => p[s[i]] <= p[s[j]]

\* An element that is not before any of a list's may be appended.
LEMMA AppendOrdered ==
  ASSUME NEW S, NEW s \in Seq(S), NEW e \in S, NEW p \in [S -> Int],
         Ordered(s, p), \A i \in 1..Len(s) : p[s[i]] <= p[e]
  PROVE  Ordered(Append(s, e), p)
<1> DEFINE t == Append(s, e)
<1>1. Len(t) = Len(s) + 1 /\ Len(s) \in Nat
  OBVIOUS
<1>2. \A i \in 1..Len(t) : t[i] = IF i <= Len(s) THEN s[i] ELSE e
  OBVIOUS
<1> HIDE DEF t
<1>3. ASSUME NEW i \in 1..Len(t), NEW j \in 1..Len(t), i < j
      PROVE  p[t[i]] <= p[t[j]]
  <2>1. i \in 1..Len(s) /\ t[i] = s[i]
    BY <1>1, <1>2, <1>3
  <2>2. CASE j <= Len(s)
    <3>1. j \in 1..Len(s) /\ t[j] = s[j]
      BY <2>2, <1>2
    <3> QED BY <2>1, <3>1, <1>3 DEF Ordered
  <2>3. CASE ~(j <= Len(s))
    <3>1. t[j] = e
      BY <2>3, <1>2
    <3> QED BY <2>1, <3>1
  <2> QED BY <2>2, <2>3
<1> QED BY <1>3 DEF Ordered, t

\* A property of numbers that holds for 0 and is inherited holds for all.
LEMMA Induction ==
  ASSUME NEW N \in Nat, NEW T \in SUBSET Nat, 0 \in T,
         \A n \in Nat : n + 1 <= N /\ n \in T => n + 1 \in T
  PROVE  \A n \in 0..N : n \in T
<1> DEFINE Bad == {n \in 0..N : n \notin T}
<1> SUFFICES ASSUME Bad # {} PROVE FALSE
  OBVIOUS
<1>1. Bad \in SUBSET Nat
  OBVIOUS
<1>2. PICK b \in Bad : \A y \in Bad : b <= y
  <2> HIDE DEF Bad
  <2> QED BY <1>1, MinOfNats
<1>3. b # 0 /\ b \in 0..N
  OBVIOUS
<1>4. b - 1 \in Nat /\ b - 1 \in 0..N /\ b - 1 < b
  BY <1>3
<1>5. b - 1 \in T
  BY <1>2, <1>4
<1>6. (b - 1) + 1 = b
  BY <1>3
<1> QED BY <1>3, <1>4, <1>5, <1>6

\* What Remaining keeps of the first i elements of q, for each i.
KeptUpTo(F, q, ts) ==
  F = [i \in 0..Len(q) |->
         IF i = 0 THEN <<>>
           ELSE IF q[i] \in ts THEN F[i - 1] ELSE Append(F[i - 1], q[i])]

\* The recursive function in Remaining is well defined.
LEMMA RemainingExists ==
  ASSUME NEW S, NEW q \in Seq(S), NEW ts
  PROVE  \E F : KeptUpTo(F, q, ts)
<1> DEFINE Step(F, i) == IF i = 0 THEN <<>>
                           ELSE IF q[i] \in ts THEN F[i - 1] ELSE Append(F[i - 1], q[i])
           T == {n \in Nat : \E F : F = [i \in 0..n |-> Step(F, i)]}
<1>1. 0 \in T
  <2> DEFINE F == [i \in 0..0 |-> <<>>]
  <2>1. F = [i \in 0..0 |-> Step(F, i)]
    OBVIOUS
  <2> QED BY <2>1
<1>2. ASSUME NEW n \in Nat, n \in T PROVE n + 1 \in T
  <2>1. PICK F : F = [i \in 0..n |-> Step(F, i)]
    BY <1>2
  <2> DEFINE G == [i \in 0..(n + 1) |-> IF i <= n THEN F[i] ELSE Step(F, i)]
  <2>2. \A i \in 0..(n + 1) : i # 0 => i - 1 \in 0..n
    OBVIOUS
  <2>3. \A i \in 0..(n + 1) : i # 0 => G[i - 1] = F[i - 1]
    BY <2>2
  <2>4. ASSUME NEW i \in 0..(n + 1) PROVE G[i] = Step(G, i)
    <3>0. Step(G, i) = Step(F, i)
      BY <2>3
    <3>1. CASE i <= n
      <4>1. i \in 0..n
        BY <3>1
      <4>2. F[i] = Step(F, i)
        <5> HIDE DEF Step
        <5> QED BY <2>1, <4>1
      <4>3. G[i] = F[i]
        BY <3>1
      <4> HIDE DEF Step, G
      <4> QED BY <4>2, <4>3, <3>0
    <3>2. CASE ~(i <= n)
      <4>1. G[i] = Step(F, i)
        <5> HIDE DEF Step
        <5> QED BY <3>2
      <4> HIDE DEF Step, G
      <4> QED BY <4>1, <3>0
    <3> QED BY <3>1, <3>2
  <2>5. G = [i \in 0..(n + 1) |-> Step(G, i)]
    <3>1. G = [i \in 0..(n + 1) |-> G[i]]
      OBVIOUS
    <3> HIDE DEF G, Step
    <3> QED BY <3>1, <2>4
  <2> HIDE DEF G, Step
  <2> QED BY <2>5
<1>3. T \in SUBSET Nat
  OBVIOUS
<1>4. Len(q) \in T
  <2>0. Len(q) \in Nat /\ Len(q) \in 0..Len(q)
    OBVIOUS
  <2> HIDE DEF T
  <2> QED BY <2>0, <1>1, <1>2, <1>3, Induction
<1> QED BY <1>4 DEF KeptUpTo

\* z_priq_dumb_remove of each element of ts.
LEMMA RemainingList ==
  ASSUME NEW S, NEW q \in Seq(S), NEW ts
  PROVE  /\ Remaining(q, ts) \in Seq(S)
         /\ ToSet(Remaining(q, ts)) = ToSet(q) \ ts
         /\ Distinct(q) => Distinct(Remaining(q, ts))
         /\ \A p \in [S -> Int] : Ordered(q, p) => Ordered(Remaining(q, ts), p)
<1> DEFINE F == CHOOSE F : KeptUpTo(F, q, ts)
<1>1. Remaining(q, ts) = F[Len(q)]
  BY DEF Remaining, KeptUpTo
<1>2. KeptUpTo(F, q, ts)
  BY RemainingExists, Zenon
<1> HIDE DEF F
<1>3. F[0] = <<>>
  <2>1. 0 \in 0..Len(q)
    OBVIOUS
  <2> QED BY <1>2, <2>1 DEF KeptUpTo
<1>4. \A n \in Nat : n + 1 <= Len(q) =>
        F[n + 1] = IF q[n + 1] \in ts THEN F[n] ELSE Append(F[n], q[n + 1])
  <2> TAKE n \in Nat
  <2> HAVE n + 1 <= Len(q)
  <2>1. n + 1 \in 0..Len(q) /\ n + 1 # 0 /\ (n + 1) - 1 = n
    OBVIOUS
  <2> QED BY <1>2, <2>1 DEF KeptUpTo
<1> DEFINE Good(i) == /\ F[i] \in Seq(S)
                      /\ ToSet(F[i]) = {q[j] : j \in 1..i} \ ts
                      /\ Distinct(q) => Distinct(F[i])
                      /\ \A p \in [S -> Int] : Ordered(q, p) => Ordered(F[i], p)
           T == {i \in Nat : Good(i)}
<1>5. 0 \in T
  <2>1. Len(F[0]) = 0 /\ {q[j] : j \in 1..0} = {}
    BY <1>3
  <2>2. \A p : Ordered(F[0], p)
    BY <2>1 DEF Ordered
  <2>3. F[0] \in Seq(S) /\ ToSet(F[0]) = {} /\ Distinct(F[0])
    BY <1>3, EmptyList
  <2> QED BY <2>1, <2>2, <2>3
<1>6. ASSUME NEW n \in Nat, n + 1 <= Len(q), n \in T PROVE n + 1 \in T
  <2>1. /\ F[n] \in Seq(S) /\ ToSet(F[n]) = {q[j] : j \in 1..n} \ ts
        /\ Distinct(q) => Distinct(F[n])
        /\ \A p \in [S -> Int] : Ordered(q, p) => Ordered(F[n], p)
    BY <1>6
  <2>2. q[n + 1] \in S /\ {q[j] : j \in 1..(n + 1)} = {q[j] : j \in 1..n} \cup {q[n + 1]}
    BY <1>6
  <2>3. CASE q[n + 1] \in ts
    <3>1. F[n + 1] = F[n]
      BY <2>3, <1>4, <1>6
    <3>2. {q[j] : j \in 1..(n + 1)} \ ts = {q[j] : j \in 1..n} \ ts
      BY <2>2, <2>3
    <3> QED BY <3>1, <3>2, <2>1
  <2>4. CASE q[n + 1] \notin ts
    <3>1. F[n + 1] = Append(F[n], q[n + 1])
      BY <2>4, <1>4, <1>6
    <3>2. F[n + 1] \in Seq(S) /\ ToSet(F[n + 1]) = ToSet(F[n]) \cup {q[n + 1]}
      BY <3>1, <2>1, <2>2, AppendList
    <3>3. ToSet(F[n + 1]) = {q[j] : j \in 1..(n + 1)} \ ts
      BY <3>2, <2>1, <2>2, <2>4
    <3>4. ASSUME Distinct(q) PROVE Distinct(F[n + 1])
      <4>1. q[n + 1] \notin {q[j] : j \in 1..n}
        BY <3>4, <1>6 DEF Distinct
      <4> QED BY <3>4, <4>1, <3>1, <2>1, <2>2, AppendList
    <3>5. ASSUME NEW p \in [S -> Int], Ordered(q, p) PROVE Ordered(F[n + 1], p)
      <4>1. Ordered(F[n], p)
        BY <3>5, <2>1
      <4>2. \A i \in 1..Len(F[n]) : \E j \in 1..n : F[n][i] = q[j]
        <5>0. ToSet(F[n]) = {F[n][i] : i \in 1..Len(F[n])}
          BY <2>1, ListElements
        <5>1. \A i \in 1..Len(F[n]) : F[n][i] \in ToSet(F[n])
          BY <5>0
        <5> QED BY <5>1, <2>1
      <4>3. \A i \in 1..Len(F[n]) : p[F[n][i]] <= p[q[n + 1]]
        <5> TAKE i \in 1..Len(F[n])
        <5>1. PICK j \in 1..n : F[n][i] = q[j]
          BY <4>2
        <5>2. j \in 1..Len(q) /\ n + 1 \in 1..Len(q) /\ j < n + 1
          BY <1>6
        <5> QED BY <5>1, <5>2, <3>5 DEF Ordered
      <4>4. F[n] \in Seq(S) /\ q[n + 1] \in S
        BY <2>1, <2>2
      <4>5. Ordered(Append(F[n], q[n + 1]), p)
        <5> DEFINE L == F[n]
                   e == q[n + 1]
        <5>1. L \in Seq(S) /\ e \in S /\ Ordered(L, p) /\ \A i \in 1..Len(L) : p[L[i]] <= p[e]
          BY <4>1, <4>3, <4>4
        <5> HIDE DEF L, e
        <5>2. Ordered(Append(L, e), p)
          BY <5>1, AppendOrdered
        <5> QED BY <5>2 DEF L, e
      <4> QED BY <3>1, <4>5
    <3> QED BY <3>2, <3>3, <3>4, <3>5
  <2> QED BY <2>3, <2>4
<1>7. T \in SUBSET Nat
  OBVIOUS
<1>8. Len(q) \in T
  <2>0. Len(q) \in Nat /\ Len(q) \in 0..Len(q)
    OBVIOUS
  <2> HIDE DEF T
  <2> QED BY <2>0, <1>5, <1>6, <1>7, Induction
<1>9. ToSet(q) = {q[j] : j \in 1..Len(q)}
  BY ListElements
<1> QED BY <1>1, <1>8, <1>9

\* u is s with x at place k.
HasAt(u, s, k, x) ==
  /\ Len(u) = Len(s) + 1
  /\ \A i \in 1..Len(u) : u[i] = IF i < k THEN s[i] ELSE IF i = k THEN x ELSE s[i - 1]

\* Where the elements are after an insertion.
LEMMA InsertPlaces ==
  ASSUME NEW S, NEW s \in Seq(S), NEW k \in 1..(Len(s) + 1), NEW x \in S
  PROVE  InsertAt(s, k, x) \in Seq(S) /\ HasAt(InsertAt(s, k, x), s, k, x)
<1> DEFINE u == InsertAt(s, k, x)
           a == SubSeq(s, 1, k - 1)
           b == SubSeq(s, k, Len(s))
<1>1. a \in Seq(S) /\ Len(a) = k - 1 /\ \A i \in 1..(k - 1) : a[i] = s[i]
  BY SubSeqProperties
<1>2. /\ b \in Seq(S) /\ Len(b) = Len(s) - (k - 1)
      /\ \A i \in 1..(Len(s) - (k - 1)) : b[i] = s[(k - 1) + i]
  BY SubSeqProperties
<1>3. u = (a \o <<x>>) \o b
  BY DEF InsertAt
<1> HIDE DEF a, b, u
<1>4. /\ u \in Seq(S) /\ Len(u) = Len(a) + 1 + Len(b)
      /\ \A i \in 1..Len(a) : u[i] = a[i]
      /\ u[Len(a) + 1] = x
      /\ \A i \in 1..Len(b) : u[Len(a) + 1 + i] = b[i]
  <2>1. a \in Seq(S) /\ b \in Seq(S)
    BY <1>1, <1>2
  <2> QED BY <2>1, <1>3, MiddleList
<1>5. Len(u) = Len(s) + 1 /\ Len(a) + 1 = k
  BY <1>1, <1>2, <1>4
<1>6. ASSUME NEW i \in 1..Len(u)
      PROVE  u[i] = IF i < k THEN s[i] ELSE IF i = k THEN x ELSE s[i - 1]
  <2>1. CASE i < k
    BY <2>1, <1>1, <1>4, <1>5
  <2>2. CASE i = k
    BY <2>2, <1>4, <1>5
  <2>3. CASE i > k
    <3> DEFINE h == i - k
    <3>1. h \in 1..Len(b) /\ h \in 1..(Len(s) - (k - 1)) /\ k + h = i /\ (k - 1) + h = i - 1
      BY <2>3, <1>2, <1>5
    <3> HIDE DEF h
    <3>2. u[k + h] = b[h] /\ b[h] = s[(k - 1) + h]
      BY <3>1, <1>2, <1>4, <1>5
    <3> QED BY <2>3, <3>1, <3>2
  <2> QED BY <2>1, <2>2, <2>3
<1>7. u \in Seq(S) /\ HasAt(u, s, k, x)
  BY <1>4, <1>5, <1>6 DEF HasAt
<1> QED BY <1>7 DEF u

\* An insertion adds one element.
LEMMA InsertAnywhere ==
  ASSUME NEW S, NEW s \in Seq(S), NEW k \in 1..(Len(s) + 1), NEW x \in S
  PROVE  LET r == InsertAt(s, k, x)
         IN  /\ r \in Seq(S) /\ ToSet(r) = ToSet(s) \cup {x} /\ r # s
             /\ Distinct(s) /\ x \notin ToSet(s) => Distinct(r)
<1> DEFINE r == InsertAt(s, k, x)
<1>0. ToSet(s) = {s[i] : i \in 1..Len(s)}
  BY ListElements
<1>1. r \in Seq(S) /\ HasAt(r, s, k, x)
  BY InsertPlaces
<1> HIDE DEF r
<1>2. /\ Len(r) = Len(s) + 1
      /\ \A i \in 1..Len(r) : r[i] = IF i < k THEN s[i] ELSE IF i = k THEN x ELSE s[i - 1]
  BY <1>1 DEF HasAt
<1>3. ToSet(r) = {r[i] : i \in 1..Len(r)}
  BY <1>1, ListElements
<1> DEFINE old(i) == IF i < k THEN i ELSE i - 1
           new(i) == IF i < k THEN i ELSE i + 1
<1>4. \A i \in 1..Len(r) : i # k => old(i) \in 1..Len(s) /\ r[i] = s[old(i)]
  BY <1>2
<1>5. \A i \in 1..Len(s) : new(i) \in 1..Len(r) /\ r[new(i)] = s[i]
  <2> TAKE i \in 1..Len(s)
  <2>1. new(i) \in 1..Len(r)
    BY <1>2
  <2>2. CASE i < k
    BY <2>1, <2>2, <1>2
  <2>3. CASE ~(i < k)
    <3>1. new(i) = i + 1 /\ ~(i + 1 < k) /\ i + 1 # k /\ (i + 1) - 1 = i /\ i + 1 \in 1..Len(r)
      BY <2>1, <2>3
    <3>2. r[i + 1] = s[(i + 1) - 1]
      BY <3>1, <1>2
    <3> QED BY <3>1, <3>2
  <2> QED BY <2>2, <2>3
<1>6. k \in 1..Len(r) /\ r[k] = x
  BY <1>2
<1>7. ToSet(r) = ToSet(s) \cup {x}
  <2> HIDE DEF old, new
  <2> QED BY <1>0, <1>3, <1>4, <1>5, <1>6
<1>8. ASSUME Distinct(s), x \notin ToSet(s) PROVE Distinct(r)
  <2> SUFFICES ASSUME NEW i \in 1..Len(r), NEW j \in 1..Len(r), r[i] = r[j]
               PROVE  i = j
    BY DEF Distinct
  <2>1. \A h \in 1..Len(s) : s[h] # x
    BY <1>0, <1>8
  <2>2. CASE i = k \/ j = k
    <3> HIDE DEF old
    <3> QED BY <2>1, <2>2, <1>4, <1>6
  <2>3. CASE i # k /\ j # k
    <3>1. old(i) = old(j)
      <4> HIDE DEF old
      <4> QED BY <2>3, <1>4, <1>8 DEF Distinct
    <3>2. i \in Int /\ j \in Int /\ k \in Int
      BY <1>2
    <3> QED BY <3>1, <3>2, <2>3
  <2> QED BY <2>2, <2>3
<1> QED BY <1>1, <1>2, <1>7, <1>8 DEF r

\* z_priq_dumb_add.
LEMMA PriqAddList ==
  ASSUME NEW S, NEW q \in Seq(S), NEW t \in S, NEW p \in [S -> Int]
  PROVE  LET r == z_priq_dumb_add(q, t, p)
         IN  /\ r \in Seq(S) /\ ToSet(r) = ToSet(q) \cup {t}
             /\ Distinct(q) /\ t \notin ToSet(q) => Distinct(r)
             /\ Ordered(q, p) => Ordered(r, p)
<1> DEFINE r == z_priq_dumb_add(q, t, p)
           I == {i \in 1..Len(q) : p[t] < p[q[i]]}
           k == SelectInSeq(q, LAMBDA u : p[t] < p[u])
<1>0. ToSet(q) = {q[i] : i \in 1..Len(q)} /\ \A i \in 1..Len(q) : q[i] \in S
  BY ListElements
<1>1. CASE I = {}
  <2>1. k = 0
    BY <1>1 DEF SelectInSeq
  <2>2. r = Append(q, t)
    BY <2>1 DEF z_priq_dumb_add
  <2>3. \A i \in 1..Len(q) : p[q[i]] <= p[t]
    BY <1>0, <1>1
  <2>4. Ordered(q, p) => Ordered(Append(q, t), p)
    BY <2>3, AppendOrdered
  <2> HIDE DEF r
  <2> QED BY <2>2, <2>4, AppendList DEF r
<1>2. CASE I # {}
  <2>1. k = Min(I)
    BY <1>2 DEF SelectInSeq
  <2>2. k \in I /\ \A i \in I : k <= i
    <3>1. I \in SUBSET Nat
      OBVIOUS
    <3> HIDE DEF k, I
    <3> QED BY <1>2, <2>1, <3>1, MinOfNats
  <2>3. k \in 1..Len(q) /\ p[t] < p[q[k]] /\ k # 0 /\ k \in 1..(Len(q) + 1)
    <3> HIDE DEF k
    <3> QED BY <2>2
  <2>4. \A i \in 1..Len(q) : i < k => p[q[i]] <= p[t]
    <3> HIDE DEF k
    <3> QED BY <1>0, <2>2, <2>3
  <2>5. r = InsertAt(q, k, t)
    BY <2>3 DEF z_priq_dumb_add
  <2> HIDE DEF k, I, r
  <2>6. /\ r \in Seq(S) /\ Len(r) = Len(q) + 1
        /\ \A i \in 1..Len(r) :
             r[i] = IF i < k THEN q[i] ELSE IF i = k THEN t ELSE q[i - 1]
    <3>1. r \in Seq(S) /\ HasAt(r, q, k, t)
      BY <2>3, <2>5, InsertPlaces
    <3> QED BY <3>1 DEF HasAt
  <2>7. ToSet(r) = {r[i] : i \in 1..Len(r)}
    BY <2>6, ListElements
  <2> DEFINE old(i) == IF i < k THEN i ELSE i - 1
             new(i) == IF i < k THEN i ELSE i + 1
  <2>8. \A i \in 1..Len(r) : i # k => old(i) \in 1..Len(q) /\ r[i] = q[old(i)]
    BY <2>3, <2>6
  <2>9. \A i \in 1..Len(q) : new(i) \in 1..Len(r) /\ r[new(i)] = q[i]
    <3> TAKE i \in 1..Len(q)
    <3>1. new(i) \in 1..Len(r)
      BY <2>3, <2>6
    <3>2. CASE i < k
      BY <3>1, <3>2, <2>6
    <3>3. CASE ~(i < k)
      <4>1. new(i) = i + 1 /\ ~(i + 1 < k) /\ i + 1 # k /\ (i + 1) - 1 = i /\ i + 1 \in 1..Len(r)
        BY <3>1, <3>3, <2>3
      <4>2. r[i + 1] = q[(i + 1) - 1]
        BY <4>1, <2>6
      <4> QED BY <4>1, <4>2
    <3> QED BY <3>2, <3>3
  <2>10. k \in 1..Len(r) /\ r[k] = t
    BY <2>3, <2>6
  <2>11. ToSet(r) = ToSet(q) \cup {t}
    <3> HIDE DEF old, new
    <3> QED BY <1>0, <2>7, <2>8, <2>9, <2>10
  <2>12. ASSUME Distinct(q), t \notin ToSet(q) PROVE Distinct(r)
    <3> SUFFICES ASSUME NEW i \in 1..Len(r), NEW j \in 1..Len(r), r[i] = r[j]
                 PROVE  i = j
      BY DEF Distinct
    <3>1. \A h \in 1..Len(q) : q[h] # t
      BY <1>0, <2>12
    <3>2. CASE i = k \/ j = k
      <4> HIDE DEF old
      <4> QED BY <3>1, <3>2, <2>8, <2>10
    <3>3. CASE i # k /\ j # k
      <4>1. old(i) = old(j)
        <5> HIDE DEF old
        <5> QED BY <3>3, <2>8, <2>12 DEF Distinct
      <4>2. i \in Int /\ j \in Int /\ k \in Int
        BY <2>3, <2>6
      <4> QED BY <4>1, <4>2, <3>3
    <3> QED BY <3>2, <3>3
  <2>13. ASSUME Ordered(q, p) PROVE Ordered(r, p)
    <3> SUFFICES ASSUME NEW i \in 1..Len(r), NEW j \in 1..Len(r), i < j
                 PROVE  p[r[i]] <= p[r[j]]
      BY DEF Ordered
    <3>0. \A h, m \in 1..Len(q) : h <= m => p[q[h]] <= p[q[m]]
      BY <1>0, <2>13 DEF Ordered
    <3>1. CASE i = k
      <4>1. old(j) \in 1..Len(q) /\ r[j] = q[old(j)] /\ k <= old(j)
        BY <3>1, <2>3, <2>8
      <4>2. p[q[k]] <= p[q[old(j)]]
        <5> HIDE DEF old
        <5> QED BY <4>1, <3>0, <2>3
      <4> HIDE DEF old
      <4> QED BY <3>1, <4>1, <4>2, <2>3, <2>10, <1>0
    <3>2. CASE j = k
      <4>1. i \in 1..Len(q) /\ r[i] = q[i] /\ i < k
        BY <3>2, <2>3, <2>6
      <4> QED BY <3>2, <4>1, <2>4, <2>10
    <3>3. CASE i # k /\ j # k
      <4>1. old(i) <= old(j)
        BY <3>3, <2>3, <2>6
      <4> HIDE DEF old
      <4> QED BY <4>1, <3>3, <3>0, <2>8
    <3> QED BY <3>1, <3>2, <3>3
  <2> QED BY <2>6, <2>11, <2>12, <2>13 DEF r
<1> QED BY <1>1, <1>2

\* Where the elements are after one is removed.
LEMMA RemoveFirstPlaces ==
  ASSUME NEW S, NEW s \in Seq(S), NEW e \in ToSet(s)
  PROVE  LET t == RemoveFirst(s, e)
         IN  \E k \in 1..Len(s) :
               /\ s[k] = e /\ t \in Seq(S) /\ Len(t) = Len(s) - 1
               /\ \A i \in 1..Len(t) : t[i] = IF i < k THEN s[i] ELSE s[i + 1]
<1> DEFINE t == RemoveFirst(s, e)
           I == {i \in 1..Len(s) : s[i] = e}
           k == SelectInSeq(s, LAMBDA v : v = e)
<1>1. I # {}
  BY ListElements
<1>2. t = RemoveAt(s, k) /\ k = Min(I)
  BY <1>1 DEF RemoveFirst, SelectInSeq
<1>3. k \in 1..Len(s) /\ s[k] = e
  <2>1. I \in SUBSET Nat
    OBVIOUS
  <2>2. k \in I
    <3> HIDE DEF k, I
    <3> QED BY <1>1, <1>2, <2>1, MinOfNats
  <2> HIDE DEF k
  <2> QED BY <2>2
<1> DEFINE a == SubSeq(s, 1, k - 1)
           b == SubSeq(s, k + 1, Len(s))
<1>4. t = a \o b
  BY <1>2 DEF RemoveAt
<1> HIDE DEF k, I, t
<1>5. a \in Seq(S) /\ Len(a) = k - 1 /\ \A i \in 1..(k - 1) : a[i] = s[i]
  BY <1>3, SubSeqProperties
<1>6. /\ b \in Seq(S) /\ Len(b) = Len(s) - k
      /\ \A i \in 1..(Len(s) - k) : b[i] = s[k + i]
  BY <1>3, SubSeqProperties
<1> HIDE DEF a, b
<1>7. t \in Seq(S) /\ Len(t) = Len(s) - 1
  BY <1>3, <1>4, <1>5, <1>6
<1>8. ASSUME NEW i \in 1..Len(t) PROVE t[i] = IF i < k THEN s[i] ELSE s[i + 1]
  <2>1. CASE i < k
    BY <2>1, <1>3, <1>4, <1>5, <1>6, <1>7
  <2>2. CASE ~(i < k)
    <3> DEFINE h == i - (k - 1)
    <3>1. h \in 1..Len(b) /\ h \in 1..(Len(s) - k) /\ Len(a) + h = i /\ k + h = i + 1
      BY <2>2, <1>3, <1>5, <1>6, <1>7
    <3> HIDE DEF h
    <3>2. t[Len(a) + h] = b[h]
      BY <3>1, <1>4, <1>5, <1>6
    <3>3. b[h] = s[k + h]
      BY <3>1, <1>6
    <3> QED BY <2>2, <3>1, <3>2, <3>3
  <2> QED BY <2>1, <2>2, <1>3, <1>7
<1> QED BY <1>3, <1>7, <1>8 DEF t

\* What is left of an ordered list is ordered.
LEMMA RemoveOrdered ==
  ASSUME NEW S, NEW s \in Seq(S), NEW e \in ToSet(s), NEW p, Ordered(s, p)
  PROVE  Ordered(RemoveFirst(s, e), p)
<1> DEFINE t == RemoveFirst(s, e)
<1>1. PICK k \in 1..Len(s) :
        /\ t \in Seq(S) /\ Len(t) = Len(s) - 1
        /\ \A i \in 1..Len(t) : t[i] = IF i < k THEN s[i] ELSE s[i + 1]
  BY RemoveFirstPlaces
<1> HIDE DEF t
<1> DEFINE old(i) == IF i < k THEN i ELSE i + 1
<1>2. \A i \in 1..Len(t) : old(i) \in 1..Len(s) /\ t[i] = s[old(i)]
  BY <1>1
<1>3. \A i, j \in 1..Len(t) : i < j => old(i) < old(j)
  BY <1>1
<1>4. Ordered(t, p)
  <2> HIDE DEF old
  <2> QED BY <1>2, <1>3 DEF Ordered
<1> QED BY <1>4 DEF t

-----------------------------------------------------------------------------
(* What comes before what *)

\* x is before y in list s.
Before(s, x, y) == \E i, j \in 1..Len(s) : i < j /\ s[i] = x /\ s[j] = y

\* Appending, prepending and inserting keep the order.
LEMMA AppendBefore ==
  ASSUME NEW S, NEW s \in Seq(S), NEW e \in S, NEW x, NEW y, Before(s, x, y)
  PROVE  Before(Append(s, e), x, y)
<1>1. PICK i, j \in 1..Len(s) : i < j /\ s[i] = x /\ s[j] = y
  BY DEF Before
<1> DEFINE t == Append(s, e)
<1>2. i \in 1..Len(t) /\ j \in 1..Len(t) /\ t[i] = s[i] /\ t[j] = s[j]
  OBVIOUS
<1> HIDE DEF t
<1>3. Before(t, x, y)
  BY <1>1, <1>2 DEF Before
<1> QED BY <1>3 DEF t

LEMMA PrependBefore ==
  ASSUME NEW S, NEW s \in Seq(S), NEW e \in S, NEW x, NEW y, Before(s, x, y)
  PROVE  Before(<<e>> \o s, x, y)
<1>1. PICK i, j \in 1..Len(s) : i < j /\ s[i] = x /\ s[j] = y
  BY DEF Before
<1> DEFINE t == <<e>> \o s
<1>2. /\ i + 1 \in 1..Len(t) /\ j + 1 \in 1..Len(t) /\ i + 1 < j + 1
      /\ t[i + 1] = s[i] /\ t[j + 1] = s[j]
  BY <1>1
<1> HIDE DEF t
<1>3. Before(t, x, y)
  BY <1>1, <1>2 DEF Before
<1> QED BY <1>3 DEF t

LEMMA InsertBefore ==
  ASSUME NEW S, NEW s \in Seq(S), NEW k \in 1..Len(s), NEW e \in S
  PROVE  /\ \A x, y : Before(s, x, y) => Before(InsertAt(s, k + 1, e), x, y)
         /\ Before(InsertAt(s, k + 1, e), s[k], e)
<1> DEFINE t == InsertAt(s, k + 1, e)
<1>1. /\ t \in Seq(S) /\ Len(t) = Len(s) + 1
      /\ \A i \in 1..Len(t) :
           t[i] = IF i < k + 1 THEN s[i] ELSE IF i = k + 1 THEN e ELSE s[i - 1]
  <2>1. PICK h \in 1..(Len(s) + 1) : h = k + 1
    OBVIOUS
  <2>2. t \in Seq(S) /\ HasAt(t, s, h, e)
    BY <2>1, InsertPlaces
  <2> HIDE DEF t
  <2> QED BY <2>1, <2>2 DEF HasAt
<1> HIDE DEF t
<1> DEFINE new(i) == IF i < k + 1 THEN i ELSE i + 1
<1>2. \A i \in 1..Len(s) : new(i) \in 1..Len(t) /\ t[new(i)] = s[i]
  BY <1>1
<1>3. \A i, j \in 1..Len(s) : i < j => new(i) < new(j)
  OBVIOUS
<1>4. \A x, y : Before(s, x, y) => Before(t, x, y)
  <2> HIDE DEF new
  <2> QED BY <1>2, <1>3 DEF Before
<1>5. Before(t, s[k], e)
  <2>1. k \in 1..Len(t) /\ k + 1 \in 1..Len(t) /\ k < k + 1 /\ t[k] = s[k] /\ t[k + 1] = e
    BY <1>1
  <2> QED BY <2>1 DEF Before
<1> QED BY <1>4, <1>5 DEF t

\* Taking another element out keeps it too.
LEMMA RemoveBefore ==
  ASSUME NEW S, NEW s \in Seq(S), NEW e \in ToSet(s), NEW x, NEW y, Before(s, x, y),
         x # e, y # e
  PROVE  Before(RemoveFirst(s, e), x, y)
<1> DEFINE t == RemoveFirst(s, e)
<1>1. PICK k \in 1..Len(s) :
        /\ s[k] = e /\ t \in Seq(S) /\ Len(t) = Len(s) - 1
        /\ \A i \in 1..Len(t) : t[i] = IF i < k THEN s[i] ELSE s[i + 1]
  BY RemoveFirstPlaces
<1>2. PICK i, j \in 1..Len(s) : i < j /\ s[i] = x /\ s[j] = y
  BY DEF Before
<1> HIDE DEF t
<1> DEFINE new(h) == IF h < k THEN h ELSE h - 1
<1>3. i # k /\ j # k
  BY <1>1, <1>2
<1>4. /\ new(i) \in 1..Len(t) /\ new(j) \in 1..Len(t) /\ new(i) < new(j)
      /\ t[new(i)] = s[i] /\ t[new(j)] = s[j]
  BY <1>1, <1>2, <1>3
<1>5. Before(t, x, y)
  <2> HIDE DEF new
  <2> QED BY <1>2, <1>4 DEF Before
<1> QED BY <1>5 DEF t

LEMMA TailBefore ==
  ASSUME NEW S, NEW s \in Seq(S), NEW x, NEW y, Before(s, x, y), x # Head(s)
  PROVE  Before(Tail(s), x, y)
<1>1. PICK i, j \in 1..Len(s) : i < j /\ s[i] = x /\ s[j] = y
  BY DEF Before
<1> DEFINE t == Tail(s)
<1>2. i # 1 /\ s # <<>>
  BY <1>1
<1>3. /\ i - 1 \in 1..Len(t) /\ j - 1 \in 1..Len(t) /\ i - 1 < j - 1
      /\ t[i - 1] = s[i] /\ t[j - 1] = s[j]
  BY <1>1, <1>2
<1> HIDE DEF t
<1>4. Before(t, x, y)
  BY <1>1, <1>3 DEF Before
<1> QED BY <1>4 DEF t

\* Nothing is before the head of a list without duplicates.
LEMMA NotBeforeHead ==
  ASSUME NEW S, NEW s \in Seq(S), Distinct(s), NEW x
  PROVE  ~Before(s, x, Head(s))
<1> SUFFICES ASSUME NEW i \in 1..Len(s), NEW j \in 1..Len(s), i < j, s[j] = Head(s)
             PROVE  FALSE
  BY DEF Before
<1>1. s[1] = Head(s) /\ 1 \in 1..Len(s)
  OBVIOUS
<1> QED BY <1>1 DEF Distinct

\* Both are in the list.
LEMMA BeforeElements ==
  ASSUME NEW S, NEW s \in Seq(S), NEW x, NEW y, Before(s, x, y)
  PROVE  x \in ToSet(s) /\ y \in ToSet(s)
BY ListElements DEF Before
=============================================================================
