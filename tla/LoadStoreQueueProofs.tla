------------------------ MODULE LoadStoreQueueProofs ------------------------
(***************************************************************************)
(* Proofs about LoadStoreQueue, for any window, buckets, operations and    *)
(* bounds.                                                                 *)
(*                                                                         *)
(* QueueInv says what the lists, the wait lists and the stages have to do  *)
(* with each other.  A step is a change of a few instructions (Prepared)   *)
(* followed by the wakeups it makes (Settled).                             *)
(*                                                                         *)
(* StaleInv says what instructions have read: a value is that of the       *)
(* closest older store, one that waits does so for the closest older       *)
(* store, and one that has asked the cache has none (FreshOK), unless it   *)
(* is about to be squashed or has been misfed.  A store that executes late *)
(* can break this for the loads that storeSearch finds and for no other,   *)
(* as long as the object a load depends on still is that store's or of a   *)
(* store that has retired (DependOK), which needs that nobody else has the *)
(* object of a live store (HeapSafe).                                      *)
(***************************************************************************)
EXTENDS LoadStoreQueue, SequenceTheorems, FiniteSetTheorems, WellFoundedInduction, TLAPS

-----------------------------------------------------------------------------
(***************************************************************************)
(* Numbers and finite sets of them.                                        *)
(***************************************************************************)

\* A non-empty set of positive numbers with a bound has a maximum, and Max is it.
LEMMA MaxExists ==
  ASSUME NEW S, NEW n \in Nat, S \subseteq 1 .. n, S # {}
  PROVE  /\ Max(S) \in S
         /\ \A y \in S : y <= Max(S)
<1> DEFINE R == OpToRel(<, Nat)
           T == {m \in Nat : n - m \in S}
<1>1. IsWellFoundedOn(R, Nat)
  BY NatLessThanWellFounded
<1>2. T \subseteq Nat /\ T # {}
  <2>1. PICK s \in S : TRUE
    OBVIOUS
  <2>2. n - s \in Nat /\ n - (n - s) = s
    BY <2>1
  <2> QED BY <2>1, <2>2
<1>3. \A x, y \in Nat : x < y => <<x, y>> \in R
  BY DEF OpToRel
<1>4. PICK x \in T : \A y \in T : ~(<<y, x>> \in R)
  <2> HIDE DEF R, T
  <2> QED BY <1>1, <1>2, WFMin
<1>5. n - x \in S /\ \A y \in S : y <= n - x
  <2> SUFFICES ASSUME NEW y \in S PROVE y <= n - x
    BY <1>4
  <2>1. n - y \in T
    <3>1. n - y \in Nat /\ n - (n - y) = y
      OBVIOUS
    <3> QED BY <3>1
  <2>2. ~(n - y < x)
    BY <2>1, <1>4, <1>3
  <2> QED BY <2>2
<1> QED BY <1>5 DEF Max

\* A set of positive numbers has a least element.
LEMMA LeastExists ==
  ASSUME NEW S, NEW n \in Nat, S \subseteq 1 .. n, S # {}
  PROVE  \E x \in S : \A y \in S : x <= y
<1> DEFINE R == OpToRel(<, Nat)
<1>1. IsWellFoundedOn(R, Nat)
  BY NatLessThanWellFounded
<1>2. \A x, y \in Nat : x < y => <<x, y>> \in R
  BY DEF OpToRel
<1>3. S \subseteq Nat
  OBVIOUS
<1>4. PICK x \in S : \A y \in S : ~ (<<y, x>> \in R)
  <2> HIDE DEF R
  <2> QED BY <1>1, <1>3, WFMin
<1>5. ASSUME NEW y \in S PROVE x <= y
  <2>1. x \in Nat /\ y \in Nat
    OBVIOUS
  <2>2. ~ (y < x)
    BY <1>2, <1>4, <2>1
  <2> QED
    BY <2>1, <2>2
<1> QED
  BY <1>5

\* Min is it.
LEMMA MinExists ==
  ASSUME NEW S, NEW n \in Nat, S \subseteq 1 .. n, S # {}
  PROVE  /\ Min(S) \in S
         /\ \A y \in S : Min(S) <= y
BY LeastExists DEF Min

-----------------------------------------------------------------------------
(***************************************************************************)
(* The numbers of a set in their order, and lists without some of their    *)
(* members.                                                                *)
(***************************************************************************)

\* How many of the numbers are at most k.
Count(numbers, k) == Cardinality(numbers \cap 1 .. k)

LEMMA CountStep ==
  ASSUME NEW n \in Nat, NEW S, S \subseteq 1 .. n, NEW k \in 0 .. n
  PROVE  /\ Count(S, k) \in Nat
         /\ Count(S, 0) = 0
         /\ Count(S, n) = Cardinality(S)
         /\ k # 0 => /\ k \in S => Count(S, k) = Count(S, k - 1) + 1
                     /\ k \notin S => Count(S, k) = Count(S, k - 1)
<1>1. IsFiniteSet(S)
  <2>1. IsFiniteSet(1 .. n)
    BY FS_Interval
  <2> QED
    BY <2>1, FS_Subset
<1>2. \A j \in Nat : IsFiniteSet(S \cap 1 .. j) /\ Count(S, j) \in Nat
  <2> SUFFICES ASSUME NEW j \in Nat PROVE IsFiniteSet(S \cap 1 .. j) /\ Count(S, j) \in Nat
    OBVIOUS
  <2>1. S \cap 1 .. j \subseteq S
    OBVIOUS
  <2> QED
    BY <1>1, <2>1, FS_Subset, FS_CardinalityType DEF Count
<1>3. Count(S, 0) = 0
  <2>1. S \cap 1 .. 0 = {}
    OBVIOUS
  <2> QED
    BY <2>1, FS_EmptySet DEF Count
<1>4. Count(S, n) = Cardinality(S)
  <2>1. S \cap 1 .. n = S
    OBVIOUS
  <2> QED
    BY <2>1 DEF Count
<1>5. Count(S, k) \in Nat
  <2>1. k \in Nat
    OBVIOUS
  <2> QED
    BY <1>2, <2>1
<1>6. ASSUME k # 0
      PROVE  /\ k \in S => Count(S, k) = Count(S, k - 1) + 1
             /\ k \notin S => Count(S, k) = Count(S, k - 1)
  <2> DEFINE below == S \cap 1 .. k - 1
  <2>1. k - 1 \in Nat
    BY <1>6
  <2>2. IsFiniteSet(below) /\ k \notin below
    BY <1>2, <2>1
  <2>3. CASE k \in S
    <3>1. S \cap 1 .. k = below \cup {k}
      BY <1>6, <2>3
    <3> HIDE DEF below
    <3>2. Cardinality(below \cup {k}) = Cardinality(below) + 1
      BY <2>2, FS_AddElement
    <3> QED
      BY <2>3, <3>1, <3>2 DEF Count, below
  <2>4. CASE k \notin S
    <3>1. S \cap 1 .. k = below
      BY <1>6, <2>4
    <3> QED
      BY <2>4, <3>1 DEF Count
  <2> QED
    BY <2>3, <2>4
<1> QED
  BY <1>3, <1>4, <1>5, <1>6

LEMMA CountAt ==
  ASSUME NEW n \in Nat, NEW S, S \subseteq 1 .. n, NEW k \in 1 .. n
  PROVE  /\ k \in S => Count(S, k) = Count(S, k - 1) + 1
         /\ k \notin S => Count(S, k) = Count(S, k - 1)
<1>1. k \in 0 .. n /\ k # 0
  OBVIOUS
<1>2. k # 0 => /\ k \in S => Count(S, k) = Count(S, k - 1) + 1
               /\ k \notin S => Count(S, k) = Count(S, k - 1)
  BY <1>1, CountStep
<1> QED
  BY <1>1, <1>2

LEMMA CountGrows ==
  ASSUME NEW n \in Nat, NEW S, S \subseteq 1 .. n, NEW a \in 0 .. n, NEW b \in 0 .. n, a <= b
  PROVE  /\ Count(S, a) <= Count(S, b)
         /\ a < b /\ b \in S => Count(S, a) < Count(S, b)
<1>1. ASSUME NEW c \in 0 .. n, a <= c PROVE Count(S, a) <= Count(S, c)
  <2>1. IsFiniteSet(S)
    <3>1. IsFiniteSet(1 .. n)
      BY FS_Interval
    <3> QED
      BY <3>1, FS_Subset
  <2>2. S \cap 1 .. a \subseteq S \cap 1 .. c /\ S \cap 1 .. c \subseteq S
    BY <1>1
  <2>3. IsFiniteSet(S \cap 1 .. c)
    BY <2>1, <2>2, FS_Subset
  <2> QED
    BY <2>2, <2>3, FS_Subset DEF Count
<1>2. ASSUME a < b, b \in S PROVE Count(S, a) < Count(S, b)
  <2>1. b # 0 /\ b - 1 \in 0 .. n /\ a <= b - 1
    BY <1>2
  <2>2. Count(S, a) <= Count(S, b - 1)
    BY <1>1, <2>1
  <2>3. Count(S, b) = Count(S, b - 1) + 1
    BY <1>2, <2>1, CountStep
  <2>4. Count(S, a) \in Nat /\ Count(S, b - 1) \in Nat
    BY <2>1, CountStep
  <2> QED
    BY <2>2, <2>3, <2>4
<1> QED
  BY <1>1, <1>2

LEMMA NthOf ==
  ASSUME NEW n \in Nat, NEW S, S \subseteq 1 .. n, NEW m \in 1 .. Cardinality(S)
  PROVE  Nth(S, m) \in S /\ Count(S, Nth(S, m)) = m
<1> DEFINE K == {k \in 1 .. n : Count(S, k) >= m}
<1>1. Cardinality(S) \in Nat /\ n # 0
  <2>1. n \in 0 .. n
    OBVIOUS
  <2>2. Count(S, n) = Cardinality(S) /\ Count(S, n) \in Nat /\ Count(S, 0) = 0
    BY <2>1, CountStep
  <2> QED
    BY <2>2
<1>2. n \in K
  <2>1. n \in 0 .. n /\ n \in 1 .. n
    BY <1>1
  <2>2. Count(S, n) = Cardinality(S)
    BY <2>1, CountStep
  <2> QED
    BY <1>1, <2>1, <2>2
<1>3. PICK k \in K : \A j \in K : k <= j
  <2>1. K \subseteq 1 .. n /\ K # {}
    BY <1>2
  <2> HIDE DEF K
  <2> QED
    BY <2>1, LeastExists
<1>4. k \in 1 .. n /\ Count(S, k) >= m /\ Count(S, k) \in Nat /\ k - 1 \in 0 .. n /\ Count(S, k - 1) \in Nat
  <2>1. k \in 1 .. n /\ k \in 0 .. n /\ k - 1 \in 0 .. n /\ Count(S, k) >= m
    BY <1>3
  <2>2. Count(S, k) \in Nat
    BY <2>1, CountStep
  <2>3. Count(S, k - 1) \in Nat
    BY <2>1, CountStep
  <2> QED
    BY <2>1, <2>2, <2>3
<1>5. Count(S, k - 1) < m
  <2>1. CASE k = 1
    <3>1. Count(S, k - 1) = 0
      <4>1. 0 \in 0 .. n /\ k - 1 = 0
        BY <2>1
      <4> QED
        BY <4>1, CountStep
    <3> QED
      BY <3>1
  <2>2. CASE k # 1
    <3>1. k - 1 \in 1 .. n /\ k - 1 \notin K
      BY <1>3, <1>4, <2>2
    <3> QED
      BY <1>4, <3>1
  <2> QED
    BY <2>1, <2>2
<1>6. /\ k \in S => Count(S, k) = Count(S, k - 1) + 1
      /\ k \notin S => Count(S, k) = Count(S, k - 1)
  BY <1>4, CountAt
<1>7. k \in S /\ Count(S, k) = m
  BY <1>4, <1>5, <1>6
<1> QED
  BY <1>7 DEF Nth, Count

LEMMA NthOrder ==
  ASSUME NEW n \in Nat, NEW S, S \subseteq 1 .. n, NEW m \in 1 .. Cardinality(S), NEW k \in 1 .. Cardinality(S),
         m < k
  PROVE  Nth(S, m) < Nth(S, k)
<1>1. PICK a, b : a = Nth(S, m) /\ b = Nth(S, k)
  OBVIOUS
<1>2. a \in S /\ b \in S /\ Count(S, a) = m /\ Count(S, b) = k
  BY <1>1, NthOf
<1>3. a \in 0 .. n /\ b \in 0 .. n
  BY <1>2
<1>4. b <= a => Count(S, b) <= Count(S, a)
  BY <1>3, CountGrows
<1>5. m \in Int /\ k \in Int
  OBVIOUS
<1>6. a < b
  BY <1>2, <1>3, <1>4, <1>5
<1> QED
  BY <1>1, <1>6

LEMMA NthOnto ==
  ASSUME NEW n \in Nat, NEW S, S \subseteq 1 .. n, NEW s \in S
  PROVE  Count(S, s) \in 1 .. Cardinality(S) /\ Nth(S, Count(S, s)) = s
<1>1. s \in 1 .. n /\ 0 \in 0 .. n /\ n \in 0 .. n /\ s \in 0 .. n
  OBVIOUS
<1>2. Count(S, 0) < Count(S, s) /\ Count(S, 0) = 0
  <2>1. 0 <= s /\ 0 < s
    BY <1>1
  <2>2. Count(S, 0) < Count(S, s)
    BY <1>1, <2>1, CountGrows
  <2>3. Count(S, 0) = 0
    BY <1>1, CountStep
  <2> QED
    BY <2>2, <2>3
<1>3. Count(S, s) <= Count(S, n) /\ Count(S, n) = Cardinality(S)
  <2>1. s <= n
    BY <1>1
  <2> QED
    BY <1>1, <2>1, CountGrows, CountStep
<1>4. Count(S, s) \in Nat /\ Count(S, n) \in Nat
  BY <1>1, CountStep
<1>5. PICK m : m = Count(S, s)
  OBVIOUS
<1>6. m \in 1 .. Cardinality(S)
  BY <1>2, <1>3, <1>4, <1>5
<1>7. PICK a : a = Nth(S, m)
  OBVIOUS
<1>8. a \in S /\ Count(S, a) = m
  BY <1>6, <1>7, NthOf
<1>9. a \in 0 .. n /\ m \in Nat
  BY <1>4, <1>5, <1>8
<1>10. a = s
  <2>1. CASE a < s
    <3>1. a <= s
      BY <2>1, <1>1, <1>9
    <3>2. Count(S, a) < Count(S, s)
      BY <1>1, <1>9, <2>1, <3>1, CountGrows
    <3> QED
      BY <1>5, <1>8, <1>9, <3>2
  <2>2. CASE s < a
    <3>1. s <= a
      BY <2>2, <1>1, <1>9
    <3>2. Count(S, s) < Count(S, a)
      BY <1>1, <1>8, <1>9, <2>2, <3>1, CountGrows
    <3> QED
      BY <1>5, <1>8, <1>9, <3>2
  <2> QED
    BY <1>1, <1>9, <2>1, <2>2
<1> QED
  BY <1>5, <1>6, <1>7, <1>10

\* The members of t are at places of s in the same order.
Within(t, s) ==
    \A a, b \in DOMAIN t : a < b => \E c, d \in DOMAIN s : c < d /\ t[a] = s[c] /\ t[b] = s[d]

\* What is left of a list without some of its members, in its order.
LEMMA WithoutKeeps ==
  ASSUME NEW T, NEW list \in Seq(T), NEW gone
  PROVE  /\ Without(list, gone) \in Seq(T)
         /\ ToSet(Without(list, gone)) = ToSet(list) \ gone
         /\ Within(Without(list, gone), list)
<1> DEFINE n == Len(list)
           stay == {k \in DOMAIN list : list[k] \notin gone}
           c == Cardinality(stay)
           w == [m \in 1 .. c |-> list[Nth(stay, m)]]
<1>1. n \in Nat /\ DOMAIN list = 1 .. n /\ \A k \in 1 .. n : list[k] \in T
  BY LenProperties, ElementOfSeq
<1>2. stay \subseteq 1 .. n /\ \A k \in stay : k \in DOMAIN list /\ list[k] \in T /\ list[k] \notin gone
  BY <1>1
<1>3. Without(list, gone) = w
  BY DEF Without
<1>4. \A k \in 1 .. n : list[k] \notin gone => k \in stay
  BY <1>1
<1> HIDE DEF stay
<1>5. c \in Nat
  <2>1. IsFiniteSet(1 .. n)
    BY <1>1, FS_Interval
  <2>2. IsFiniteSet(stay)
    BY <1>2, <2>1, FS_Subset
  <2> QED
    BY <2>2, FS_CardinalityType
<1>6. \A m \in 1 .. c : Nth(stay, m) \in stay
  BY <1>1, <1>2, NthOf
<1>7. w \in Seq(T)
  <2>1. \A m \in 1 .. c : list[Nth(stay, m)] \in T
    BY <1>2, <1>6
  <2> HIDE DEF c
  <2> QED
    BY <1>5, <2>1, IsASeq
<1>8. DOMAIN w = 1 .. c /\ \A m \in 1 .. c : w[m] = list[Nth(stay, m)]
  OBVIOUS
<1>9. ASSUME NEW k \in 1 .. n, list[k] \notin gone PROVE \E m \in 1 .. c : w[m] = list[k]
  <2>1. k \in stay
    BY <1>4, <1>9
  <2>2. Count(stay, k) \in 1 .. c /\ Nth(stay, Count(stay, k)) = k
    BY <1>1, <1>2, <2>1, NthOnto
  <2> QED
    BY <2>2
<1> HIDE DEF w, c
<1>10. ToSet(w) = ToSet(list) \ gone
  BY <1>1, <1>2, <1>6, <1>8, <1>9 DEF ToSet
<1>11. Within(w, list)
  <2> SUFFICES ASSUME NEW a \in 1 .. c, NEW b \in 1 .. c, a < b
               PROVE  \E d, e \in DOMAIN list : d < e /\ w[a] = list[d] /\ w[b] = list[e]
    BY <1>8 DEF Within
  <2>1. Nth(stay, a) < Nth(stay, b)
    BY <1>1, <1>2, NthOrder DEF c
  <2> QED
    BY <1>2, <1>6, <1>8, <2>1
<1> QED
  BY <1>3, <1>7, <1>10, <1>11

\* A list from the youngest to the oldest.
Decreasing(list) == \A m, n \in DOMAIN list : m < n => list[m] > list[n]

LEMMA WithinDecreasing ==
  ASSUME NEW s, NEW t, Within(t, s), Decreasing(s)
  PROVE  Decreasing(t)
<1> SUFFICES ASSUME NEW a \in DOMAIN t, NEW b \in DOMAIN t, a < b
             PROVE  t[a] > t[b]
  BY DEF Decreasing
<1>1. PICK c, d \in DOMAIN s : c < d /\ t[a] = s[c] /\ t[b] = s[d]
  BY DEF Within
<1> QED
  BY <1>1 DEF Decreasing

LEMMA InsertPlaces ==
  ASSUME NEW S, NEW s \in Seq(S), NEW i \in 1 .. Len(s) + 1, NEW e \in S, NEW u, u = InsertAt(s, i, e)
  PROVE  /\ u \in Seq(S) /\ Len(u) = Len(s) + 1
         /\ u[i] = e
         /\ \A k \in 1 .. i - 1 : u[k] = s[k]
         /\ \A k \in i .. Len(s) : u[k + 1] = s[k]
<1> DEFINE n == Len(s)
           a == SubSeq(s, 1, i - 1)
           b == SubSeq(s, i, n)
           t == a \o <<e>>
<1>1. n \in Nat /\ i \in 1 .. n + 1 /\ \A k \in 1 .. n : s[k] \in S
  BY LenProperties, ElementOfSeq
<1>2. a \in Seq(S) /\ Len(a) = i - 1 /\ \A k \in 1 .. i - 1 : a[k] = s[k]
  <2>1. 1 \in Int /\ i - 1 \in Int /\ \A k \in 1 .. i - 1 : s[k] \in S
    BY <1>1
  <2>2. /\ a \in Seq(S) /\ Len(a) = IF 1 <= i - 1 THEN (i - 1) - 1 + 1 ELSE 0
        /\ \A k \in 1 .. (i - 1) - 1 + 1 : a[k] = s[1 + k - 1]
    BY <2>1, SubSeqProperties
  <2> HIDE DEF a
  <2>3. Len(a) = i - 1
    BY <1>1, <2>2
  <2>4. ASSUME NEW k \in 1 .. i - 1 PROVE a[k] = s[k]
    <3>1. k \in 1 .. (i - 1) - 1 + 1 /\ 1 + k - 1 = k
      BY <1>1
    <3> QED
      BY <2>2, <3>1
  <2> QED
    BY <2>2, <2>3, <2>4
<1>3. b \in Seq(S) /\ Len(b) = n - i + 1 /\ \A k \in 1 .. n - i + 1 : b[k] = s[i + k - 1]
  <2>1. i \in Int /\ n \in Int /\ \A k \in i .. n : s[k] \in S
    BY <1>1
  <2>2. /\ b \in Seq(S) /\ Len(b) = IF i <= n THEN n - i + 1 ELSE 0
        /\ \A k \in 1 .. n - i + 1 : b[k] = s[i + k - 1]
    BY <2>1, SubSeqProperties
  <2> HIDE DEF b
  <2> QED
    BY <1>1, <2>2
<1>4. <<e>> \in Seq(S) /\ Len(<<e>>) = 1 /\ <<e>>[1] = e
  OBVIOUS
<1>5. u = t \o b
  BY DEF InsertAt
<1> HIDE DEF a, b
<1>6. t \in Seq(S) /\ Len(t) = i /\ (\A k \in 1 .. i - 1 : t[k] = s[k]) /\ t[i] = e
  BY <1>1, <1>2, <1>4, ConcatProperties
<1> HIDE DEF t
<1>7. u \in Seq(S) /\ Len(u) = n + 1
  <2>1. u \in Seq(S) /\ Len(u) = Len(t) + Len(b)
    <3>1. t \in Seq(S) /\ b \in Seq(S)
      BY <1>3, <1>6
    <3> QED
      BY ONLY <1>5, <3>1, ConcatProperties
  <2> QED
    BY <1>1, <1>3, <1>6, <2>1
<1>8. \A k \in 1 .. n + 1 : u[k] = IF k <= i THEN t[k] ELSE b[k - i]
  BY <1>1, <1>3, <1>5, <1>6, ConcatProperties
<1>9. u[i] = e /\ \A k \in 1 .. i - 1 : u[k] = s[k]
  BY <1>1, <1>6, <1>8
<1>10. ASSUME NEW k \in i .. n PROVE u[k + 1] = s[k]
  <2>1. k + 1 \in 1 .. n + 1 /\ ~ (k + 1 <= i) /\ (k + 1) - i \in 1 .. n - i + 1 /\ i + ((k + 1) - i) - 1 = k
    BY <1>1
  <2>2. u[k + 1] = b[(k + 1) - i]
    BY <1>8, <2>1
  <2>3. b[(k + 1) - i] = s[k]
    BY <1>3, <2>1
  <2> QED
    BY <2>2, <2>3
<1> QED
  BY <1>7, <1>9, <1>10

\* The place of the first member of a list that is older than i, and the list with i
\* before it (doInsert).
FirstBelow(list, i) == SelectInSeq(list, LAMBDA j : j < i)
Placed(list, i) == InsertAt(list, IF FirstBelow(list, i) = 0 THEN Len(list) + 1 ELSE FirstBelow(list, i), i)

LEMMA FirstBelowIs ==
  ASSUME NEW T, T \subseteq Nat, NEW list \in Seq(T), NEW i \in T, NEW n, n = FirstBelow(list, i)
  PROVE  /\ n \in 0 .. Len(list)
         /\ n = 0 => \A k \in 1 .. Len(list) : ~ (list[k] < i)
         /\ n # 0 => list[n] < i /\ \A k \in 1 .. n - 1 : ~ (list[k] < i)
<1> DEFINE I == {k \in 1 .. Len(list) : list[k] < i}
<1>1. Len(list) \in Nat
  BY LenProperties
<1>2. n = IF I # {} THEN Min(I) ELSE 0
  BY DEF FirstBelow, SelectInSeq
<1>3. CASE I = {}
  BY <1>1, <1>2, <1>3
<1>4. CASE I # {}
  <2>1. n \in I /\ \A k \in I : n <= k
    <3>1. I \subseteq 1 .. Len(list)
      OBVIOUS
    <3> HIDE DEF I
    <3> QED
      BY <1>1, <1>2, <1>4, <3>1, MinExists
  <2>2. n \in 1 .. Len(list) /\ list[n] < i
    BY <2>1
  <2>3. ASSUME NEW k \in 1 .. n - 1 PROVE ~ (list[k] < i)
    <3>1. k \in 1 .. Len(list) /\ ~ (n <= k)
      BY <1>1, <2>2
    <3> QED
      BY <2>1, <3>1
  <2> QED
    BY <1>1, <2>2, <2>3
<1> QED
  BY <1>3, <1>4

LEMMA PlacedKeeps ==
  ASSUME NEW T, T \subseteq Nat, NEW list \in Seq(T), NEW i \in T, i \notin ToSet(list), Decreasing(list)
  PROVE  /\ Placed(list, i) \in Seq(T)
         /\ ToSet(Placed(list, i)) = ToSet(list) \cup {i}
         /\ Decreasing(Placed(list, i))
<1>1. PICK f : f = FirstBelow(list, i)
  OBVIOUS
<1>2. PICK n : n = Len(list)
  OBVIOUS
<1>3. PICK p : p = IF f = 0 THEN n + 1 ELSE f
  OBVIOUS
<1>4. PICK u : u = InsertAt(list, p, i)
  OBVIOUS
<1>5. Placed(list, i) = u
  BY <1>1, <1>2, <1>3, <1>4 DEF Placed
<1> DOMAIN list = 1 .. n
  BY <1>2, LenProperties
<1>6. n \in Nat /\ DOMAIN list = 1 .. n /\ \A k \in 1 .. n : list[k] \in T /\ list[k] \in Nat /\ list[k] # i
  <2>1. n \in Nat /\ DOMAIN list = 1 .. n /\ \A k \in 1 .. n : list[k] \in T
    BY <1>2, LenProperties, ElementOfSeq
  <2> QED
    BY <2>1 DEF ToSet
<1>7. /\ f \in 0 .. n
      /\ f = 0 => \A k \in 1 .. n : ~ (list[k] < i)
      /\ f # 0 => list[f] < i /\ \A k \in 1 .. f - 1 : ~ (list[k] < i)
  BY <1>1, <1>2, FirstBelowIs
<1>8. p \in 1 .. n + 1 /\ i \in Nat
  BY <1>3, <1>6, <1>7
<1>9. \A k \in 1 .. p - 1 : list[k] > i
  BY <1>3, <1>6, <1>7, <1>8
<1>10. \A k \in p .. n : list[k] < i
  <2> SUFFICES ASSUME NEW k \in p .. n PROVE list[k] < i
    OBVIOUS
  <2>1. f # 0 /\ p = f /\ f \in 1 .. n /\ k \in 1 .. n /\ f <= k
    BY <1>3, <1>6, <1>7, <1>8
  <2>2. f < k => list[f] > list[k]
    BY <1>6, <2>1 DEF Decreasing
  <2> QED
    BY <1>6, <1>7, <1>8, <2>1, <2>2
<1>11. /\ u \in Seq(T) /\ Len(u) = n + 1
       /\ u[p] = i
       /\ \A k \in 1 .. p - 1 : u[k] = list[k]
       /\ \A k \in p .. n : u[k + 1] = list[k]
  BY <1>2, <1>4, <1>8, InsertPlaces
<1>12. DOMAIN u = 1 .. n + 1
  BY <1>11, LenProperties
<1>13. ASSUME NEW k \in 1 .. n + 1
       PROVE  \/ k < p /\ k \in 1 .. n /\ u[k] = list[k] /\ u[k] > i
              \/ k = p /\ u[k] = i
              \/ k > p /\ k - 1 \in p .. n /\ k - 1 \in 1 .. n /\ u[k] = list[k - 1] /\ u[k] < i
  <2>1. CASE k < p
    BY <1>6, <1>8, <1>9, <1>11, <2>1
  <2>2. CASE k = p
    BY <1>11, <2>2
  <2>3. CASE k > p
    <3>1. k - 1 \in p .. n /\ k - 1 \in 1 .. n /\ (k - 1) + 1 = k
      BY <1>6, <1>8, <2>3
    <3>2. u[(k - 1) + 1] = list[k - 1]
      BY <1>11, <3>1
    <3> QED
      BY <1>10, <2>3, <3>1, <3>2
  <2> QED
    BY <1>8, <2>1, <2>2, <2>3
<1>14. ToSet(u) = ToSet(list) \cup {i}
  <2>1. ASSUME NEW k \in 1 .. n PROVE \E m \in 1 .. n + 1 : u[m] = list[k]
    <3>1. CASE k < p
      BY <1>6, <1>8, <1>11, <3>1
    <3>2. CASE k >= p
      <4>1. k \in p .. n /\ k + 1 \in 1 .. n + 1
        BY <1>6, <1>8, <3>2
      <4> QED
        BY <1>11, <4>1
    <3> QED
      BY <1>8, <3>1, <3>2
  <2>2. \A k \in 1 .. n + 1 : u[k] = i \/ \E m \in 1 .. n : u[k] = list[m]
    BY <1>13
  <2>3. \E m \in 1 .. n + 1 : u[m] = i
    BY <1>8, <1>11
  <2> QED
    BY ONLY DOMAIN list = 1 .. n, <1>12, <2>1, <2>2, <2>3 DEF ToSet
<1>15. Decreasing(u)
  <2> SUFFICES ASSUME NEW a \in 1 .. n + 1, NEW b \in 1 .. n + 1, a < b
               PROVE  u[a] > u[b]
    BY <1>12 DEF Decreasing
  <2>1. \A c, d \in 1 .. n : c < d => list[c] > list[d]
    BY <1>6 DEF Decreasing
  <2>2. CASE a < p
    <3>1. u[a] = list[a] /\ u[a] > i /\ a \in 1 .. n
      BY <1>8, <1>13, <2>2
    <3>2. CASE b < p
      BY <1>8, <1>13, <2>1, <3>1, <3>2
    <3>3. CASE b = p
      BY <1>13, <3>1, <3>3, <1>8
    <3>4. CASE b > p
      <4>1. b - 1 \in 1 .. n /\ u[b] = list[b - 1] /\ a < b - 1
        BY <1>8, <1>13, <2>2, <3>4
      <4> QED
        BY <2>1, <3>1, <4>1
    <3> QED
      BY <1>8, <3>2, <3>3, <3>4
  <2>3. CASE a = p
    <3>1. b > p
      BY <1>8, <2>3
    <3>2. u[a] = i /\ u[b] < i /\ u[b] = list[b - 1] /\ b - 1 \in 1 .. n
      BY <1>8, <1>13, <2>3, <3>1
    <3> QED
      BY <1>6, <1>8, <3>2
  <2>4. CASE a > p
    <3>1. b > p
      BY <1>8, <2>4
    <3>2. a - 1 \in 1 .. n /\ u[a] = list[a - 1] /\ b - 1 \in 1 .. n /\ u[b] = list[b - 1] /\ a - 1 < b - 1
      BY <1>8, <1>13, <2>4, <3>1
    <3> QED
      BY <2>1, <3>2
  <2> QED
    BY <1>8, <2>2, <2>3, <2>4
<1> QED
  BY <1>5, <1>11, <1>14, <1>15

-----------------------------------------------------------------------------
(***************************************************************************)
(* The invariant.                                                          *)
(***************************************************************************)
\* A writer and a unit of its data.
Data == (0 .. LastSeq) \X (0 .. LineUnits)

Instruction == [op : Ops, stage : Stages, wait : Nat, depend : Nat, object : Nat, value : Values]

\* What an access may have read.
ValueOK(op, v) == v \in {Nothing} \cup [Units(op) -> Data]

\* An instruction when objects have been allocated: a writer has one of them.
EntryOK(r, objects) ==
    /\ r \in Instruction
    /\ ValueOK(r.op, r.value)
    /\ r.depend \in 0 .. objects
    /\ r.object \in IF Writes(r.op) THEN 1 .. objects ELSE {0}

NumbersOK ==
    /\ retired \in 0 .. LastSeq
    /\ Fetched \in retired .. LastSeq
    /\ InFlight = retired + 1 .. Fetched
    /\ exception \in InFlight \cup {0}
    /\ squashes \in 0 .. Mispredictions

\* Memory holds what retired instructions wrote.
MemoryOK ==
    /\ memory \in [0 .. NumLines - 1 -> [0 .. LineUnits - 1 -> 0 .. retired]]
    /\ result \in Values

EntriesOK == \A i \in InFlight : EntryOK(inst[i], Len(content))

HeapOK ==
    /\ content \in Seq(Nat)
    /\ freeList \in [Pools -> Seq(1 .. Len(content))]
    /\ recent \subseteq [seq : 1 .. retired, pool : Pools, object : 1 .. Len(content)]

QueueOK ==
    /\ lsq \in [0 .. Buckets - 1 -> Seq(Nat)]
    /\ QueueInProgramOrder

\* i may wait for j.
MayWaitFor(i, j) ==
    /\ j < i /\ Reads(Op(i)) /\ Writes(Op(j))
    /\ Overlaps(i, j)

WaitOK ==
    \A i \in InFlight :
        /\ At(i) \in {"lsqWait", "overlap"} =>
               /\ inst[i].wait \in InFlight /\ MayWaitFor(i, inst[i].wait)
               /\ At(inst[i].wait) # "fetched"
        /\ At(i) = "lsqWait" => Exact(i, inst[i].wait) /\ At(inst[i].wait) # "complete"
        /\ At(i) \notin {"lsqWait", "overlap"} => inst[i].wait = 0

QueueInv == NumbersOK /\ MemoryOK /\ EntriesOK /\ HeapOK /\ QueueOK /\ WaitOK

LEMMA OpFacts ==
  ASSUME NEW op \in Ops
  PROVE  /\ op \in Accesses
         /\ op.kind \in Kinds /\ op.line \in 0 .. NumLines - 1 /\ op.offset \in 0 .. LineUnits - 1
         /\ op.size \in 1 .. LineUnits /\ op.offset + op.size <= LineUnits
         /\ Units(op) \subseteq 0 .. LineUnits - 1
         /\ op.offset \in Units(op)
         /\ Reads(op) \/ Writes(op)
         /\ Nothing \notin [Units(op) -> Data]
<1>1. op \in Accesses /\ op.offset + op.size <= LineUnits /\ LineUnits \in Nat
  BY MemoryAccessAssumption
<1>2. /\ op.kind \in Kinds /\ op.line \in 0 .. NumLines - 1 /\ op.offset \in 0 .. LineUnits - 1
      /\ op.size \in 1 .. LineUnits
  BY <1>1 DEF Accesses
<1>3. Units(op) \subseteq 0 .. LineUnits - 1 /\ op.offset \in Units(op)
  BY <1>1, <1>2 DEF Units
<1>4. Reads(op) \/ Writes(op)
  BY DEF Reads, Writes
<1>5. Nothing \notin [Units(op) -> Data]
  <2>1. DOMAIN Nothing = {}
    BY DEF Nothing
  <2> QED
    BY <1>3, <2>1
<1> QED
  BY <1>1, <1>2, <1>3, <1>4, <1>5

LEMMA BucketFacts ==
  ASSUME NEW op \in Ops
  PROVE  BucketOf(op) \in 0 .. Buckets - 1
<1>1. op.line \in Nat /\ Buckets \in Nat \ {0}
  BY OpFacts, MemoryAccessAssumption, LoadStoreQueueAssumption
<1> QED
  BY <1>1 DEF BucketOf

\* The search of doInsert's list for the closest older store (loadSearch).
SearchPlace(list, i) == SelectInSeq(list, LAMBDA j : j < i /\ Writes(Op(j)) /\ Overlaps(i, j))

LEMMA SearchFinds ==
  ASSUME NEW i, NEW list \in Seq(Nat), Decreasing(list), list = lsq[BucketOf(Op(i))], NEW j, j = LoadSearch(i)
  PROVE  /\ j # 0 => j \in ToSet(list) /\ j < i /\ Writes(Op(j)) /\ Overlaps(i, j)
         /\ \A k \in ToSet(list) : k < i /\ Writes(Op(k)) /\ Overlaps(i, k) /\ k # 0 => j # 0 /\ k <= j
<1> DEFINE I == {k \in 1 .. Len(list) : list[k] < i /\ Writes(Op(list[k])) /\ Overlaps(i, list[k])}
<1>1. Len(list) \in Nat /\ DOMAIN list = 1 .. Len(list) /\ \A k \in 1 .. Len(list) : list[k] \in Nat
  BY LenProperties, ElementOfSeq
<1>2. PICK n : n = SearchPlace(list, i)
  OBVIOUS
<1>3. n = IF I # {} THEN Min(I) ELSE 0
  BY <1>2 DEF SearchPlace, SelectInSeq
<1>4. j = IF n = 0 THEN 0 ELSE list[n]
  BY <1>2 DEF SearchPlace, LoadSearch
<1>5. CASE I = {}
  <2>1. j = 0
    BY <1>3, <1>4, <1>5
  <2>2. ASSUME NEW k \in ToSet(list), k < i, Writes(Op(k)), Overlaps(i, k) PROVE FALSE
    <3>1. PICK m \in 1 .. Len(list) : k = list[m]
      BY <1>1 DEF ToSet
    <3> QED
      BY <1>5, <2>2, <3>1
  <2> QED
    BY <2>1, <2>2
<1>6. CASE I # {}
  <2>1. I \subseteq 1 .. Len(list)
    OBVIOUS
  <2>2. n \in I /\ \A k \in I : n <= k
    <3> HIDE DEF I
    <3> QED
      BY <1>1, <1>3, <1>6, <2>1, MinExists
  <2>3. n \in 1 .. Len(list) /\ n # 0 /\ j = list[n] /\ j < i /\ Writes(Op(j)) /\ Overlaps(i, j)
    BY <1>1, <1>4, <2>2
  <2>4. j \in ToSet(list)
    BY <1>1, <2>3 DEF ToSet
  <2>5. ASSUME NEW k \in ToSet(list), k < i, Writes(Op(k)), Overlaps(i, k), k # 0 PROVE j # 0 /\ k <= j
    <3>1. PICK m \in 1 .. Len(list) : k = list[m]
      BY <1>1 DEF ToSet
    <3>2. m \in I
      BY <2>5, <3>1
    <3>3. n <= m
      BY <2>2, <3>2
    <3>4. n < m => list[n] > list[m]
      BY <1>1, <2>3, <3>1 DEF Decreasing
    <3>5. list[n] \in Nat /\ list[m] \in Nat
      BY <1>1, <2>3, <3>1
    <3> QED
      BY <2>3, <2>5, <3>1, <3>3, <3>4, <3>5
  <2> QED
    BY <2>3, <2>4, <2>5
<1> QED
  BY <1>5, <1>6

-----------------------------------------------------------------------------
(***************************************************************************)
(* What the instructions may become.                                       *)
(***************************************************************************)
LEMMA ValueType ==
  ASSUME NEW op \in Ops, NEW v, ValueOK(op, v)
  PROVE  v \in Values
BY DEF Values, Data, ValueOK

\* The data of an older store that covers the reader's units.
LEMMA BypassedType ==
  ASSUME NEW i, NEW j \in 0 .. LastSeq, Op(i) \in Ops, Op(j) \in Ops, Exact(i, j), NEW stage
  PROVE  Bypassed(i, j, stage) \in [Units(Op(i)) -> Data] /\ ValueOK(Op(i), Bypassed(i, j, stage))
<1> DEFINE skipped == IF Op(j).size > RegUnits /\ Op(i).size < RegUnits THEN RegUnits - Op(i).size ELSE 0
<1>1. PICK n : n = skipped
  OBVIOUS
<1>2. Bypassed(i, j, stage) = [u \in Units(Op(i)) |-> StoreData(j, stage, u + n)]
  BY <1>1 DEF Bypassed
<1>3. /\ Op(i).offset \in Nat /\ Op(i).size \in Nat /\ Op(j).size \in Nat /\ LineUnits \in Nat /\ RegUnits \in Nat
      /\ Op(i).offset + Op(j).size <= LineUnits /\ Op(i).size <= Op(j).size
  BY OpFacts, MemoryAccessAssumption, LoadStoreQueueAssumption DEF Exact
<1>4. n \in Nat /\ (n = 0 \/ n + Op(i).size <= Op(j).size)
  BY <1>1, <1>3
<1>5. ASSUME NEW u \in Units(Op(i)) PROVE StoreData(j, stage, u + n) \in Data
  <2>1. u \in Nat /\ u >= Op(i).offset /\ u <= Op(i).offset + Op(i).size - 1
    BY <1>3 DEF Units
  <2>2. u + n \in 0 .. LineUnits
    BY <1>3, <1>4, <2>1
  <2>3. LineUnits \in 0 .. LineUnits
    BY <1>3
  <2> QED
    BY <2>2, <2>3 DEF StoreData, SourceRegister, Data
<1> QED
  BY <1>2, <1>5 DEF ValueOK

LEMMA OwnDataType ==
  ASSUME NEW i \in 0 .. LastSeq, Op(i) \in Ops
  PROVE  OwnData(i) \in [Units(Op(i)) -> Data] /\ ValueOK(Op(i), OwnData(i))
<1>1. Units(Op(i)) \subseteq 0 .. LineUnits /\ LineUnits \in 0 .. LineUnits
  BY OpFacts, MemoryAccessAssumption
<1> QED
  BY <1>1 DEF OwnData, StoreData, SourceRegister, Data, ValueOK

LEMMA ReadType ==
  ASSUME NEW op \in Ops, NEW mem \in [0 .. NumLines - 1 -> [0 .. LineUnits - 1 -> 0 .. LastSeq]]
  PROVE  ReadMemory(mem, op) \in [Units(op) -> Data] /\ ValueOK(op, ReadMemory(mem, op))
<1>1. op.line \in 0 .. NumLines - 1 /\ Units(op) \subseteq 0 .. LineUnits - 1 /\ LineUnits \in Nat
  BY OpFacts, MemoryAccessAssumption
<1> QED
  BY <1>1 DEF ReadMemory, Data, ValueOK

Changed(r, stage, wait, value) == [r EXCEPT !.stage = stage, !.wait = wait, !.value = value]

LEMMA ChangedEntry ==
  ASSUME NEW n, NEW r, EntryOK(r, n), NEW stage \in Stages, NEW wait \in Nat,
         NEW value, ValueOK(r.op, value), NEW s,
         s = Changed(r, stage, wait, value)
  PROVE  /\ EntryOK(s, n)
         /\ s.op = r.op /\ s.depend = r.depend /\ s.object = r.object
         /\ s.stage = stage /\ s.wait = wait /\ s.value = value
<1>1. r \in Instruction /\ r.op \in Ops
  BY DEF EntryOK, Instruction
<1>2. s = [op |-> r.op, stage |-> stage, wait |-> wait, depend |-> r.depend, object |-> r.object, value |-> value]
  BY <1>1 DEF Instruction, Changed
<1>3. value \in Values
  BY <1>1, ValueType
<1>4. s \in Instruction
  BY <1>1, <1>2, <1>3 DEF Instruction
<1> QED
  BY <1>2, <1>4 DEF EntryOK

LEMMA CompletedIs ==
  ASSUME NEW n, NEW r, EntryOK(r, n),
         NEW mem \in [0 .. NumLines - 1 -> [0 .. LineUnits - 1 -> 0 .. LastSeq]],
         NEW s, s = Completed(r, mem)
  PROVE  /\ EntryOK(s, n)
         /\ s.op = r.op /\ s.depend = r.depend /\ s.object = r.object
         /\ s.stage = "complete" /\ s.wait = 0
         /\ s.value = IF Reads(r.op) /\ r.value = Nothing THEN ReadMemory(mem, r.op) ELSE r.value
<1> DEFINE v == IF Reads(r.op) /\ r.value = Nothing THEN ReadMemory(mem, r.op) ELSE r.value
<1>1. r \in Instruction /\ r.op \in Ops /\ ValueOK(r.op, r.value)
  BY DEF EntryOK, Instruction
<1>2. ValueOK(r.op, v)
  BY <1>1, ReadType
<1>3. "complete" \in Stages /\ 0 \in Nat
  BY DEF Stages
<1>4. s = Changed(r, "complete", 0, v)
  BY <1>1 DEF Completed, Changed, Instruction
<1> HIDE DEF v
<1>5. /\ EntryOK(s, n)
      /\ s.op = r.op /\ s.depend = r.depend /\ s.object = r.object
      /\ s.stage = "complete" /\ s.wait = 0 /\ s.value = v
  BY <1>2, <1>3, <1>4, ChangedEntry
<1> QED
  BY <1>5 DEF v

LEMMA ContinuedIs ==
  ASSUME NEW n, NEW r, EntryOK(r, n),
         NEW mem \in [0 .. NumLines - 1 -> [0 .. LineUnits - 1 -> 0 .. LastSeq]],
         NEW s \in Continued(r, mem)
  PROVE  /\ EntryOK(s, n)
         /\ s.op = r.op /\ s.depend = r.depend /\ s.object = r.object
         /\ s.stage \in {"complete", "cache", "early"} /\ s.wait = 0
         /\ s.stage = "early" => r.op.kind \in LateData
         /\ s.value = IF s.stage = "complete" /\ Reads(r.op) /\ r.value = Nothing
                      THEN ReadMemory(mem, r.op) ELSE r.value
<1>1. r \in Instruction /\ r.op \in Ops /\ ValueOK(r.op, r.value)
  BY DEF EntryOK, Instruction
<1>2. "cache" \in Stages /\ "early" \in Stages /\ 0 \in Nat
  BY DEF Stages
<1>3. CASE s = Completed(r, mem)
  BY <1>3, CompletedIs
<1>4. ASSUME NEW stage \in {"cache", "early"}, s = [r EXCEPT !.stage = stage, !.wait = 0]
      PROVE  /\ EntryOK(s, n)
             /\ s.op = r.op /\ s.depend = r.depend /\ s.object = r.object
             /\ s.stage = stage /\ s.wait = 0 /\ s.value = r.value
  <2>1. s = Changed(r, stage, 0, r.value)
    BY <1>1, <1>4 DEF Instruction, Changed
  <2> QED
    BY <1>1, <1>2, <2>1, ChangedEntry
<1>5. CASE s = [r EXCEPT !.stage = "cache", !.wait = 0]
  BY <1>4, <1>5
<1>6. CASE s = [r EXCEPT !.stage = "early", !.wait = 0] /\ r.op.kind \in LateData
  BY <1>4, <1>6
<1> QED
  BY <1>3, <1>5, <1>6 DEF Continued

-----------------------------------------------------------------------------
(***************************************************************************)
(* A step and the wakeups it makes.                                        *)
(***************************************************************************)
\* The instructions that become complete.
Done(next) == {i \in DOMAIN next : next[i].stage = "complete" /\ At(i) # "complete"}

\* What a step makes of the instructions before anybody is woken: those on the wait
\* list of a store stay there, and one that joins such a list does not complete.
Prepared(next) ==
    /\ DOMAIN next \subseteq InFlight
    /\ \A i \in InFlight \ DOMAIN next : At(i) = "complete"
    /\ \A i \in DOMAIN next :
           /\ EntryOK(next[i], Len(content))
           /\ next[i].op = Op(i) /\ next[i].object = inst[i].object
           /\ At(i) # "fetched" => next[i].stage # "fetched"
           /\ At(i) = "lsqWait" => next[i] = inst[i]
           /\ next[i].stage \in {"lsqWait", "overlap"} =>
                  /\ next[i].wait \in DOMAIN next /\ MayWaitFor(i, next[i].wait)
                  /\ next[next[i].wait].stage # "fetched"
           /\ next[i].stage = "lsqWait" =>
                  /\ Exact(i, next[i].wait)
                  /\ At(i) # "lsqWait" => next[next[i].wait].stage # "complete" /\ Done(next) = {}
           /\ next[i].stage \notin {"lsqWait", "overlap"} => next[i].wait = 0

\* i is woken by the completion of the store it waits for.
WokenUp(i) ==
    /\ At(i) = "lsqWait"
    /\ inst'[i].stage \in {"complete", "early"}
    /\ inst'[i].stage = "early" => Op(i).kind \in LateData
    /\ inst'[i].wait = 0
    /\ inst'[i].value = Bypassed(i, inst[i].wait, "complete")
    /\ inst[i].wait \in DOMAIN inst' => inst'[inst[i].wait].stage = "complete"

Settled(next) ==
    /\ DOMAIN inst' = DOMAIN next
    /\ \A i \in DOMAIN next :
           /\ EntryOK(inst'[i], Len(content))
           /\ inst'[i].op = Op(i) /\ inst'[i].object = inst[i].object /\ inst'[i].depend = next[i].depend
           /\ \/ /\ inst'[i] = next[i]
                 /\ next[i].stage = "lsqWait" => inst'[next[i].wait].stage # "complete"
              \/ WokenUp(i)

LEMMA InRange ==
  ASSUME QueueInv
  PROVE  /\ InFlight \subseteq 1 .. LastSeq /\ LastSeq \in Nat /\ retired \in Nat /\ Fetched \in Nat
         /\ \A i \in InFlight : i \in Nat /\ i # 0 /\ Op(i) \in Ops /\ At(i) \in Stages
<1>1. LastSeq \in Nat /\ retired \in Nat /\ Fetched \in Nat /\ Fetched <= LastSeq
  BY LoadStoreQueueAssumption DEF QueueInv, NumbersOK
<1>2. InFlight = retired + 1 .. Fetched
  BY DEF QueueInv, NumbersOK
<1>3. InFlight \subseteq 1 .. LastSeq
  BY <1>1, <1>2
<1>4. \A i \in InFlight : i \in Nat /\ i # 0
  BY <1>1, <1>3
<1>5. \A i \in InFlight : Op(i) \in Ops /\ At(i) \in Stages
  BY DEF QueueInv, EntriesOK, EntryOK, Instruction, Op, At
<1> QED
  BY <1>1, <1>3, <1>4, <1>5

LEMMA Settling ==
  ASSUME QueueInv, NEW next, Prepared(next), Settle(next)
  PROVE  Settled(next)
<1> DEFINE done == Done(next)
           waiting == {i \in InFlight : At(i) = "lsqWait"}
           late == {i \in InFlight : At(i) = "lsqWait" /\ Op(i).kind \in LateData}
<1>0. PICK lacking \in SUBSET late :
          \E woken \in Woken(done, lacking) :
                /\ lacking \subseteq woken
                /\ inst' = [i \in DOMAIN next |->
                     IF i \notin woken THEN next[i]
                     ELSE [next[i] EXCEPT
                             !.stage = IF i \in lacking THEN "early" ELSE "complete",
                             !.wait = 0,
                             !.value = Bypassed(i, inst[i].wait, "complete")]]
  BY Zenon DEF Settle, Done
<1>1. PICK woken \in Woken(done, lacking) :
                /\ lacking \subseteq woken
                /\ inst' = [i \in DOMAIN next |->
                     IF i \notin woken THEN next[i]
                     ELSE [next[i] EXCEPT
                             !.stage = IF i \in lacking THEN "early" ELSE "complete",
                             !.wait = 0,
                             !.value = Bypassed(i, inst[i].wait, "complete")]]
  BY <1>0
<1>2. woken \subseteq waiting /\ woken = {i \in waiting : inst[i].wait \in done \cup (woken \ lacking)}
  BY <1>1 DEF Woken
<1>3. waiting \subseteq DOMAIN next
  BY DEF Prepared
<1>4. /\ DOMAIN inst' = DOMAIN next
      /\ \A i \in DOMAIN next : i \notin woken => inst'[i] = next[i]
  BY <1>1
<1>5. ASSUME NEW i \in woken
      PROVE  /\ i \in DOMAIN next /\ At(i) = "lsqWait" /\ next[i] = inst[i]
             /\ inst'[i] = Changed(next[i], IF i \in lacking THEN "early" ELSE "complete", 0,
                                   Bypassed(i, inst[i].wait, "complete"))
  <2>1. i \in DOMAIN next /\ At(i) = "lsqWait"
    BY <1>2, <1>3
  <2>2. next[i] = inst[i]
    BY <2>1 DEF Prepared
  <2>3. inst'[i] = [next[i] EXCEPT
                        !.stage = IF i \in lacking THEN "early" ELSE "complete",
                        !.wait = 0,
                        !.value = Bypassed(i, inst[i].wait, "complete")]
    BY <1>1, <2>1
  <2> QED
    BY <2>1, <2>2, <2>3 DEF Changed
<1>6. ASSUME NEW i \in woken
      PROVE  /\ EntryOK(inst'[i], Len(content))
             /\ inst'[i].op = Op(i) /\ inst'[i].object = inst[i].object /\ inst'[i].depend = next[i].depend
             /\ inst'[i].stage = IF i \in lacking THEN "early" ELSE "complete"
             /\ inst'[i].wait = 0
             /\ inst'[i].value = Bypassed(i, inst[i].wait, "complete")
  <2>1. /\ i \in InFlight /\ EntryOK(next[i], Len(content)) /\ next[i].op = Op(i) /\ next[i].object = inst[i].object
        /\ At(i) = "lsqWait"
    BY <1>5 DEF Prepared
  <2>2. inst[i].wait \in InFlight /\ Exact(i, inst[i].wait)
    BY <2>1 DEF QueueInv, WaitOK
  <2>3. inst[i].wait \in 0 .. LastSeq /\ Op(i) \in Ops /\ Op(inst[i].wait) \in Ops
    BY <2>1, <2>2, InRange
  <2>4. PICK v : v = Bypassed(i, inst[i].wait, "complete")
    OBVIOUS
  <2>5. ValueOK(next[i].op, v)
    BY <2>1, <2>2, <2>3, <2>4, BypassedType
  <2>6. PICK stage : stage = IF i \in lacking THEN "early" ELSE "complete"
    OBVIOUS
  <2>7. stage \in Stages /\ 0 \in Nat
    BY <2>6 DEF Stages
  <2>8. inst'[i] = Changed(next[i], stage, 0, v)
    BY <1>5, <2>4, <2>6
  <2> QED
    BY <2>1, <2>4, <2>5, <2>6, <2>7, <2>8, ChangedEntry
<1>7. ASSUME NEW j \in DOMAIN next, j \in done \cup (woken \ lacking)
      PROVE  inst'[j].stage = "complete"
  <2>1. CASE j \in woken /\ j \notin lacking
    BY <1>6, <2>1
  <2>2. CASE j \in done /\ j \notin woken
    BY <1>4, <2>2 DEF Done
  <2>3. CASE j \in done /\ j \in woken
    BY <1>5, <2>3 DEF Done, At
  <2> QED
    BY <1>7, <2>1, <2>2, <2>3
<1>8. ASSUME NEW i \in woken PROVE WokenUp(i)
  <2>1. inst[i].wait \in done \cup (woken \ lacking) /\ At(i) = "lsqWait"
    BY <1>2
  <2>2. i \in lacking => Op(i).kind \in LateData
    BY <1>0
  <2>3. inst[i].wait \in DOMAIN next => inst'[inst[i].wait].stage = "complete"
    BY <1>7, <2>1
  <2> QED
    BY <1>4, <1>6, <2>1, <2>2, <2>3 DEF WokenUp
<1>9. ASSUME NEW i \in DOMAIN next, i \notin woken, next[i].stage = "lsqWait"
      PROVE  inst'[next[i].wait].stage # "complete"
  <2>1. PICK j : j = next[i].wait
    OBVIOUS
  <2>2. j \in DOMAIN next /\ i \in InFlight
    BY <1>9, <2>1 DEF Prepared
  <2>3. CASE At(i) = "lsqWait"
    <3>1. next[i] = inst[i] /\ i \in waiting /\ At(j) # "complete"
      BY <2>1, <2>2, <2>3 DEF Prepared, QueueInv, WaitOK
    <3>2. j \notin done \cup (woken \ lacking)
      BY <1>2, <1>9, <2>1, <3>1
    <3>3. CASE j \in woken
      <4>1. j \in lacking
        BY <3>2, <3>3
      <4> QED
        BY <1>6, <2>1, <3>3, <4>1
    <3>4. CASE j \notin woken
      <4>1. inst'[j] = next[j] /\ next[j].stage # "complete"
        BY <1>4, <2>2, <3>1, <3>2, <3>4 DEF Done
      <4> QED
        BY <2>1, <4>1
    <3> QED
      BY <3>3, <3>4
  <2>4. CASE At(i) # "lsqWait"
    <3>1. next[j].stage # "complete" /\ done = {}
      BY <1>9, <2>1, <2>2, <2>4 DEF Prepared
    <3>2. woken = {}
      <4> SUFFICES ASSUME woken # {} PROVE FALSE
        OBVIOUS
      <4>1. woken \subseteq 1 .. LastSeq /\ LastSeq \in Nat
        BY <1>2, LoadStoreQueueAssumption DEF QueueInv, NumbersOK
      <4>2. PICK k \in woken : \A m \in woken : k <= m
        BY <4>1, LeastExists
      <4>3. inst[k].wait \in woken /\ k \in InFlight /\ At(k) = "lsqWait"
        BY <1>2, <3>1, <4>2
      <4>4. inst[k].wait < k
        BY <4>3 DEF QueueInv, WaitOK, MayWaitFor
      <4>5. k <= inst[k].wait
        BY <4>2, <4>3
      <4>6. k \in Nat /\ inst[k].wait \in Nat
        <5>1. \A m \in woken : m \in Nat
          BY <4>1
        <5> QED
          BY <4>2, <4>3, <5>1
      <4> QED
        BY <4>4, <4>5, <4>6
    <3>3. inst'[j] = next[j]
      BY <1>4, <2>2, <3>2
    <3> QED
      BY <2>1, <3>1, <3>3
  <2> QED
    BY <2>3, <2>4
<1>10. ASSUME NEW i \in DOMAIN next
       PROVE  /\ EntryOK(inst'[i], Len(content))
              /\ inst'[i].op = Op(i) /\ inst'[i].object = inst[i].object /\ inst'[i].depend = next[i].depend
              /\ \/ /\ inst'[i] = next[i]
                    /\ next[i].stage = "lsqWait" => inst'[next[i].wait].stage # "complete"
                 \/ WokenUp(i)
  <2>1. CASE i \in woken
    BY <1>6, <1>8, <2>1
  <2>2. CASE i \notin woken
    <3>1. EntryOK(next[i], Len(content)) /\ next[i].op = Op(i) /\ next[i].object = inst[i].object
      BY DEF Prepared
    <3> QED
      BY <1>4, <1>9, <2>2, <3>1
  <2> QED
    BY <2>1, <2>2
<1> QED
  BY <1>4, <1>10 DEF Settled

LEMMA SettledWaits ==
  ASSUME QueueInv, NEW next, Prepared(next), Settled(next)
  PROVE  WaitOK'
<1>1. DOMAIN inst' = DOMAIN next
  BY DEF Settled
<1>2. ASSUME NEW i \in DOMAIN next
      PROVE  /\ inst'[i].op = Op(i)
             /\ next[i].stage # "fetched" => inst'[i].stage # "fetched"
  BY DEF Settled, WokenUp
<1>3. ASSUME NEW i \in DOMAIN next
      PROVE  /\ inst'[i].stage \in {"lsqWait", "overlap"} =>
                    /\ inst'[i].wait \in DOMAIN next
                    /\ inst'[i].wait = next[i].wait
                    /\ MayWaitFor(i, inst'[i].wait)
                    /\ inst'[inst'[i].wait].stage # "fetched"
             /\ inst'[i].stage = "lsqWait" => Exact(i, inst'[i].wait) /\ inst'[inst'[i].wait].stage # "complete"
             /\ inst'[i].stage \notin {"lsqWait", "overlap"} => inst'[i].wait = 0
  <2>1. CASE WokenUp(i)
    BY <2>1 DEF WokenUp
  <2>2. CASE inst'[i] = next[i] /\ (next[i].stage = "lsqWait" => inst'[next[i].wait].stage # "complete")
    <3>1. next[i].stage \in {"lsqWait", "overlap"} =>
              next[i].wait \in DOMAIN next /\ MayWaitFor(i, next[i].wait) /\ next[next[i].wait].stage # "fetched"
      BY DEF Prepared
    <3>2. next[i].stage = "lsqWait" => Exact(i, next[i].wait)
      BY DEF Prepared
    <3>3. next[i].stage \notin {"lsqWait", "overlap"} => next[i].wait = 0
      BY DEF Prepared
    <3> QED
      BY <1>2, <2>2, <3>1, <3>2, <3>3
  <2> QED
    BY <2>1, <2>2 DEF Settled
<1>4. ASSUME NEW i \in DOMAIN next, NEW j \in DOMAIN next
      PROVE  /\ MayWaitFor(i, j) => MayWaitFor(i, j)'
             /\ Exact(i, j) => Exact(i, j)'
  BY <1>2 DEF MayWaitFor, Exact, Overlaps, SameLine, Op
<1> SUFFICES ASSUME NEW i \in DOMAIN next
             PROVE  /\ inst'[i].stage \in {"lsqWait", "overlap"} =>
                        /\ inst'[i].wait \in DOMAIN next
                        /\ MayWaitFor(i, inst[i].wait)'
                        /\ inst'[inst'[i].wait].stage # "fetched"
                    /\ inst'[i].stage = "lsqWait" =>
                         Exact(i, inst[i].wait)' /\ inst'[inst'[i].wait].stage # "complete"
                    /\ inst'[i].stage \notin {"lsqWait", "overlap"} => inst'[i].wait = 0
  BY <1>1 DEF WaitOK, At, InFlight
<1>5. PICK j : j = inst'[i].wait
  OBVIOUS
<1>6. inst'[i].stage \in {"lsqWait", "overlap"} => j \in DOMAIN next /\ MayWaitFor(i, j)
  BY <1>3, <1>5
<1>7. inst'[i].stage \in {"lsqWait", "overlap"} => MayWaitFor(i, inst[i].wait)'
  <2>1. j \in DOMAIN next /\ MayWaitFor(i, j) => MayWaitFor(i, j)'
    BY <1>4
  <2> QED
    BY <1>5, <1>6, <2>1 DEF MayWaitFor, Exact, Overlaps, SameLine, Op
<1>8. inst'[i].stage = "lsqWait" => Exact(i, inst[i].wait)'
  <2>1. inst'[i].stage = "lsqWait" => j \in DOMAIN next /\ Exact(i, j)
    BY <1>3, <1>5
  <2>2. j \in DOMAIN next /\ Exact(i, j) => Exact(i, j)'
    BY <1>4
  <2> QED
    BY <1>5, <2>1, <2>2 DEF Exact, SameLine, Op
<1> QED
  BY <1>3, <1>7, <1>8

\* The members of the queue stay, but the instructions that leave, when no other
\* becomes ready to enter it.
LEMMA SettledQueue ==
  ASSUME QueueInv, NEW next, Prepared(next), Settled(next),
         \A i \in DOMAIN next : At(i) = "fetched" => next[i].stage = "fetched"
  PROVE  \A b \in 0 .. Buckets - 1 :
             {i \in InFlight : At(i) # "fetched" /\ BucketOf(Op(i)) = b}' =
             {i \in InFlight : At(i) # "fetched" /\ BucketOf(Op(i)) = b} \cap DOMAIN next
<1>1. DOMAIN inst' = DOMAIN next /\ DOMAIN next \subseteq InFlight
  BY DEF Settled, Prepared
<1>2. ASSUME NEW i \in DOMAIN next
      PROVE  inst'[i].op = Op(i) /\ (inst'[i].stage = "fetched" <=> At(i) = "fetched")
  BY DEF Settled, Prepared, WokenUp
<1> SUFFICES ASSUME NEW b \in 0 .. Buckets - 1
             PROVE  {i \in DOMAIN next : inst'[i].stage # "fetched" /\ BucketOf(inst'[i].op) = b} =
                    {i \in InFlight : At(i) # "fetched" /\ BucketOf(Op(i)) = b} \cap DOMAIN next
  BY <1>1 DEF BucketOf, At, Op, InFlight
<1> QED
  BY <1>1, <1>2

\* One instruction changes.
LEMMA PreparedOne ==
  ASSUME QueueInv, NEW i \in InFlight, NEW r, At(i) # "lsqWait",
         EntryOK(r, Len(content)), r.op = Op(i), r.object = inst[i].object,
         r.stage # "fetched",
         r.stage \in {"lsqWait", "overlap"} =>
             r.wait \in InFlight /\ MayWaitFor(i, r.wait) /\ At(r.wait) # "fetched",
         r.stage = "lsqWait" => Exact(i, r.wait) /\ At(r.wait) # "complete",
         r.stage \notin {"lsqWait", "overlap"} => r.wait = 0
  PROVE  Prepared([inst EXCEPT ![i] = r])
<1> DEFINE next == [inst EXCEPT ![i] = r]
<1>1. DOMAIN next = InFlight /\ next[i] = r /\ \A k \in InFlight : k # i => next[k] = inst[k]
  BY DEF InFlight
<1> HIDE DEF next
<1>2. ASSUME NEW k \in InFlight PROVE At(k) # "fetched" => next[k].stage # "fetched"
  BY <1>1 DEF At
<1>3. r.stage = "lsqWait" => Done(next) = {} /\ next[r.wait].stage # "complete"
  <2> SUFFICES ASSUME r.stage = "lsqWait" PROVE Done(next) = {} /\ next[r.wait].stage # "complete"
    OBVIOUS
  <2>1. ASSUME NEW k \in Done(next) PROVE FALSE
    <3>1. k \in InFlight /\ next[k].stage = "complete" /\ At(k) # "complete"
      BY <1>1 DEF Done
    <3> QED
      BY <1>1, <3>1 DEF At
  <2>2. next[r.wait].stage # "complete"
    BY <1>1 DEF At
  <2> QED
    BY <2>1, <2>2
<1>4. ASSUME NEW k \in InFlight
      PROVE  /\ EntryOK(next[k], Len(content))
             /\ next[k].op = Op(k) /\ next[k].object = inst[k].object
             /\ At(k) # "fetched" => next[k].stage # "fetched"
             /\ At(k) = "lsqWait" => next[k] = inst[k]
             /\ next[k].stage \in {"lsqWait", "overlap"} =>
                    /\ next[k].wait \in InFlight /\ MayWaitFor(k, next[k].wait)
                    /\ next[next[k].wait].stage # "fetched"
             /\ next[k].stage = "lsqWait" =>
                    /\ Exact(k, next[k].wait)
                    /\ At(k) # "lsqWait" => next[next[k].wait].stage # "complete" /\ Done(next) = {}
             /\ next[k].stage \notin {"lsqWait", "overlap"} => next[k].wait = 0
  <2>1. CASE k = i
    BY <1>1, <1>2, <1>3, <2>1
  <2>2. CASE k # i
    <3>1. next[k] = inst[k]
      BY <1>1, <2>2
    <3>2. EntryOK(inst[k], Len(content))
      BY DEF QueueInv, EntriesOK
    <3>3. /\ At(k) \in {"lsqWait", "overlap"} =>
               /\ inst[k].wait \in InFlight /\ MayWaitFor(k, inst[k].wait)
               /\ At(inst[k].wait) # "fetched"
          /\ At(k) = "lsqWait" => Exact(k, inst[k].wait)
          /\ At(k) \notin {"lsqWait", "overlap"} => inst[k].wait = 0
      BY DEF QueueInv, WaitOK
    <3> QED
      BY <1>2, <3>1, <3>2, <3>3 DEF At, Op
  <2> QED
    BY <2>1, <2>2
<1>5. Prepared(next)
  BY <1>1, <1>4 DEF Prepared
<1> QED
  BY <1>5 DEF next

-----------------------------------------------------------------------------
(***************************************************************************)
(* The heap and the numbers.                                               *)
(***************************************************************************)
LEMMA IntervalCount ==
  ASSUME NEW a \in Nat, NEW b \in Nat, a <= b
  PROVE  a + Cardinality(a + 1 .. b) = b
<1>1. Cardinality(a + 1 .. b) = IF a + 1 > b THEN 0 ELSE b - (a + 1) + 1
  BY FS_Interval
<1> QED
  BY <1>1

\* The sequence numbers of some stores, in a pool.
SeqsIn(stores, p) == {d.seq : d \in {e \in stores : e.pool = p}}

\* The objects that a deletion puts before the free ones.
FreedFirst(deleted, p) ==
    [m \in 1 .. Cardinality(SeqsIn(deleted, p)) |->
        (CHOOSE d \in {e \in deleted : e.pool = p} : d.seq = Nth(SeqsIn(deleted, p), m)).object]

\* objects are those of the deleted stores of a pool.
ObjectsOf(objects, deleted, p) ==
    \A m \in 1 .. Cardinality(SeqsIn(deleted, p)) :
        \E d \in deleted : d.pool = p /\ d.seq = Nth(SeqsIn(deleted, p), m) /\ objects[m] = d.object

LEMMA FreedFirstType ==
  ASSUME NEW n \in Nat, NEW S, NEW deleted \in SUBSET [seq : 1 .. n, pool : Pools, object : S], NEW p
  PROVE  /\ SeqsIn(deleted, p) \subseteq 1 .. n
         /\ Cardinality(SeqsIn(deleted, p)) \in Nat
         /\ ObjectsOf(FreedFirst(deleted, p), deleted, p)
         /\ FreedFirst(deleted, p) \in Seq(S)
<1> DEFINE mine == {e \in deleted : e.pool = p}
           seqs == SeqsIn(deleted, p)
           c == Cardinality(seqs)
<1>1. seqs \subseteq 1 .. n
  BY DEF SeqsIn
<1>2. c \in Nat
  <2>1. IsFiniteSet(1 .. n)
    BY FS_Interval
  <2>2. IsFiniteSet(seqs)
    BY <1>1, <2>1, FS_Subset
  <2> QED
    BY <2>2, FS_CardinalityType
<1>3. ASSUME NEW m \in 1 .. c
      PROVE  \E d \in mine : d.seq = Nth(seqs, m) /\ FreedFirst(deleted, p)[m] = d.object
  <2>1. Nth(seqs, m) \in seqs
    BY <1>1, NthOf
  <2>2. \E d \in mine : d.seq = Nth(seqs, m)
    BY <2>1 DEF SeqsIn
  <2>3. FreedFirst(deleted, p)[m] = (CHOOSE d \in mine : d.seq = Nth(seqs, m)).object
    BY DEF FreedFirst
  <2> HIDE DEF mine, seqs
  <2>4. PICK d : d = CHOOSE e \in mine : e.seq = Nth(seqs, m)
    OBVIOUS
  <2>5. d \in mine /\ d.seq = Nth(seqs, m)
    BY <2>2, <2>4
  <2> QED
    BY <2>3, <2>4, <2>5
<1>4. \A m \in 1 .. c : FreedFirst(deleted, p)[m] \in S
  BY <1>3
<1>5. FreedFirst(deleted, p) \in Seq(S)
  <2>1. DOMAIN FreedFirst(deleted, p) = 1 .. c
    BY DEF FreedFirst
  <2>2. FreedFirst(deleted, p) = [m \in 1 .. c |-> FreedFirst(deleted, p)[m]]
    BY DEF FreedFirst
  <2>3. PICK f : f = FreedFirst(deleted, p)
    OBVIOUS
  <2> HIDE DEF c
  <2>4. [m \in 1 .. c |-> f[m]] \in Seq(S)
    BY <1>2, <1>4, <2>3, IsASeq
  <2> QED
    BY <2>2, <2>3, <2>4
<1>6. ObjectsOf(FreedFirst(deleted, p), deleted, p)
  BY <1>3 DEF ObjectsOf
<1> QED
  BY <1>1, <1>2, <1>5, <1>6

LEMMA FreedIs ==
  ASSUME NEW n \in Nat, NEW S, NEW deleted \in SUBSET [seq : 1 .. n, pool : Pools, object : S],
         freeList \in [Pools -> Seq(S)]
  PROVE  /\ Freed(deleted) = [p \in Pools |-> FreedFirst(deleted, p) \o freeList[p]]
         /\ Freed(deleted) \in [Pools -> Seq(S)]
<1>1. Freed(deleted) = [p \in Pools |-> FreedFirst(deleted, p) \o freeList[p]]
  BY DEF Freed, FreedFirst, SeqsIn
<1>2. ASSUME NEW p \in Pools PROVE FreedFirst(deleted, p) \o freeList[p] \in Seq(S)
  <2>1. FreedFirst(deleted, p) \in Seq(S) /\ freeList[p] \in Seq(S)
    BY FreedFirstType
  <2> QED
    BY ONLY <2>1, ConcatProperties
<1> QED
  BY <1>1, <1>2

LEMMA ObjectsType ==
  ASSUME QueueInv, NEW s \in SUBSET InFlight
  PROVE  Objects(s) \subseteq [seq : s, pool : Pools, object : 1 .. Len(content)]
<1> SUFFICES ASSUME NEW i \in s, Writes(Op(i))
             PROVE  inst[i].object \in 1 .. Len(content) /\ Pool(Op(i)) \in Pools
  BY DEF Objects
<1>1. EntryOK(inst[i], Len(content))
  BY DEF QueueInv, EntriesOK
<1> QED
  BY <1>1 DEF EntryOK, Op, Pool, Pools

-----------------------------------------------------------------------------
(***************************************************************************)
(* Each step keeps the invariant.                                          *)
(***************************************************************************)
LEMMA EntryGrows ==
  ASSUME NEW n \in Nat, NEW m \in Nat, n <= m, NEW r, EntryOK(r, n)
  PROVE  EntryOK(r, m)
BY DEF EntryOK

\* The lists of the queue without some instructions.
LEMMA RemovedIs ==
  ASSUME QueueInv, NEW gone
  PROVE  /\ Removed(lsq, gone) \in [0 .. Buckets - 1 -> Seq(Nat)]
         /\ \A b \in 0 .. Buckets - 1 :
                /\ ToSet(Removed(lsq, gone)[b]) =
                       {i \in InFlight : At(i) # "fetched" /\ BucketOf(Op(i)) = b} \ gone
                /\ Decreasing(Removed(lsq, gone)[b])
<1>1. ASSUME NEW b \in 0 .. Buckets - 1
      PROVE  /\ Without(lsq[b], gone) \in Seq(Nat)
             /\ ToSet(Without(lsq[b], gone)) =
                    {i \in InFlight : At(i) # "fetched" /\ BucketOf(Op(i)) = b} \ gone
             /\ Decreasing(Without(lsq[b], gone))
  <2>1. /\ lsq[b] \in Seq(Nat) /\ Decreasing(lsq[b])
        /\ ToSet(lsq[b]) = {i \in InFlight : At(i) # "fetched" /\ BucketOf(Op(i)) = b}
    BY DEF QueueInv, QueueOK, QueueInProgramOrder, Decreasing
  <2>2. PICK list, w : list = lsq[b] /\ w = Without(list, gone)
    OBVIOUS
  <2>3. w \in Seq(Nat) /\ ToSet(w) = ToSet(list) \ gone /\ Within(w, list)
    BY <2>1, <2>2, WithoutKeeps
  <2>4. Decreasing(w)
    BY <2>1, <2>2, <2>3, WithinDecreasing
  <2> QED
    BY <2>1, <2>2, <2>3, <2>4
<1> QED
  BY <1>1 DEF Removed

LEMMA QueueStays ==
  ASSUME QueueInv, UNCHANGED lsq,
         \A b \in 0 .. Buckets - 1 :
             {i \in InFlight : At(i) # "fetched" /\ BucketOf(Op(i)) = b}' =
             {i \in InFlight : At(i) # "fetched" /\ BucketOf(Op(i)) = b}
  PROVE  QueueOK'
BY DEF QueueInv, QueueOK, QueueInProgramOrder

LEMMA QueueShrinks ==
  ASSUME QueueInv, NEW gone, lsq' = Removed(lsq, gone),
         \A b \in 0 .. Buckets - 1 :
             {i \in InFlight : At(i) # "fetched" /\ BucketOf(Op(i)) = b}' =
             {i \in InFlight : At(i) # "fetched" /\ BucketOf(Op(i)) = b} \ gone
  PROVE  QueueOK'
<1>1. lsq' \in [0 .. Buckets - 1 -> Seq(Nat)]
  BY RemovedIs
<1>2. ASSUME NEW b \in 0 .. Buckets - 1
      PROVE  /\ ToSet(lsq'[b]) = {i \in InFlight : At(i) # "fetched" /\ BucketOf(Op(i)) = b}'
             /\ Decreasing(lsq'[b])
  BY RemovedIs
<1>3. QueueInProgramOrder'
  BY <1>2 DEF QueueInProgramOrder, Decreasing
<1> QED
  BY <1>1, <1>3 DEF QueueOK

\* A step of the instructions in flight that none enters or leaves.
LEMMA StepInFlight ==
  ASSUME QueueInv, NEW next, Prepared(next), Settled(next), DOMAIN next = InFlight,
         exception' \in InFlight \cup {0},
         UNCHANGED <<memory, retired, result, heap, squashes>>
  PROVE  NumbersOK' /\ MemoryOK' /\ EntriesOK' /\ HeapOK' /\ WaitOK'
<1>1. InFlight' = InFlight
  BY DEF Settled, InFlight
<1>2. NumbersOK'
  BY <1>1 DEF QueueInv, NumbersOK, Fetched
<1>3. MemoryOK' /\ HeapOK'
  BY DEF QueueInv, MemoryOK, HeapOK, heap
<1>4. EntriesOK'
  <2> SUFFICES ASSUME NEW i \in DOMAIN next PROVE EntryOK(inst'[i], Len(content))
    BY <1>1 DEF EntriesOK, heap
  <2> QED
    BY DEF Settled
<1> QED
  BY <1>2, <1>3, <1>4, SettledWaits

LEMMA CacheAnswersKeeps ==
  ASSUME QueueInv, NEW i \in InFlight, CacheAnswers(i)
  PROVE  QueueInv'
<1>1. PICK r : r = Completed(inst[i], memory)
  OBVIOUS
<1>2. EntryOK(inst[i], Len(content)) /\ memory \in [0 .. NumLines - 1 -> [0 .. LineUnits - 1 -> 0 .. LastSeq]]
  BY InRange DEF QueueInv, EntriesOK, MemoryOK, NumbersOK
<1>3. /\ EntryOK(r, Len(content)) /\ r.op = Op(i) /\ r.object = inst[i].object
      /\ r.stage = "complete" /\ r.wait = 0
  BY <1>1, <1>2, CompletedIs DEF Op
<1>4. PICK next : next = [inst EXCEPT ![i] = r]
  OBVIOUS
<1>5. Prepared(next)
  BY <1>3, <1>4, PreparedOne DEF CacheAnswers
<1>6. Settled(next)
  BY <1>1, <1>4, <1>5, Settling DEF CacheAnswers
<1>7. DOMAIN next = InFlight /\ \A k \in DOMAIN next : At(k) = "fetched" => next[k].stage = "fetched"
  BY <1>4 DEF InFlight, At, CacheAnswers
<1>8. NumbersOK' /\ MemoryOK' /\ EntriesOK' /\ HeapOK' /\ WaitOK'
  <2>1. exception' \in InFlight \cup {0} /\ UNCHANGED <<memory, retired, result, heap, squashes>>
    BY DEF CacheAnswers, QueueInv, NumbersOK
  <2> QED
    BY <1>5, <1>6, <1>7, <2>1, StepInFlight
<1>9. QueueOK'
  <2>1. \A b \in 0 .. Buckets - 1 :
             {k \in InFlight : At(k) # "fetched" /\ BucketOf(Op(k)) = b}' =
             {k \in InFlight : At(k) # "fetched" /\ BucketOf(Op(k)) = b} \cap DOMAIN next
    BY <1>5, <1>6, <1>7, SettledQueue
  <2>2. \A b \in 0 .. Buckets - 1 :
             {k \in InFlight : At(k) # "fetched" /\ BucketOf(Op(k)) = b}' =
             {k \in InFlight : At(k) # "fetched" /\ BucketOf(Op(k)) = b}
    BY <1>7, <2>1
  <2> QED
    BY <2>2, QueueStays DEF CacheAnswers
<1> QED
  BY <1>8, <1>9 DEF QueueInv

\* The data of i have been written into its entry s.
DataWritten(i, s) ==
    /\ EntryOK(s, Len(content)) /\ s.op = Op(i) /\ s.object = inst[i].object
    /\ s.depend = inst[i].depend
    /\ s.stage \in {"complete", "cache"} /\ s.wait = 0
    /\ inst[i].value = Nothing =>
           s.value = IF s.stage = "complete" /\ Reads(Op(i)) THEN ReadMemory(memory, Op(i)) ELSE Nothing
    /\ inst[i].value # Nothing => s.value # Nothing
    /\ Settle([inst EXCEPT ![i] = s])

LEMMA DataArrivesIs ==
  ASSUME QueueInv, NEW i \in InFlight, DataArrives(i)
  PROVE  At(i) = "early" /\ \E s : DataWritten(i, s)
<1> DEFINE v == IF inst[i].value = Nothing THEN Nothing ELSE OwnData(i)
<1>1. PICK r : r = [inst[i] EXCEPT !.value = IF @ = Nothing THEN Nothing ELSE OwnData(i)]
  OBVIOUS
<1>2. PICK s \in {Completed(r, memory), [r EXCEPT !.stage = "cache"]} : Settle([inst EXCEPT ![i] = s])
  BY <1>1 DEF DataArrives
<1>3. /\ EntryOK(inst[i], Len(content)) /\ memory \in [0 .. NumLines - 1 -> [0 .. LineUnits - 1 -> 0 .. LastSeq]]
      /\ At(i) = "early" /\ inst[i].wait = 0
  BY InRange DEF QueueInv, EntriesOK, MemoryOK, NumbersOK, WaitOK, DataArrives
<1>4. ValueOK(inst[i].op, v)
  <2>1. i \in 0 .. LastSeq /\ Op(i) \in Ops
    BY InRange
  <2> QED
    BY <2>1, OwnDataType DEF Op, ValueOK
<1>5. r = Changed(inst[i], "early", 0, v)
  BY <1>1, <1>3 DEF Changed, EntryOK, Instruction, At
<1>6. /\ EntryOK(r, Len(content)) /\ r.op = Op(i) /\ r.object = inst[i].object
      /\ r.depend = inst[i].depend /\ r.stage = "early" /\ r.wait = 0 /\ r.value = v
  <2>1. "early" \in Stages /\ 0 \in Nat
    BY DEF Stages
  <2> HIDE DEF v
  <2> QED
    <3>1. PICK e, stage, n, w : e = inst[i] /\ stage = "early" /\ n = Len(content) /\ w = v
      OBVIOUS
    <3>2. EntryOK(e, n) /\ stage \in Stages /\ ValueOK(e.op, w)
      BY <1>3, <1>4, <2>1, <3>1
    <3>3. r = Changed(e, stage, 0, w)
      BY <1>5, <3>1
    <3>4. /\ EntryOK(r, n) /\ r.op = e.op /\ r.object = e.object
          /\ r.depend = e.depend /\ r.stage = stage /\ r.wait = 0 /\ r.value = w
      BY ONLY <2>1, <3>2, <3>3, ChangedEntry
    <3> QED
      BY <3>1, <3>4 DEF Op
<1>7. /\ EntryOK(s, Len(content)) /\ s.op = Op(i) /\ s.object = inst[i].object
      /\ s.depend = inst[i].depend
      /\ s.stage \in {"complete", "cache"} /\ s.wait = 0
      /\ s.value = IF s.stage = "complete" /\ Reads(Op(i)) /\ v = Nothing THEN ReadMemory(memory, Op(i)) ELSE v
  <2> HIDE DEF v
  <2>1. CASE s = Completed(r, memory)
    <3>1. PICK n : n = Len(content)
      OBVIOUS
    <3>2. EntryOK(r, n)
      BY <1>6, <3>1
    <3>3. /\ EntryOK(s, n)
          /\ s.op = r.op /\ s.depend = r.depend /\ s.object = r.object
          /\ s.stage = "complete" /\ s.wait = 0
          /\ s.value = IF Reads(r.op) /\ r.value = Nothing THEN ReadMemory(memory, r.op) ELSE r.value
      BY <1>3, <2>1, <3>2, CompletedIs
    <3> QED
      BY <1>6, <3>1, <3>3
  <2>2. CASE s = [r EXCEPT !.stage = "cache"]
    <3>1. s = Changed(r, "cache", 0, r.value)
      BY <1>6, <2>2 DEF Changed, EntryOK, Instruction
    <3>2. "cache" \in Stages /\ 0 \in Nat /\ ValueOK(r.op, r.value)
      BY <1>6 DEF Stages, EntryOK
    <3> QED
      <4>1. PICK stage, w, n : stage = "cache" /\ w = r.value /\ n = Len(content)
        OBVIOUS
      <4>2. s = Changed(r, stage, 0, w) /\ stage \in Stages /\ ValueOK(r.op, w) /\ EntryOK(r, n)
        BY <1>6, <3>1, <3>2, <4>1
      <4>3. /\ EntryOK(s, n) /\ s.op = r.op /\ s.object = r.object /\ s.stage = stage /\ s.wait = 0
            /\ s.depend = r.depend /\ s.value = w
        BY ONLY <3>2, <4>2, ChangedEntry
      <4> QED
        BY <1>6, <4>1, <4>3
  <2> QED
    BY <1>2, <2>1, <2>2
<1>8. v = Nothing <=> inst[i].value = Nothing
  <2>1. Nothing \notin [Units(Op(i)) -> Data] /\ OwnData(i) \in [Units(Op(i)) -> Data]
    <3>1. i \in 0 .. LastSeq /\ Op(i) \in Ops
      BY InRange
    <3> QED
      BY <3>1, OwnDataType, OpFacts
  <2> QED
    BY <2>1
<1> HIDE DEF v
<1>9. DataWritten(i, s)
  BY <1>2, <1>7, <1>8 DEF DataWritten
<1> QED
  BY <1>3, <1>9

LEMMA DataArrivesKeeps ==
  ASSUME QueueInv, NEW i \in InFlight, DataArrives(i)
  PROVE  QueueInv'
<1>1. PICK s : /\ EntryOK(s, Len(content)) /\ s.op = Op(i) /\ s.object = inst[i].object
               /\ s.stage \in {"complete", "cache"} /\ s.wait = 0
               /\ Settle([inst EXCEPT ![i] = s])
  BY DataArrivesIs DEF DataWritten
<1>2. At(i) = "early"
  BY DataArrivesIs
<1>3. PICK next : next = [inst EXCEPT ![i] = s]
  OBVIOUS
<1>4. Prepared(next)
  BY <1>1, <1>2, <1>3, PreparedOne
<1>5. Settled(next)
  BY <1>1, <1>3, <1>4, Settling
<1>6. DOMAIN next = InFlight /\ \A k \in DOMAIN next : At(k) = "fetched" => next[k].stage = "fetched"
  BY <1>1, <1>2, <1>3 DEF InFlight, At
<1>7. NumbersOK' /\ MemoryOK' /\ EntriesOK' /\ HeapOK' /\ WaitOK'
  <2>1. exception' \in InFlight \cup {0} /\ UNCHANGED <<memory, retired, result, heap, squashes>>
    BY DEF DataArrives, QueueInv, NumbersOK
  <2> QED
    BY <1>4, <1>5, <1>6, <2>1, StepInFlight
<1>8. QueueOK'
  <2>1. \A b \in 0 .. Buckets - 1 :
             {k \in InFlight : At(k) # "fetched" /\ BucketOf(Op(k)) = b}' =
             {k \in InFlight : At(k) # "fetched" /\ BucketOf(Op(k)) = b} \cap DOMAIN next
    BY <1>4, <1>5, <1>6, SettledQueue
  <2>2. \A b \in 0 .. Buckets - 1 :
             {k \in InFlight : At(k) # "fetched" /\ BucketOf(Op(k)) = b}' =
             {k \in InFlight : At(k) # "fetched" /\ BucketOf(Op(k)) = b}
    BY <1>6, <2>1
  <2> QED
    BY <2>2, QueueStays DEF DataArrives
<1> QED
  BY <1>7, <1>8 DEF QueueInv

\* What a reader becomes that finds store j.
LEMMA DependingIs ==
  ASSUME QueueInv, NEW i \in InFlight, NEW j \in InFlight, MayWaitFor(i, j), At(j) # "fetched",
         At(i) = "fetched", NEW r \in Depending(i, j)
  PROVE  /\ EntryOK(r, Len(content)) /\ r.op = Op(i) /\ r.object = inst[i].object
         /\ \/ /\ ~ Exact(i, j)
               /\ r.stage = "overlap" /\ r.wait = j /\ r.depend = inst[i].depend /\ r.value = inst[i].value
            \/ /\ Exact(i, j) /\ ~ DataValid(j)
               /\ r.stage = "lsqWait" /\ r.wait = j /\ r.depend = inst[j].object /\ r.value = inst[i].value
            \/ /\ Exact(i, j) /\ DataValid(j)
               /\ r.stage = "complete" \/ (r.stage = "early" /\ Op(i).kind \in LateData)
               /\ r.wait = 0 /\ r.depend = inst[j].object /\ r.value = Bypassed(i, j, At(j))
<1> DEFINE e == [inst[i] EXCEPT !.depend = inst[j].object]
           s == [e EXCEPT !.value = Bypassed(i, j, At(j))]
<1>1. PICK n, obj : n = Len(content) /\ obj = inst[j].object
  OBVIOUS
<1>2. EntryOK(inst[i], n) /\ inst[i].wait = 0 /\ obj \in 1 .. n /\ inst[i].stage = "fetched"
  BY <1>1 DEF QueueInv, EntriesOK, WaitOK, EntryOK, MayWaitFor, Op, At
<1>3. i \in 0 .. LastSeq /\ j \in 0 .. LastSeq /\ j \in Nat /\ Op(i) \in Ops /\ Op(j) \in Ops
  BY InRange
<1>4. inst[i] \in Instruction
  BY <1>2 DEF EntryOK
<1>5. /\ EntryOK(e, n) /\ e.op = Op(i) /\ e.object = inst[i].object /\ e.depend = obj
      /\ e.wait = 0 /\ e.value = inst[i].value
  <2>1. e = [op |-> inst[i].op, stage |-> inst[i].stage, wait |-> inst[i].wait, depend |-> obj,
             object |-> inst[i].object, value |-> inst[i].value]
    BY <1>1, <1>4 DEF Instruction
  <2>2. obj \in Nat /\ obj \in 0 .. n
    BY <1>2
  <2> HIDE DEF e
  <2>3. e \in Instruction
    BY <1>4, <2>1, <2>2 DEF Instruction
  <2> QED
    BY <1>2, <2>1, <2>2, <2>3 DEF EntryOK, Op
<1>6. CASE ~ Exact(i, j)
  <2>1. r = [inst[i] EXCEPT !.stage = "overlap", !.wait = j]
    BY <1>6 DEF Depending
  <2>2. PICK stage, value : stage = "overlap" /\ value = inst[i].value
    OBVIOUS
  <2>3. r = Changed(inst[i], stage, j, value)
    BY <1>4, <2>1, <2>2 DEF Changed, Instruction
  <2>4. ValueOK(inst[i].op, value) /\ stage \in Stages
    BY <1>2, <2>2 DEF EntryOK, Stages
  <2>5. PICK x : x = inst[i]
    OBVIOUS
  <2>6. /\ EntryOK(r, n) /\ r.op = x.op /\ r.depend = x.depend /\ r.object = x.object
        /\ r.stage = stage /\ r.wait = j /\ r.value = value
    BY <1>2, <1>3, <2>3, <2>4, <2>5, ChangedEntry
  <2> QED
    BY <1>1, <1>6, <2>2, <2>5, <2>6 DEF Op
<1>7. CASE Exact(i, j) /\ ~ DataValid(j)
  <2>1. r = [e EXCEPT !.stage = "lsqWait", !.wait = j]
    BY <1>7 DEF Depending
  <2>2. PICK stage, value : stage = "lsqWait" /\ value = inst[i].value
    OBVIOUS
  <2>3. r = Changed(e, stage, j, value)
    <3>1. e \in Instruction
      BY <1>5 DEF EntryOK
    <3> HIDE DEF e
    <3> QED
      BY <1>5, <2>1, <2>2, <3>1 DEF Changed, Instruction
  <2>4. ValueOK(e.op, value) /\ stage \in Stages
    <3> HIDE DEF e
    <3> QED
      BY <1>5, <2>2 DEF EntryOK, Stages
  <2>5. /\ EntryOK(r, n) /\ r.op = e.op /\ r.depend = e.depend /\ r.object = e.object
        /\ r.stage = stage /\ r.wait = j /\ r.value = value
    <3> HIDE DEF e
    <3> QED
      BY <1>3, <1>5, <2>3, <2>4, ChangedEntry
  <2> HIDE DEF e
  <2> QED
    BY <1>1, <1>5, <1>7, <2>2, <2>5
<1>8. CASE Exact(i, j) /\ DataValid(j)
  <2>1. \/ r = Completed(s, memory)
        \/ r = [s EXCEPT !.stage = "early"] /\ Op(i).kind \in LateData
    BY <1>8 DEF Depending
  <2>2. PICK v : v = Bypassed(i, j, At(j))
    OBVIOUS
  <2>3. ValueOK(Op(i), v) /\ v # Nothing
    BY <1>3, <1>8, <2>2, BypassedType, OpFacts
  <2>4. s = Changed(e, "fetched", 0, v)
    <3>1. e \in Instruction /\ e.stage = "fetched"
      BY <1>2, <1>4, <1>5 DEF EntryOK, Instruction
    <3> HIDE DEF e
    <3> QED
      BY <1>5, <2>2, <3>1 DEF Changed, Instruction
  <2> HIDE DEF e, s
  <2>5. /\ EntryOK(s, n) /\ s.op = Op(i) /\ s.object = inst[i].object /\ s.depend = obj
        /\ s.wait = 0 /\ s.value = v
    <3>1. PICK stage : stage = "fetched"
      OBVIOUS
    <3>2. stage \in Stages /\ 0 \in Nat /\ s = Changed(e, stage, 0, v) /\ ValueOK(e.op, v)
      BY <1>5, <2>3, <2>4, <3>1 DEF Stages
    <3>3. /\ EntryOK(s, n) /\ s.op = e.op /\ s.object = e.object /\ s.depend = e.depend
          /\ s.wait = 0 /\ s.value = v
      BY <1>5, <3>2, ChangedEntry
    <3> QED
      BY <1>5, <3>3
  <2>6. CASE r = Completed(s, memory)
    <3>1. memory \in [0 .. NumLines - 1 -> [0 .. LineUnits - 1 -> 0 .. LastSeq]]
      BY InRange DEF QueueInv, MemoryOK, NumbersOK
    <3>2. /\ EntryOK(r, n) /\ r.op = s.op /\ r.object = s.object /\ r.depend = s.depend
          /\ r.stage = "complete" /\ r.wait = 0
          /\ r.value = IF Reads(s.op) /\ s.value = Nothing THEN ReadMemory(memory, s.op) ELSE s.value
      BY <2>5, <2>6, <3>1, CompletedIs
    <3> QED
      <4>1. r.value = v
        BY <2>3, <2>5, <3>2
      <4> QED
        BY <1>1, <1>8, <2>2, <2>5, <3>2, <4>1
  <2>7. CASE r = [s EXCEPT !.stage = "early"] /\ Op(i).kind \in LateData
    <3>1. PICK stage : stage = "early"
      OBVIOUS
    <3>2. r = Changed(s, stage, 0, v)
      BY <2>5, <2>7, <3>1 DEF EntryOK, Instruction, Changed
    <3>3. stage \in Stages /\ 0 \in Nat /\ ValueOK(s.op, v)
      BY <2>3, <2>5, <3>1 DEF Stages
    <3>4. /\ EntryOK(r, n) /\ r.op = s.op /\ r.object = s.object /\ r.depend = s.depend
          /\ r.stage = stage /\ r.wait = 0 /\ r.value = v
      BY <2>5, <3>2, <3>3, ChangedEntry
    <3> QED
      BY <1>1, <1>8, <2>2, <2>5, <2>7, <3>1, <3>4
  <2> QED
    BY <2>1, <2>6, <2>7
<1> QED
  BY <1>6, <1>7, <1>8

\* What an instruction becomes that executes: it reads what the search of the queue
\* finds.
Issued(i, j) == IF j = 0 THEN Continued(inst[i], memory) ELSE Depending(i, j)
Found(i) == IF Reads(Op(i)) THEN LoadSearch(i) ELSE 0

LEMMA FoundIs ==
  ASSUME QueueInv, NEW i \in InFlight
  PROVE  /\ Found(i) # 0 => Found(i) \in InFlight /\ MayWaitFor(i, Found(i)) /\ At(Found(i)) # "fetched"
         /\ \A k \in InFlight :
               At(k) # "fetched" /\ MayWaitFor(i, k) => Found(i) # 0 /\ k <= Found(i)
<1>1. PICK b : b = BucketOf(Op(i))
  OBVIOUS
<1>2. b \in 0 .. Buckets - 1
  BY <1>1, InRange, BucketFacts
<1>3. PICK list : list = lsq[b]
  OBVIOUS
<1>4. list \in Seq(Nat) /\ Decreasing(list) /\ ToSet(list) = {k \in InFlight : At(k) # "fetched" /\ BucketOf(Op(k)) = b}
  BY <1>2, <1>3 DEF QueueInv, QueueOK, QueueInProgramOrder, Decreasing
<1>5. PICK j : j = LoadSearch(i)
  OBVIOUS
<1>6. /\ j # 0 => j \in ToSet(list) /\ j < i /\ Writes(Op(j)) /\ Overlaps(i, j)
      /\ \A k \in ToSet(list) : k < i /\ Writes(Op(k)) /\ Overlaps(i, k) /\ k # 0 => j # 0 /\ k <= j
  BY <1>1, <1>3, <1>4, <1>5, SearchFinds
<1>7. Found(i) # 0 => Found(i) \in InFlight /\ MayWaitFor(i, Found(i)) /\ At(Found(i)) # "fetched"
  BY <1>4, <1>5, <1>6 DEF Found, MayWaitFor
<1>8. ASSUME NEW k \in InFlight, At(k) # "fetched", MayWaitFor(i, k)
      PROVE  Found(i) # 0 /\ k <= Found(i)
  <2>1. BucketOf(Op(k)) = b /\ k # 0
    BY <1>1, <1>8, InRange DEF MayWaitFor, Overlaps, SameLine, BucketOf
  <2> QED
    BY <1>4, <1>5, <1>6, <1>8, <2>1 DEF Found, MayWaitFor
<1> QED
  BY <1>7, <1>8

LEMMA IssuedIs ==
  ASSUME QueueInv, NEW i \in InFlight, At(i) = "fetched", NEW r \in Issued(i, Found(i))
  PROVE  /\ EntryOK(r, Len(content)) /\ r.op = Op(i) /\ r.object = inst[i].object
         /\ r.stage # "fetched"
         /\ r.stage \in {"lsqWait", "overlap"} =>
               r.wait \in InFlight /\ MayWaitFor(i, r.wait) /\ At(r.wait) # "fetched"
         /\ r.stage = "lsqWait" => Exact(i, r.wait) /\ At(r.wait) # "complete"
         /\ r.stage \notin {"lsqWait", "overlap"} => r.wait = 0
<1>1. PICK j : j = Found(i)
  OBVIOUS
<1>2. CASE j = 0
  <2>1. r \in Continued(inst[i], memory)
    BY <1>1, <1>2 DEF Issued
  <2>2. EntryOK(inst[i], Len(content)) /\ memory \in [0 .. NumLines - 1 -> [0 .. LineUnits - 1 -> 0 .. LastSeq]]
    BY InRange DEF QueueInv, EntriesOK, MemoryOK, NumbersOK
  <2>3. /\ EntryOK(r, Len(content)) /\ r.op = inst[i].op /\ r.object = inst[i].object
        /\ r.stage \in {"complete", "cache", "early"} /\ r.wait = 0
    BY <2>1, <2>2, ContinuedIs
  <2> QED
    BY <2>3 DEF Op
<1>3. CASE j # 0
  <2>1. j \in InFlight /\ MayWaitFor(i, j) /\ At(j) # "fetched"
    BY <1>1, <1>3, FoundIs
  <2>2. r \in Depending(i, j)
    BY <1>1, <1>3 DEF Issued
  <2>3. /\ EntryOK(r, Len(content)) /\ r.op = Op(i) /\ r.object = inst[i].object
        /\ \/ /\ ~ Exact(i, j)
              /\ r.stage = "overlap" /\ r.wait = j
           \/ /\ Exact(i, j) /\ ~ DataValid(j)
              /\ r.stage = "lsqWait" /\ r.wait = j
           \/ r.stage \in {"complete", "early"} /\ r.wait = 0
    BY <2>1, <2>2, DependingIs
  <2> QED
    BY <2>1, <2>3 DEF DataValid
<1> QED
  BY <1>2, <1>3

LEMMA RaisedIs ==
  ASSUME QueueInv, NEW victims \in SUBSET InFlight, victims # {}
  PROVE  /\ Raised(victims) \in InFlight
         /\ \A k \in victims : Raised(victims) <= k
         /\ exception # 0 => Raised(victims) <= exception
         /\ Raised(victims) \in victims \/ Raised(victims) = exception
<1> DEFINE S == victims \cup ({exception} \ {0})
<1>1. S \subseteq InFlight /\ S # {}
  BY DEF QueueInv, NumbersOK
<1>2. S \subseteq 1 .. LastSeq /\ LastSeq \in Nat
  BY <1>1, InRange
<1> HIDE DEF S
<1>3. Min(S) \in S /\ \A k \in S : Min(S) <= k
  BY <1>1, <1>2, MinExists
<1> QED
  BY <1>1, <1>3 DEF Raised, S

\* Entry r of instruction i that executes has the right data if the search gave it any.
FedBy(i, j, r) == r.value # Nothing /\ j # 0 => Intact(i, j, At(j))

LEMMA ExecuteSettles ==
  ASSUME QueueInv, NEW i \in InFlight, Execute(i)
  PROVE  \E r \in Issued(i, Found(i)) :
             /\ Settle([inst EXCEPT ![i] = r])
             /\ misfed \cup WokenMisfed \subseteq misfed'
             /\ i \in misfed' \/ FedBy(i, Found(i), r)
<1>1. PICK j : j = Found(i)
  OBVIOUS
<1>2. \E r \in Issued(i, j) :
          /\ Settle([inst EXCEPT ![i] = r])
          /\ misfed' = misfed \cup WokenMisfed
                           \cup {k \in {i} : r.value # Nothing /\ j # 0 /\ ~ Intact(i, j, At(j))}
  BY <1>1 DEF Execute, Issued, Found
<1>3. PICK r \in Issued(i, j) :
          /\ Settle([inst EXCEPT ![i] = r])
          /\ misfed' = misfed \cup WokenMisfed
                           \cup {k \in {i} : r.value # Nothing /\ j # 0 /\ ~ Intact(i, j, At(j))}
  BY <1>2
<1>4. misfed \cup WokenMisfed \subseteq misfed' /\ (i \in misfed' \/ FedBy(i, j, r))
  BY <1>3 DEF FedBy
<1> QED
  BY <1>1, <1>3, <1>4

LEMMA ExecuteQueue ==
  ASSUME QueueInv, NEW i \in InFlight, At(i) = "fetched", NEW r, r.stage # "fetched",
         NEW next, next = [inst EXCEPT ![i] = r], Prepared(next), Settled(next), lsq' = Inserted(i)
  PROVE  QueueOK'
<1>1. PICK b : b = BucketOf(Op(i))
  OBVIOUS
<1>2. b \in 0 .. Buckets - 1 /\ i \in Nat
  BY <1>1, InRange, BucketFacts
<1>3. PICK list : list = lsq[b]
  OBVIOUS
<1>4. /\ list \in Seq(Nat) /\ Decreasing(list)
      /\ ToSet(list) = {k \in InFlight : At(k) # "fetched" /\ BucketOf(Op(k)) = b}
  BY <1>2, <1>3 DEF QueueInv, QueueOK, QueueInProgramOrder, Decreasing
<1>5. PICK placed : placed = Placed(list, i)
  OBVIOUS
<1>6. placed \in Seq(Nat) /\ ToSet(placed) = ToSet(list) \cup {i} /\ Decreasing(placed)
  <2>1. i \notin ToSet(list)
    BY <1>4
  <2> QED
    BY <1>2, <1>4, <1>5, <2>1, PlacedKeeps
<1>7. lsq' = [lsq EXCEPT ![b] = placed]
  BY <1>1, <1>3, <1>5 DEF Inserted, Placed, FirstBelow
<1>8. lsq \in [0 .. Buckets - 1 -> Seq(Nat)]
  BY DEF QueueInv, QueueOK
<1>9. lsq' \in [0 .. Buckets - 1 -> Seq(Nat)]
  BY <1>6, <1>7, <1>8
<1>10. DOMAIN next = InFlight /\ DOMAIN inst' = InFlight
  BY DEF InFlight, Settled
<1>11. ASSUME NEW k \in InFlight
       PROVE  inst'[k].op = Op(k) /\ (inst'[k].stage # "fetched" <=> k = i \/ At(k) # "fetched")
  <2>1. inst'[k].op = Op(k) /\ (inst'[k] = next[k] \/ WokenUp(k))
    BY <1>10 DEF Settled
  <2>2. next[k] = IF k = i THEN r ELSE inst[k]
    BY DEF InFlight
  <2> QED
    BY <2>1, <2>2 DEF WokenUp, At
<1>12. ASSUME NEW c \in 0 .. Buckets - 1
       PROVE  /\ ToSet(lsq'[c]) = {k \in InFlight : inst'[k].stage # "fetched" /\ BucketOf(inst'[k].op) = c}
              /\ Decreasing(lsq'[c])
  <2>1. CASE c = b
    <3>1. lsq'[c] = placed
      BY <1>7, <1>8, <2>1
    <3>2. ToSet(list) \cup {i} = {k \in InFlight : inst'[k].stage # "fetched" /\ BucketOf(inst'[k].op) = c}
      BY <1>1, <1>4, <1>11, <2>1
    <3> QED
      BY <1>6, <3>1, <3>2
  <2>2. CASE c # b
    <3>1. lsq'[c] = lsq[c]
      BY <1>7, <1>8, <2>2
    <3>2. ToSet(lsq[c]) = {k \in InFlight : At(k) # "fetched" /\ BucketOf(Op(k)) = c} /\ Decreasing(lsq[c])
      BY DEF QueueInv, QueueOK, QueueInProgramOrder, Decreasing
    <3>3. {k \in InFlight : At(k) # "fetched" /\ BucketOf(Op(k)) = c}
              = {k \in InFlight : inst'[k].stage # "fetched" /\ BucketOf(inst'[k].op) = c}
      BY <1>1, <1>11, <2>2
    <3> QED
      BY <3>1, <3>2, <3>3
  <2> QED
    BY <2>1, <2>2
<1>13. QueueInProgramOrder'
  <2> SUFFICES ASSUME NEW c \in 0 .. Buckets - 1
               PROVE  /\ ToSet(lsq'[c]) = {k \in InFlight : inst'[k].stage # "fetched" /\ BucketOf(inst'[k].op) = c}
                      /\ Decreasing(lsq'[c])
    BY <1>10 DEF QueueInProgramOrder, Decreasing, InFlight, At, Op, BucketOf
  <2> QED
    BY <1>12
<1> QED
  BY <1>9, <1>13 DEF QueueOK

LEMMA ExecuteKeeps ==
  ASSUME QueueInv, NEW i \in InFlight, Execute(i)
  PROVE  QueueInv'
<1>1. PICK r \in Issued(i, Found(i)) : Settle([inst EXCEPT ![i] = r])
  BY ExecuteSettles
<1>2. PICK next : next = [inst EXCEPT ![i] = r]
  OBVIOUS
<1>3. At(i) = "fetched" /\ lsq' = Inserted(i) /\ UNCHANGED <<memory, retired, result, heap, squashes>>
  BY DEF Execute
<1>4. Prepared(next) /\ r.stage # "fetched"
  BY <1>2, <1>3, IssuedIs, PreparedOne
<1>5. Settled(next)
  BY <1>1, <1>2, <1>4, Settling
<1>6. QueueOK'
  BY <1>2, <1>3, <1>4, <1>5, ExecuteQueue
<1>7. exception' \in InFlight \cup {0}
  <2>1. PICK victims : victims = Misspeculated(i)
    OBVIOUS
  <2>2. victims \subseteq InFlight
    <3>1. BucketOf(Op(i)) \in 0 .. Buckets - 1
      BY InRange, BucketFacts
    <3>2. ToSet(lsq[BucketOf(Op(i))]) \subseteq InFlight
      BY <3>1 DEF QueueInv, QueueOK, QueueInProgramOrder
    <3> QED
      BY <2>1, <3>2 DEF Misspeculated
  <2>3. exception' = exception \/ (victims # {} /\ exception' = Raised(victims))
    BY <2>1 DEF Execute
  <2>4. victims # {} => Raised(victims) \in InFlight
    BY <2>2, RaisedIs
  <2> QED
    BY <2>3, <2>4 DEF QueueInv, NumbersOK
<1>8. DOMAIN next = InFlight
  BY <1>2 DEF InFlight
<1> QED
  BY <1>3, <1>4, <1>5, <1>6, <1>7, <1>8, StepInFlight DEF QueueInv

LEMMA MispredictKeeps ==
  ASSUME QueueInv, NEW k \in InFlight, Mispredict(k)
  PROVE  QueueInv'
<1>1. exception' \in InFlight \cup {0}
  BY RaisedIs DEF Mispredict
<1>2. UNCHANGED <<memory, retired, result, inst, lsq, heap>> /\ squashes' \in 0 .. Mispredictions
  BY LoadStoreQueueAssumption DEF Mispredict, QueueInv, NumbersOK
<1>3. NumbersOK'
  BY <1>1, <1>2 DEF QueueInv, NumbersOK, InFlight, Fetched
<1>4. MemoryOK' /\ HeapOK' /\ EntriesOK'
  BY <1>2 DEF QueueInv, MemoryOK, HeapOK, heap, EntriesOK, InFlight
<1>5. WaitOK'
  BY <1>2 DEF QueueInv, WaitOK, InFlight, At, MayWaitFor, Exact, Overlaps, SameLine, Op
<1>6. QueueOK'
  BY <1>2, QueueStays DEF At, Op, BucketOf, InFlight
<1> QED
  BY <1>3, <1>4, <1>5, <1>6 DEF QueueInv

\* Allocation of a store object for the instruction i.
Allocated(op, i) ==
    LET object == NewObject(op)
    IN  /\ content' = IF object > Len(content) THEN Append(content, i)
                      ELSE [content EXCEPT ![object] = i]
        /\ freeList' = IF freeList[Pool(op)] = <<>> THEN freeList
                       ELSE [freeList EXCEPT ![Pool(op)] = Tail(@)]
        /\ UNCHANGED recent

LEMMA AllocatedIs ==
  ASSUME QueueInv, NEW op \in Ops, NEW i \in Nat, Allocated(op, i), UNCHANGED retired,
         NEW object, object = NewObject(op)
  PROVE  /\ HeapOK'
         /\ Len(content) \in Nat /\ Len(content') \in Nat /\ Len(content) <= Len(content')
         /\ object \in 1 .. Len(content')
         /\ content'[object] = i
         /\ \A o \in 1 .. Len(content) : o # object => content'[o] = content[o]
         /\ \/ object = Len(content) + 1 /\ freeList' = freeList
            \/ /\ freeList[Pool(op)] # <<>> /\ object = Head(freeList[Pool(op)])
               /\ freeList' = [freeList EXCEPT ![Pool(op)] = Tail(@)]
<1>1. PICK p, n, list : p = Pool(op) /\ n = Len(content) /\ list = freeList[p]
  OBVIOUS
<1>2. p \in Pools /\ n \in Nat /\ list \in Seq(1 .. n) /\ content \in Seq(Nat) /\ freeList \in [Pools -> Seq(1 .. n)]
  <2>1. p \in Pools
    BY <1>1 DEF Pool, Pools
  <2>2. content \in Seq(Nat) /\ freeList \in [Pools -> Seq(1 .. n)]
    BY <1>1 DEF QueueInv, HeapOK
  <2> QED
    BY <1>1, <2>1, <2>2, LenProperties
<1>3. recent' \subseteq [seq : 1 .. retired, pool : Pools, object : 1 .. n] /\ recent' = recent
  BY <1>1 DEF QueueInv, HeapOK, Allocated
<1>4. CASE list = <<>>
  <2>1. object = n + 1 /\ content' = Append(content, i) /\ freeList' = freeList
    BY <1>1, <1>2, <1>4 DEF NewObject, Allocated
  <2>2. content' \in Seq(Nat) /\ Len(content') = n + 1 /\ content'[n + 1] = i /\ \A o \in 1 .. n : content'[o] = content[o]
    BY <1>1, <1>2, <2>1, AppendProperties
  <2>3. freeList' \in [Pools -> Seq(1 .. n + 1)]
    <3>1. ASSUME NEW q \in Pools PROVE freeList[q] \in Seq(1 .. n + 1)
      <4>1. freeList[q] \in Seq(1 .. n) /\ 1 .. n \subseteq 1 .. n + 1
        BY <1>2
      <4> QED
        BY <4>1, SeqMonotonic
    <3> QED
      BY <1>2, <2>1, <3>1
  <2>4. recent' \subseteq [seq : 1 .. retired, pool : Pools, object : 1 .. n + 1]
    BY <1>2, <1>3
  <2>5. retired' = retired => HeapOK'
    BY <2>2, <2>3, <2>4 DEF HeapOK
  <2> QED
    BY <1>1, <1>2, <2>1, <2>2, <2>5
<1>5. CASE list # <<>>
  <2>1. Head(list) \in 1 .. n /\ Tail(list) \in Seq(1 .. n)
    BY <1>2, <1>5, HeadTailProperties
  <2>2. object = Head(list) /\ object \in 1 .. n
    BY <1>1, <1>5, <2>1 DEF NewObject
  <2>3. content' = [content EXCEPT ![object] = i] /\ freeList' = [freeList EXCEPT ![p] = Tail(@)]
    BY <1>1, <1>2, <1>5, <2>2 DEF Allocated
  <2>4. content' \in Seq(Nat) /\ Len(content') = n /\ content'[object] = i
        /\ \A o \in 1 .. n : o # object => content'[o] = content[o]
    BY <1>1, <1>2, <2>2, <2>3, ExceptSeq
  <2>5. freeList' \in [Pools -> Seq(1 .. n)]
    BY <1>1, <1>2, <2>1, <2>3
  <2>6. retired' = retired => HeapOK'
    BY <1>3, <2>4, <2>5 DEF HeapOK
  <2> QED
    BY <1>1, <1>2, <1>5, <2>2, <2>3, <2>4, <2>6
<1> QED
  BY <1>4, <1>5

LEMMA FetchKeeps ==
  ASSUME QueueInv, NEW op \in Ops, Fetch(op)
  PROVE  QueueInv'
<1>1. PICK i, object : i = Fetched + 1 /\ object = IF Writes(op) THEN NewObject(op) ELSE 0
  OBVIOUS
<1>2. PICK e : e = [op |-> op, stage |-> "fetched", wait |-> 0, depend |-> 0, object |-> object, value |-> Nothing]
  OBVIOUS
<1>3. /\ i <= LastSeq
      /\ inst' = [j \in InFlight \cup {i} |-> IF j # i THEN inst[j] ELSE e]
      /\ UNCHANGED <<memory, retired, result, lsq, exception, squashes>>
  BY <1>1, <1>2 DEF Fetch
<1>4. /\ InFlight = retired + 1 .. Fetched /\ retired \in Nat /\ Fetched \in Nat /\ retired <= Fetched
      /\ LastSeq \in Nat /\ i \in Nat
  BY <1>1, InRange DEF QueueInv, NumbersOK
<1>5. InFlight' = InFlight \cup {i} /\ InFlight' = retired + 1 .. i /\ i \notin InFlight
  <2>1. InFlight' = InFlight \cup {i}
    BY <1>3 DEF InFlight
  <2> QED
    BY <1>1, <1>4, <2>1
<1>6. inst'[i] = e /\ \A j \in InFlight : inst'[j] = inst[j]
  BY <1>3, <1>5
<1>7. Fetched' = i
  <2>1. retired <= i
    BY <1>1, <1>4
  <2>2. retired + Cardinality(retired + 1 .. i) = i
    BY <1>4, <2>1, IntervalCount
  <2> QED
    BY <1>3, <1>5, <2>2 DEF Fetched
<1>8. NumbersOK'
  <2>1. exception \in InFlight \cup {0} /\ squashes \in 0 .. Mispredictions /\ retired \in 0 .. LastSeq
    BY DEF QueueInv, NumbersOK
  <2>2. i \in retired .. LastSeq
    BY <1>1, <1>3, <1>4
  <2> QED
    BY <1>3, <1>5, <1>7, <2>1, <2>2 DEF NumbersOK
<1>9. MemoryOK'
  BY <1>3 DEF QueueInv, MemoryOK
<1>10. /\ HeapOK' /\ Len(content) \in Nat /\ Len(content') \in Nat /\ Len(content) <= Len(content')
       /\ object \in IF Writes(op) THEN 1 .. Len(content') ELSE {0}
  <2>1. CASE Writes(op)
    <3>1. Allocated(op, i) /\ object = NewObject(op)
      BY <1>1, <2>1 DEF Fetch, Allocated
    <3> QED
      BY <1>3, <1>4, <2>1, <3>1, AllocatedIs
  <2>2. CASE ~ Writes(op)
    <3>1. UNCHANGED heap
      BY <2>2 DEF Fetch
    <3>2. HeapOK'
      BY <1>3, <3>1 DEF QueueInv, HeapOK, heap
    <3>3. Len(content) \in Nat /\ content' = content
      BY <3>1, LenProperties DEF heap, QueueInv, HeapOK
    <3> QED
      BY <1>1, <2>2, <3>2, <3>3
  <2> QED
    BY <2>1, <2>2
<1>11. EntryOK(e, Len(content'))
  <2>1. PICK n : n = Len(content')
    OBVIOUS
  <2>2. ValueOK(op, Nothing) /\ Nothing \in Values /\ "fetched" \in Stages
    BY DEF ValueOK, Values, Stages
  <2>3. object \in Nat /\ n \in Nat /\ object \in IF Writes(op) THEN 1 .. n ELSE {0}
    BY <1>10, <2>1
  <2>4. e \in Instruction
    BY <1>2, <2>2, <2>3 DEF Instruction
  <2> QED
    BY <1>2, <2>1, <2>2, <2>3, <2>4 DEF EntryOK
<1>12. EntriesOK'
  <2> SUFFICES ASSUME NEW j \in InFlight' PROVE EntryOK(inst'[j], Len(content'))
    BY DEF EntriesOK
  <2>1. CASE j = i
    BY <1>6, <1>11, <2>1
  <2>2. CASE j \in InFlight
    <3>1. EntryOK(inst[j], Len(content))
      BY <2>2 DEF QueueInv, EntriesOK
    <3> QED
      BY <1>6, <1>10, <2>2, <3>1, EntryGrows
  <2> QED
    BY <1>5, <2>1, <2>2
<1>13. ASSUME NEW j \in InFlight PROVE At(j)' = At(j) /\ Op(j)' = Op(j) /\ inst'[j].wait = inst[j].wait
  BY <1>6 DEF At, Op
<1>14. e.stage = "fetched" /\ e.wait = 0
  BY <1>2
<1>15. WaitOK'
  <2>1. ASSUME NEW j \in InFlight, NEW k \in InFlight
        PROVE  /\ MayWaitFor(j, k) => MayWaitFor(j, k)'
               /\ Exact(j, k) => Exact(j, k)'
    BY <1>13 DEF MayWaitFor, Exact, Overlaps, SameLine, Op
  <2> SUFFICES ASSUME NEW j \in InFlight'
               PROVE  /\ inst'[j].stage \in {"lsqWait", "overlap"} =>
                          /\ inst'[j].wait \in InFlight'
                          /\ MayWaitFor(j, inst[j].wait)'
                          /\ inst'[inst'[j].wait].stage # "fetched"
                      /\ inst'[j].stage = "lsqWait" =>
                            Exact(j, inst[j].wait)' /\ inst'[inst'[j].wait].stage # "complete"
                      /\ inst'[j].stage \notin {"lsqWait", "overlap"} => inst'[j].wait = 0
    BY DEF WaitOK, At
  <2>2. CASE j = i
    BY <1>6, <1>14, <2>2
  <2>3. CASE j \in InFlight
    <3>1. PICK k : k = inst[j].wait
      OBVIOUS
    <3>2. inst'[j] = inst[j]
      BY <1>6, <2>3
    <3>3. inst[j].stage \in {"lsqWait", "overlap"} =>
             /\ k \in InFlight /\ MayWaitFor(j, k)' /\ inst'[k].stage # "fetched"
             /\ inst[j].stage = "lsqWait" => Exact(j, k)' /\ inst'[k].stage # "complete"
      BY <1>6, <2>1, <2>3, <3>1 DEF QueueInv, WaitOK, At
    <3>4. inst[j].stage \notin {"lsqWait", "overlap"} => inst[j].wait = 0
      BY <2>3 DEF QueueInv, WaitOK, At
    <3> QED
      BY <1>5, <3>1, <3>2, <3>3, <3>4 DEF MayWaitFor, Exact, Overlaps, SameLine, Op
  <2> QED
    BY <1>5, <2>2, <2>3
<1>16. QueueOK'
  <2>1. ASSUME NEW b \in 0 .. Buckets - 1
        PROVE  {k \in InFlight' : inst'[k].stage # "fetched" /\ BucketOf(inst'[k].op) = b} =
               {k \in InFlight : At(k) # "fetched" /\ BucketOf(Op(k)) = b}
    BY <1>5, <1>6, <1>14 DEF At, Op
  <2> QED
    BY <1>3, <2>1, QueueStays DEF At, Op, BucketOf
<1> QED
  BY <1>8, <1>9, <1>10, <1>12, <1>15, <1>16 DEF QueueInv

LEMMA RecoverIs ==
  ASSUME QueueInv, Recover, NEW squashed, squashed = exception .. Fetched
  PROVE  /\ squashed \subseteq InFlight /\ InFlight' = InFlight \ squashed
         /\ \A i \in InFlight : i \in InFlight' <=> i < exception
         /\ \A i \in InFlight' : inst'[i] = inst[i]
         /\ InFlight' = retired + 1 .. Fetched' /\ Fetched' \in retired .. Fetched
         /\ exception # 0 /\ exception' = 0
         /\ lsq' = Removed(lsq, squashed)
         /\ freeList' = Freed(Objects(squashed))
         /\ UNCHANGED <<memory, retired, result, content, recent, squashes>>
<1>1. /\ exception # 0 /\ exception' = 0
      /\ inst' = [i \in InFlight \ squashed |-> inst[i]]
      /\ lsq' = Removed(lsq, squashed)
      /\ freeList' = Freed(Objects(squashed))
      /\ UNCHANGED <<memory, retired, result, content, recent, squashes>>
  BY DEF Recover
<1>2. /\ InFlight = retired + 1 .. Fetched /\ retired \in Nat /\ Fetched \in Nat /\ retired <= Fetched
      /\ exception \in retired + 1 .. Fetched
  BY <1>1, InRange DEF QueueInv, NumbersOK
<1>3. InFlight' = InFlight \ squashed /\ squashed \subseteq InFlight /\ InFlight' = retired + 1 .. exception - 1
  <2>1. InFlight' = InFlight \ squashed /\ squashed \subseteq InFlight
    BY <1>1, <1>2 DEF InFlight
  <2> QED
    BY <1>2, <2>1
<1>4. Fetched' = exception - 1
  <2>1. exception - 1 \in Nat /\ retired <= exception - 1
    BY <1>2
  <2> QED
    BY <1>1, <1>2, <1>3, <2>1, IntervalCount DEF Fetched
<1>5. InFlight' = retired + 1 .. Fetched' /\ Fetched' \in retired .. Fetched
  BY <1>2, <1>3, <1>4
<1>6. \A i \in InFlight : i \in InFlight' <=> i < exception
  BY <1>2, <1>3
<1>7. \A i \in InFlight' : inst'[i] = inst[i]
  BY <1>1, <1>3 DEF InFlight
<1> QED
  BY <1>1, <1>3, <1>5, <1>6, <1>7

LEMMA RecoverKeeps ==
  ASSUME QueueInv, Recover
  PROVE  QueueInv'
<1>1. PICK squashed : squashed = exception .. Fetched
  OBVIOUS
<1>2. /\ squashed \subseteq InFlight /\ InFlight' = InFlight \ squashed
      /\ \A i \in InFlight : i \in InFlight' <=> i < exception
      /\ \A i \in InFlight' : i \in InFlight /\ inst'[i] = inst[i]
      /\ InFlight' = retired + 1 .. Fetched' /\ Fetched' \in retired .. Fetched
      /\ exception' = 0
      /\ lsq' = Removed(lsq, squashed)
      /\ freeList' = Freed(Objects(squashed))
      /\ UNCHANGED <<memory, retired, result, content, recent, squashes>>
  BY <1>1, RecoverIs
<1>3. retired \in Nat /\ Fetched \in Nat /\ LastSeq \in Nat /\ InFlight \subseteq 1 .. LastSeq /\ exception \in Nat
  BY InRange DEF QueueInv, NumbersOK
<1>4. NumbersOK'
  <2>1. retired \in 0 .. LastSeq /\ Fetched \in retired .. LastSeq /\ squashes \in 0 .. Mispredictions
    BY DEF QueueInv, NumbersOK
  <2>2. Fetched' \in retired .. LastSeq
    BY <1>2, <1>3, <2>1
  <2> QED
    BY <1>2, <2>1, <2>2 DEF NumbersOK
<1>5. MemoryOK'
  BY <1>2 DEF QueueInv, MemoryOK
<1>6. EntriesOK'
  BY <1>2 DEF QueueInv, EntriesOK
<1>7. HeapOK'
  <2>1. PICK objects, n : objects = Objects(squashed) /\ n = Len(content)
    OBVIOUS
  <2>2. objects \subseteq [seq : squashed, pool : Pools, object : 1 .. n]
    BY <1>2, <2>1, ObjectsType
  <2>3. squashed \subseteq 1 .. LastSeq
    BY <1>2, <1>3
  <2>4. objects \in SUBSET [seq : 1 .. LastSeq, pool : Pools, object : 1 .. n]
    BY <2>2, <2>3
  <2>5. freeList \in [Pools -> Seq(1 .. n)]
    BY <2>1 DEF QueueInv, HeapOK
  <2>6. Freed(objects) \in [Pools -> Seq(1 .. n)]
    BY <1>3, <2>4, <2>5, FreedIs
  <2> QED
    BY <1>2, <2>1, <2>6 DEF QueueInv, HeapOK
<1>8. WaitOK'
  <2>1. ASSUME NEW j \in InFlight', NEW k \in InFlight'
        PROVE  /\ MayWaitFor(j, k) => MayWaitFor(j, k)'
               /\ Exact(j, k) => Exact(j, k)'
    BY <1>2 DEF MayWaitFor, Exact, Overlaps, SameLine, Op
  <2> SUFFICES ASSUME NEW j \in InFlight'
               PROVE  /\ inst'[j].stage \in {"lsqWait", "overlap"} =>
                          /\ inst'[j].wait \in InFlight'
                          /\ MayWaitFor(j, inst[j].wait)'
                          /\ inst'[inst'[j].wait].stage # "fetched"
                      /\ inst'[j].stage = "lsqWait" =>
                            Exact(j, inst[j].wait)' /\ inst'[inst'[j].wait].stage # "complete"
                      /\ inst'[j].stage \notin {"lsqWait", "overlap"} => inst'[j].wait = 0
    BY DEF WaitOK, At
  <2>2. PICK k : k = inst[j].wait
    OBVIOUS
  <2>3. inst'[j] = inst[j] /\ j \in InFlight
    BY <1>2
  <2>4. inst[j].stage \in {"lsqWait", "overlap"} => k \in InFlight' /\ MayWaitFor(j, k) /\ inst[k].stage # "fetched"
    <3>1. inst[j].stage \in {"lsqWait", "overlap"} =>
              k \in InFlight /\ k < j /\ MayWaitFor(j, k) /\ inst[k].stage # "fetched"
      BY <2>2, <2>3 DEF QueueInv, WaitOK, At, MayWaitFor
    <3>2. k \in InFlight /\ k < j => k \in InFlight'
      <4>1. j < exception /\ j \in Nat
        BY <1>2, <1>3, <2>3
      <4>2. \A m \in InFlight : m \in Nat
        BY <1>3
      <4> QED
        BY <1>2, <1>3, <4>1, <4>2
    <3> QED
      BY <3>1, <3>2
  <2>5. inst[j].stage = "lsqWait" => Exact(j, k) /\ inst[k].stage # "complete"
    BY <2>2, <2>3 DEF QueueInv, WaitOK, At
  <2>6. inst[j].stage \notin {"lsqWait", "overlap"} => inst[j].wait = 0
    BY <2>3 DEF QueueInv, WaitOK, At
  <2>7. k \in InFlight' => inst'[k] = inst[k]
    BY <1>2
  <2> QED
    BY <2>1, <2>2, <2>3, <2>4, <2>5, <2>6, <2>7 DEF MayWaitFor, Exact, Overlaps, SameLine, Op
<1>9. QueueOK'
  <2>1. ASSUME NEW b \in 0 .. Buckets - 1
        PROVE  {i \in InFlight : At(i) # "fetched" /\ BucketOf(Op(i)) = b}' =
               {i \in InFlight : At(i) # "fetched" /\ BucketOf(Op(i)) = b} \ squashed
    <3>1. {i \in InFlight' : inst'[i].stage # "fetched" /\ BucketOf(inst'[i].op) = b} =
          {i \in InFlight : At(i) # "fetched" /\ BucketOf(Op(i)) = b} \ squashed
      BY <1>2 DEF At, Op
    <3> QED
      BY <3>1 DEF At, Op, BucketOf
  <2> QED
    BY <1>2, <2>1, QueueShrinks
<1> QED
  BY <1>4, <1>5, <1>6, <1>7, <1>8, <1>9 DEF QueueInv

\* What the retirement of i makes of the instructions before anybody is woken.
RetirePrepared(i, resumed) ==
    [k \in InFlight \ {i} |-> IF At(k) = "overlap" /\ inst[k].wait = i THEN resumed[k] ELSE inst[k]]

LEMMA RetireSettles ==
  ASSUME QueueInv, Retire, NEW i, i = retired + 1
  PROVE  /\ i \in InFlight /\ exception = 0 /\ At(i) = "complete"
         /\ memory' = WriteMemory(memory, Op(i), i) /\ retired' = i /\ result' = inst[i].value
         /\ lsq' = Removed(lsq, {i})
         /\ Remembered(i)
         /\ UNCHANGED <<exception, squashes>>
         /\ \E resumed :
               /\ \A k \in InFlight : At(k) = "overlap" /\ inst[k].wait = i =>
                      resumed[k] \in Continued(inst[k], WriteMemory(memory, Op(i), i))
               /\ Settle(RetirePrepared(i, resumed))
<1> DEFINE waiting == {k \in InFlight : At(k) = "overlap" /\ inst[k].wait = i}
           mem == WriteMemory(memory, Op(i), i)
<1>1. /\ i \in InFlight /\ exception = 0 /\ At(i) = "complete"
      /\ memory' = WriteMemory(memory, Op(i), i) /\ retired' = i /\ result' = inst[i].value
      /\ lsq' = Removed(lsq, {i})
      /\ Remembered(i)
      /\ UNCHANGED <<exception, squashes>>
      /\ \E resumed \in [waiting -> UNION {Continued(inst[k], mem) : k \in waiting}] :
            /\ \A k \in waiting : resumed[k] \in Continued(inst[k], mem)
            /\ Settle([k \in InFlight \ {i} |-> IF k \in waiting THEN resumed[k] ELSE inst[k]])
  BY DEF Retire
<1>2. PICK resumed :
          /\ \A k \in waiting : resumed[k] \in Continued(inst[k], mem)
          /\ Settle([k \in InFlight \ {i} |-> IF k \in waiting THEN resumed[k] ELSE inst[k]])
  BY <1>1
<1>3. [k \in InFlight \ {i} |-> IF k \in waiting THEN resumed[k] ELSE inst[k]] = RetirePrepared(i, resumed)
  BY DEF RetirePrepared
<1>4. Settle(RetirePrepared(i, resumed))
  BY <1>2, <1>3
<1> QED
  BY <1>1, <1>2, <1>4

\* Memory when an instruction has written it.
LEMMA WriteType ==
  ASSUME NEW op \in Ops, NEW n \in Nat, NEW mem \in [0 .. NumLines - 1 -> [0 .. LineUnits - 1 -> 0 .. n]]
  PROVE  WriteMemory(mem, op, n + 1) \in [0 .. NumLines - 1 -> [0 .. LineUnits - 1 -> 0 .. n + 1]]
<1>1. op.line \in 0 .. NumLines - 1
  BY OpFacts
<1>2. mem \in [0 .. NumLines - 1 -> [0 .. LineUnits - 1 -> 0 .. n + 1]]
  OBVIOUS
<1>3. CASE Writes(op)
  <2> DEFINE line == [u \in 0 .. LineUnits - 1 |-> IF u \in Units(op) THEN n + 1 ELSE mem[op.line][u]]
  <2>1. line \in [0 .. LineUnits - 1 -> 0 .. n + 1]
    <3>1. n + 1 \in 0 .. n + 1
      OBVIOUS
    <3>2. mem[op.line] \in [0 .. LineUnits - 1 -> 0 .. n + 1]
      BY <1>1, <1>2
    <3>3. \A u \in 0 .. LineUnits - 1 : mem[op.line][u] \in 0 .. n + 1
      BY <3>2
    <3> QED
      BY <3>1, <3>3
  <2>2. WriteMemory(mem, op, n + 1) = [mem EXCEPT ![op.line] = line]
    BY <1>3 DEF WriteMemory
  <2> HIDE DEF line
  <2> QED
    BY <1>2, <2>1, <2>2
<1>4. CASE ~ Writes(op)
  BY <1>2, <1>4 DEF WriteMemory
<1> QED
  BY <1>3, <1>4

LEMMA RetirePreparedIs ==
  ASSUME QueueInv, NEW i, i = retired + 1, i \in InFlight, At(i) = "complete",
         NEW mem \in [0 .. NumLines - 1 -> [0 .. LineUnits - 1 -> 0 .. LastSeq]], NEW resumed,
         \A k \in InFlight : At(k) = "overlap" /\ inst[k].wait = i => resumed[k] \in Continued(inst[k], mem)
  PROVE  /\ Prepared(RetirePrepared(i, resumed))
         /\ DOMAIN RetirePrepared(i, resumed) = InFlight \ {i}
         /\ \A k \in InFlight \ {i} : At(k) = "fetched" => RetirePrepared(i, resumed)[k].stage = "fetched"
<1>1. PICK next : next = RetirePrepared(i, resumed)
  OBVIOUS
<1>2. /\ DOMAIN next = InFlight \ {i}
      /\ \A k \in DOMAIN next : next[k] = IF At(k) = "overlap" /\ inst[k].wait = i THEN resumed[k] ELSE inst[k]
  BY <1>1 DEF RetirePrepared
<1>3. ASSUME NEW k \in InFlight, At(k) = "overlap", inst[k].wait = i
      PROVE  /\ EntryOK(resumed[k], Len(content)) /\ resumed[k].op = Op(k) /\ resumed[k].object = inst[k].object
             /\ resumed[k].stage \in {"complete", "cache", "early"} /\ resumed[k].wait = 0
  <2>1. PICK r, s, n : r = inst[k] /\ s = resumed[k] /\ n = Len(content)
    OBVIOUS
  <2>2. EntryOK(r, n)
    BY <2>1 DEF QueueInv, EntriesOK
  <2>3. s \in Continued(r, mem)
    BY <1>3, <2>1
  <2>4. /\ EntryOK(s, n) /\ s.op = r.op /\ s.object = r.object
        /\ s.stage \in {"complete", "cache", "early"} /\ s.wait = 0
    BY <2>2, <2>3, ContinuedIs
  <2> QED
    BY <2>1, <2>4 DEF Op
<1>4. ASSUME NEW k \in DOMAIN next PROVE At(k) # "fetched" => next[k].stage # "fetched"
  BY <1>2, <1>3 DEF At
<1>5. ASSUME NEW k \in DOMAIN next
      PROVE  /\ EntryOK(next[k], Len(content))
             /\ next[k].op = Op(k) /\ next[k].object = inst[k].object
             /\ At(k) # "fetched" => next[k].stage # "fetched"
             /\ At(k) = "lsqWait" => next[k] = inst[k]
             /\ next[k].stage \in {"lsqWait", "overlap"} =>
                    /\ next[k].wait \in DOMAIN next /\ MayWaitFor(k, next[k].wait)
                    /\ next[next[k].wait].stage # "fetched"
             /\ next[k].stage = "lsqWait" => Exact(k, next[k].wait) /\ At(k) = "lsqWait"
             /\ next[k].stage \notin {"lsqWait", "overlap"} => next[k].wait = 0
  <2>1. CASE At(k) = "overlap" /\ inst[k].wait = i
    <3>1. next[k] = resumed[k] /\ k \in InFlight
      BY <1>2, <2>1
    <3>2. /\ EntryOK(resumed[k], Len(content)) /\ resumed[k].op = Op(k) /\ resumed[k].object = inst[k].object
          /\ resumed[k].stage \in {"complete", "cache", "early"} /\ resumed[k].wait = 0
      BY <1>3, <2>1, <3>1
    <3> QED
      BY <1>4, <2>1, <3>1, <3>2
  <2>2. CASE ~ (At(k) = "overlap" /\ inst[k].wait = i)
    <3>1. next[k] = inst[k] /\ k \in InFlight
      BY <1>2, <2>2
    <3>2. EntryOK(inst[k], Len(content))
      BY <3>1 DEF QueueInv, EntriesOK
    <3>3. PICK j : j = inst[k].wait
      OBVIOUS
    <3>4. At(k) \in {"lsqWait", "overlap"} => j \in InFlight /\ MayWaitFor(k, j) /\ At(j) # "fetched"
      BY <3>1, <3>3 DEF QueueInv, WaitOK
    <3>5. At(k) = "lsqWait" => Exact(k, j) /\ j # i
      BY <3>1, <3>3 DEF QueueInv, WaitOK
    <3>6. At(k) \notin {"lsqWait", "overlap"} => j = 0
      BY <3>1, <3>3 DEF QueueInv, WaitOK
    <3>7. At(k) \in {"lsqWait", "overlap"} => j \in DOMAIN next
      BY <1>2, <2>2, <3>3, <3>4, <3>5
    <3>8. next[k].stage = At(k) /\ next[k].wait = j
      BY <3>1, <3>3 DEF At
    <3>9. At(k) \in {"lsqWait", "overlap"} => next[j].stage # "fetched"
      BY <1>4, <3>4, <3>7
    <3> QED
      BY <1>4, <3>1, <3>2, <3>4, <3>5, <3>6, <3>7, <3>8, <3>9 DEF Op
  <2> QED
    BY <2>1, <2>2
<1>6. Prepared(next)
  <2>1. \A k \in InFlight \ DOMAIN next : At(k) = "complete"
    BY <1>2
  <2>2. DOMAIN next \subseteq InFlight
    BY <1>2
  <2> QED
    BY <1>5, <2>1, <2>2 DEF Prepared
<1>7. ASSUME NEW k \in InFlight \ {i}, At(k) = "fetched" PROVE next[k].stage = "fetched"
  BY <1>2, <1>7 DEF At
<1> QED
  BY <1>1, <1>2, <1>6, <1>7

LEMMA RememberedIs ==
  ASSUME QueueInv, NEW i, i = retired + 1, i \in InFlight, Remembered(i), retired' = i
  PROVE  HeapOK' /\ UNCHANGED content
<1> DEFINE all == recent \cup Objects({i})
           kept == {d \in all : d.seq + RecentRetired > i}
<1>1. recent' = kept /\ freeList' = Freed(all \ kept) /\ UNCHANGED content
  BY DEF Remembered
<1>2. PICK n : n = Len(content)
  OBVIOUS
<1>3. i \in Nat /\ retired \in Nat
  BY InRange
<1>4. all \subseteq [seq : 1 .. i, pool : Pools, object : 1 .. n]
  <2>1. recent \subseteq [seq : 1 .. retired, pool : Pools, object : 1 .. n]
    BY <1>2 DEF QueueInv, HeapOK
  <2>2. 1 .. retired \subseteq 1 .. i /\ {i} \subseteq 1 .. i
    BY <1>3
  <2>3. PICK s : s = {i}
    OBVIOUS
  <2>4. Objects(s) \subseteq [seq : s, pool : Pools, object : 1 .. n]
    BY <1>2, <2>3, ObjectsType
  <2> QED
    BY <2>1, <2>2, <2>3, <2>4
<1>5. PICK gone : gone = all \ kept
  OBVIOUS
<1>6. gone \in SUBSET [seq : 1 .. i, pool : Pools, object : 1 .. n] /\ kept \subseteq [seq : 1 .. i, pool : Pools, object : 1 .. n]
  BY <1>4, <1>5
<1> HIDE DEF all, kept
<1>7. freeList \in [Pools -> Seq(1 .. n)] /\ content \in Seq(Nat)
  BY <1>2 DEF QueueInv, HeapOK
<1>8. Freed(gone) \in [Pools -> Seq(1 .. n)]
  BY <1>3, <1>6, <1>7, FreedIs
<1> QED
  BY <1>1, <1>2, <1>5, <1>6, <1>7, <1>8 DEF HeapOK

\* What the retirement of i makes of the others: those that waited for it go on.
Resuming(next, i, mem) ==
    /\ Prepared(next) /\ Settled(next) /\ DOMAIN next = InFlight \ {i}
    /\ \A k \in InFlight \ {i} :
          \/ At(k) = "overlap" /\ inst[k].wait = i /\ next[k] \in Continued(inst[k], mem)
          \/ ~ (At(k) = "overlap" /\ inst[k].wait = i) /\ next[k] = inst[k]

LEMMA RetireIs ==
  ASSUME QueueInv, Retire, NEW i, i = retired + 1, NEW mem, mem = WriteMemory(memory, Op(i), i)
  PROVE  /\ i \in InFlight /\ exception = 0 /\ exception' = 0 /\ At(i) = "complete"
         /\ memory' = mem /\ retired' = i /\ result' = inst[i].value
         /\ mem \in [0 .. NumLines - 1 -> [0 .. LineUnits - 1 -> 0 .. LastSeq]]
         /\ lsq' = Removed(lsq, {i}) /\ Remembered(i)
         /\ InFlight' = InFlight \ {i} /\ InFlight' = i + 1 .. Fetched /\ Fetched' = Fetched
         /\ squashes' = squashes
         /\ \E next : Resuming(next, i, mem)
<1>1. /\ i \in InFlight /\ exception = 0 /\ At(i) = "complete"
      /\ memory' = mem /\ retired' = i /\ result' = inst[i].value
      /\ lsq' = Removed(lsq, {i}) /\ Remembered(i)
      /\ UNCHANGED <<exception, squashes>>
  BY RetireSettles
<1>2. PICK resumed :
          /\ \A k \in InFlight : At(k) = "overlap" /\ inst[k].wait = i => resumed[k] \in Continued(inst[k], mem)
          /\ Settle(RetirePrepared(i, resumed))
  BY RetireSettles
<1>3. /\ InFlight = retired + 1 .. Fetched /\ retired \in Nat /\ Fetched \in Nat /\ Fetched <= LastSeq
      /\ i \in Nat /\ i <= Fetched /\ LastSeq \in Nat /\ Op(i) \in Ops
  BY <1>1, InRange DEF QueueInv, NumbersOK
<1>4. mem \in [0 .. NumLines - 1 -> [0 .. LineUnits - 1 -> 0 .. LastSeq]]
  <2>1. mem \in [0 .. NumLines - 1 -> [0 .. LineUnits - 1 -> 0 .. i]]
    BY <1>3, WriteType DEF QueueInv, MemoryOK
  <2>2. 0 .. i \subseteq 0 .. LastSeq
    BY <1>3
  <2> QED
    BY <2>1, <2>2
<1>5. PICK next : next = RetirePrepared(i, resumed)
  OBVIOUS
<1>6. Prepared(next) /\ DOMAIN next = InFlight \ {i}
  BY <1>1, <1>2, <1>4, <1>5, RetirePreparedIs
<1>7. Settled(next)
  BY <1>2, <1>5, <1>6, Settling
<1>8. \A k \in InFlight \ {i} :
         \/ At(k) = "overlap" /\ inst[k].wait = i /\ next[k] \in Continued(inst[k], mem)
         \/ ~ (At(k) = "overlap" /\ inst[k].wait = i) /\ next[k] = inst[k]
  BY <1>2, <1>5 DEF RetirePrepared
<1>9. InFlight' = InFlight \ {i} /\ InFlight' = i + 1 .. Fetched
  <2>1. InFlight' = InFlight \ {i}
    BY <1>6, <1>7 DEF Settled, InFlight
  <2> QED
    BY <1>3, <2>1
<1>10. PICK f : f = Fetched
  OBVIOUS
<1>11. Fetched' = f
  <2>1. i + Cardinality(i + 1 .. f) = f
    BY <1>3, <1>10, IntervalCount
  <2> QED
    BY <1>1, <1>9, <1>10, <2>1 DEF Fetched
<1>12. exception' = 0
  BY <1>1
<1>13. Resuming(next, i, mem)
  BY <1>6, <1>7, <1>8 DEF Resuming
<1> QED
  BY <1>1, <1>4, <1>9, <1>10, <1>11, <1>12, <1>13

LEMMA RetireKeeps ==
  ASSUME QueueInv, Retire
  PROVE  QueueInv'
<1>1. PICK i, mem : i = retired + 1 /\ mem = WriteMemory(memory, Op(i), i)
  OBVIOUS
<1>2. /\ i \in InFlight /\ exception = 0 /\ exception' = 0
      /\ memory' = mem /\ retired' = i /\ result' = inst[i].value
      /\ lsq' = Removed(lsq, {i}) /\ Remembered(i)
      /\ InFlight' = InFlight \ {i} /\ InFlight' = i + 1 .. Fetched /\ Fetched' = Fetched
      /\ squashes' = squashes
  BY ONLY <1>1, QueueInv, Retire, RetireIs
<1>3. \E next : Resuming(next, i, mem)
  BY ONLY <1>1, QueueInv, Retire, RetireIs
<1>4. PICK next :
          /\ Prepared(next) /\ Settled(next) /\ DOMAIN next = InFlight \ {i}
          /\ \A k \in InFlight \ {i} : At(k) = "overlap" \/ next[k] = inst[k]
  BY <1>3 DEF Resuming
<1>5. /\ InFlight = retired + 1 .. Fetched /\ retired \in Nat /\ Fetched \in Nat /\ Fetched <= LastSeq
      /\ i \in Nat /\ i <= Fetched /\ LastSeq \in Nat /\ Op(i) \in Ops
  BY <1>1, <1>2, InRange DEF QueueInv, NumbersOK
<1>6. NumbersOK'
  <2>1. squashes \in 0 .. Mispredictions
    BY DEF QueueInv, NumbersOK
  <2>2. i \in 0 .. LastSeq /\ Fetched \in i .. LastSeq
    BY <1>5
  <2>3. PICK f : f = Fetched
    OBVIOUS
  <2>4. Fetched' = f /\ f \in i .. LastSeq /\ InFlight' = i + 1 .. f
    BY <1>2, <2>2, <2>3
  <2> QED
    BY <1>2, <2>1, <2>2, <2>4 DEF NumbersOK
<1>7. MemoryOK'
  <2>1. inst[i].value \in Values
    BY <1>2 DEF QueueInv, EntriesOK, EntryOK, Instruction
  <2>2. mem \in [0 .. NumLines - 1 -> [0 .. LineUnits - 1 -> 0 .. i]]
    BY <1>1, <1>5, WriteType DEF QueueInv, MemoryOK
  <2> QED
    BY <1>2, <2>1, <2>2 DEF MemoryOK
<1>8. HeapOK' /\ UNCHANGED content
  BY <1>1, <1>2, RememberedIs
<1>9. EntriesOK'
  <2> SUFFICES ASSUME NEW k \in DOMAIN next PROVE EntryOK(inst'[k], Len(content))
    BY <1>2, <1>4, <1>8 DEF EntriesOK
  <2> QED
    BY <1>4 DEF Settled
<1>10. WaitOK'
  BY <1>4, SettledWaits
<1>11. QueueOK'
  <2>1. \A b \in 0 .. Buckets - 1 :
             {k \in InFlight : At(k) # "fetched" /\ BucketOf(Op(k)) = b}' =
             {k \in InFlight : At(k) # "fetched" /\ BucketOf(Op(k)) = b} \cap DOMAIN next
    <3>1. \A k \in DOMAIN next : At(k) = "fetched" => next[k].stage = "fetched"
      BY <1>4 DEF At
    <3> QED
      BY <1>4, <3>1, SettledQueue
  <2>2. PICK gone : gone = {i}
    OBVIOUS
  <2>3. \A b \in 0 .. Buckets - 1 :
             {k \in InFlight : At(k) # "fetched" /\ BucketOf(Op(k)) = b}' =
             {k \in InFlight : At(k) # "fetched" /\ BucketOf(Op(k)) = b} \ gone
    BY <1>4, <2>1, <2>2
  <2>4. lsq' = Removed(lsq, gone)
    BY <1>2, <2>2
  <2> QED
    BY <2>3, <2>4, QueueShrinks
<1> QED
  BY <1>6, <1>7, <1>8, <1>9, <1>10, <1>11 DEF QueueInv

LEMMA InitQueue == Init => QueueInv
<1> SUFFICES ASSUME Init PROVE QueueInv
  OBVIOUS
<1>1. InFlight = {} /\ inst = <<>>
  BY DEF Init, InFlight
<1>2. retired = 0 /\ Fetched = 0
  <2>1. 0 + Cardinality({}) = 0
    BY FS_EmptySet
  <2> QED
    BY <1>1, <2>1 DEF Init, Fetched
<1>3. NumbersOK
  BY <1>1, <1>2, LoadStoreQueueAssumption DEF Init, NumbersOK
<1>4. MemoryOK
  BY <1>2 DEF Init, MemoryOK, InitialMemory, Values
<1>5. EntriesOK /\ WaitOK
  BY <1>1 DEF EntriesOK, WaitOK
<1>6. HeapOK
  <2>1. <<>> \in Seq(Nat) /\ <<>> \in Seq(1 .. Len(<<>>))
    BY EmptySeq
  <2>2. content = <<>> /\ freeList = [p \in Pools |-> <<>>] /\ recent = {}
    BY DEF Init
  <2> QED
    BY <2>1, <2>2 DEF HeapOK
<1>7. QueueOK
  <2>1. <<>> \in Seq(Nat) /\ ToSet(<<>>) = {}
    BY EmptySeq DEF ToSet
  <2>2. lsq = [b \in 0 .. Buckets - 1 |-> <<>>]
    BY DEF Init
  <2>3. QueueInProgramOrder
    BY <1>1, <2>1, <2>2 DEF QueueInProgramOrder
  <2> QED
    BY <2>1, <2>2, <2>3 DEF QueueOK
<1> QED
  BY <1>3, <1>4, <1>5, <1>6, <1>7 DEF QueueInv

LEMMA QueueInvKept == QueueInv /\ [Next]_vars => QueueInv'
<1> SUFFICES ASSUME QueueInv, [Next]_vars PROVE QueueInv'
  OBVIOUS
<1>1. CASE \E op \in Ops : Fetch(op)
  BY <1>1, FetchKeeps
<1>2. ASSUME NEW i \in InFlight, Execute(i) PROVE QueueInv'
  BY <1>2, ExecuteKeeps
<1>3. ASSUME NEW i \in InFlight, DataArrives(i) PROVE QueueInv'
  BY <1>3, DataArrivesKeeps
<1>4. ASSUME NEW i \in InFlight, CacheAnswers(i) PROVE QueueInv'
  BY <1>4, CacheAnswersKeeps
<1>5. ASSUME NEW i \in InFlight, Mispredict(i) PROVE QueueInv'
  BY <1>5, MispredictKeeps
<1>6. CASE Retire
  BY <1>6, RetireKeeps
<1>7. CASE Recover
  BY <1>7, RecoverKeeps
<1>8. CASE UNCHANGED vars
  <2>1. UNCHANGED <<memory, retired, result, misread, misfed, inst, lsq, exception, content, freeList, recent, squashes>>
    BY <1>8 DEF vars
  <2>2. NumbersOK' /\ MemoryOK' /\ EntriesOK' /\ HeapOK'
    BY <2>1 DEF QueueInv, NumbersOK, MemoryOK, EntriesOK, HeapOK, InFlight, Fetched
  <2>3. QueueOK'
    BY <2>1, QueueStays DEF InFlight, At, Op
  <2>4. WaitOK'
    BY <2>1 DEF QueueInv, WaitOK, MayWaitFor, Exact, Overlaps, SameLine, InFlight, At, Op
  <2> QED
    BY <2>2, <2>3, <2>4 DEF QueueInv
<1> QED
  BY <1>1, <1>2, <1>3, <1>4, <1>5, <1>6, <1>7, <1>8 DEF Next

\* The history is of instructions in flight.
HistoryOK == misread \in BOOLEAN /\ misfed \subseteq InFlight

LEMMA SettleDomain ==
  ASSUME NEW next, Settle(next), DOMAIN next = InFlight
  PROVE  InFlight' = InFlight /\ WokenMisfed \subseteq InFlight
<1>1. DOMAIN inst' = DOMAIN next
  BY Zenon DEF Settle
<1>2. WokenMisfed \subseteq InFlight
  BY Zenon DEF InFlight, WokenMisfed
<1> QED
  BY <1>1, <1>2, Zenon DEF InFlight

LEMMA HistoryKept == QueueInv /\ HistoryOK /\ [Next]_vars => HistoryOK'
<1> SUFFICES ASSUME QueueInv, HistoryOK, [Next]_vars PROVE HistoryOK'
  OBVIOUS
<1>1. ASSUME NEW op \in Ops, Fetch(op) PROVE HistoryOK'
  <2>1. InFlight \subseteq InFlight' /\ misread' = misread
    BY <1>1 DEF Fetch, InFlight
  <2>2. misfed' \subseteq misfed \cup InFlight
    BY <1>1 DEF Fetch
  <2> QED
    BY <2>1, <2>2 DEF HistoryOK
<1>2. ASSUME NEW i \in InFlight, Execute(i) PROVE HistoryOK'
  <2>1. PICK r : /\ Settle([inst EXCEPT ![i] = r])
                 /\ misfed' \subseteq misfed \cup WokenMisfed \cup {i}
                 /\ misread' = misread
    <3>1. \E j, r : /\ Settle([inst EXCEPT ![i] = r])
                    /\ misfed' = misfed \cup WokenMisfed
                                     \cup {k \in {i} : r.value # Nothing /\ j # 0 /\ ~ Intact(i, j, At(j))}
                    /\ misread' = misread
      BY <1>2 DEF Execute
    <3> QED
      BY <3>1
  <2>2. InFlight' = InFlight /\ WokenMisfed \subseteq InFlight
    BY <2>1, SettleDomain DEF InFlight
  <2> QED
    BY <2>1, <2>2 DEF HistoryOK
<1>3. ASSUME NEW i \in InFlight, DataArrives(i) PROVE HistoryOK'
  <2>1. PICK r : /\ Settle([inst EXCEPT ![i] = r])
                 /\ misfed' \subseteq misfed \cup WokenMisfed \cup {i}
                 /\ misread' = misread
    BY <1>3 DEF DataArrives
  <2>2. InFlight' = InFlight /\ WokenMisfed \subseteq InFlight
    BY <2>1, SettleDomain DEF InFlight
  <2> QED
    BY <2>1, <2>2 DEF HistoryOK
<1>4. ASSUME NEW i \in InFlight, CacheAnswers(i) PROVE HistoryOK'
  <2>1. PICK r : /\ Settle([inst EXCEPT ![i] = r])
                 /\ misfed' = misfed \cup WokenMisfed
                 /\ misread' = misread
    BY <1>4 DEF CacheAnswers
  <2>2. InFlight' = InFlight /\ WokenMisfed \subseteq InFlight
    BY <2>1, SettleDomain DEF InFlight
  <2> QED
    BY <2>1, <2>2 DEF HistoryOK
<1>5. ASSUME NEW i \in InFlight, Mispredict(i) PROVE HistoryOK'
  BY <1>5 DEF HistoryOK, Mispredict, InFlight
<1>6. CASE Retire
  <2>1. PICK i : i = retired + 1
    OBVIOUS
  <2>2. misfed' = (misfed \ {i}) \cup WokenMisfed
    BY <1>6, <2>1 DEF Retire
  <2>3. misread' = (i \in misfed)
    BY <1>6, <2>1 DEF Retire
  <2>4. misread' \in BOOLEAN
    BY <2>3
  <2>5. PICK resumed : Settle(RetirePrepared(i, resumed))
    BY <1>6, <2>1, RetireSettles
  <2>6. DOMAIN RetirePrepared(i, resumed) = InFlight \ {i}
    BY DEF RetirePrepared
  <2>7. PICK next : Settle(next) /\ DOMAIN next = InFlight \ {i}
    BY <2>5, <2>6
  <2>8. InFlight' = InFlight \ {i}
    <3>1. DOMAIN inst' = DOMAIN next
      BY <2>7, Zenon DEF Settle
    <3> QED
      BY <2>7, <3>1, Zenon DEF InFlight
  <2>9. WokenMisfed \subseteq InFlight'
    BY Zenon DEF InFlight, WokenMisfed
  <2> QED
    BY <2>2, <2>4, <2>8, <2>9 DEF HistoryOK
<1>7. CASE Recover
  BY <1>7 DEF HistoryOK, Recover, InFlight
<1>8. CASE UNCHANGED vars
  BY <1>8 DEF HistoryOK, vars, InFlight
<1> QED
  BY <1>1, <1>2, <1>3, <1>4, <1>5, <1>6, <1>7, <1>8 DEF Next

LEMMA QueueInvImplies == QueueInv /\ HistoryOK => QueueConsistent
<1> SUFFICES ASSUME QueueInv, HistoryOK PROVE QueueConsistent
  OBVIOUS
<1>1. TypeOK
  <2>1. memory \in Memory
    BY InRange DEF QueueInv, MemoryOK, Memory
  <2>2. ASSUME NEW i \in InFlight
        PROVE  /\ Op(i) \in Ops /\ At(i) \in Stages
               /\ inst[i].wait \in InFlight \cup {0}
               /\ {inst[i].depend, inst[i].object} \subseteq 0 .. Len(content)
               /\ inst[i].value \in Values
    <3>1. EntryOK(inst[i], Len(content))
      BY DEF QueueInv, EntriesOK
    <3>2. inst[i].wait \in InFlight \cup {0}
      BY DEF QueueInv, WaitOK
    <3>3. inst[i].object \in 0 .. Len(content)
      BY <3>1 DEF EntryOK, QueueInv, HeapOK
    <3> QED
      BY <3>1, <3>2, <3>3 DEF EntryOK, Instruction, Op, At
  <2>3. \A b \in 0 .. Buckets - 1 : ToSet(lsq[b]) \subseteq InFlight
    BY DEF QueueInv, QueueOK, QueueInProgramOrder
  <2> QED
    BY <2>1, <2>2, <2>3 DEF TypeOK, QueueInv, NumbersOK, MemoryOK, HistoryOK
<1>2. WaitersHaveWaker
  BY DEF QueueInv, WaitOK, WaitersHaveWaker, MayWaitFor
<1> QED
  BY <1>1, <1>2 DEF QueueConsistent, QueueInv, QueueOK

LEMMA QueueInvHolds == Spec => []QueueInv
<1>1. Init => QueueInv
  BY InitQueue
<1>2. QueueInv /\ [Next]_vars => QueueInv'
  BY QueueInvKept
<1> QED
  BY <1>1, <1>2, PTL DEF Spec

\* The queue, the wait lists and the stages of the instructions always agree: the
\* lists of lsq.C are in program order however late an address comes, and an
\* instruction that waits is on the list of an older store that has yet to make the
\* step that wakes it.
THEOREM QueueStaysConsistent == Spec => []QueueConsistent
<1>1. QueueInv /\ HistoryOK => QueueConsistent
  BY QueueInvImplies
<1>2. Init => HistoryOK
  BY DEF Init, HistoryOK
<1>3. QueueInv /\ HistoryOK /\ [Next]_vars => HistoryOK'
  BY HistoryKept
<1> QED
  BY <1>1, <1>2, <1>3, QueueInvHolds, PTL DEF Spec

-----------------------------------------------------------------------------
(***************************************************************************)
(* A store that is alive owns its object: nothing else is in it, and it is *)
(* not free.                                                               *)
(***************************************************************************)
LiveStores == Objects(InFlight) \cup recent

HeapSound(live, numbers, free) ==
    /\ \A d \in live : numbers[d.object] = d.seq /\ \A p \in Pools : d.object \notin ToSet(free[p])
    /\ \A d, e \in live : d.seq = e.seq => d = e
    /\ \A p \in Pools : \A m, n \in DOMAIN free[p] : free[p][m] = free[p][n] => m = n
    /\ \A p, q \in Pools : p # q => ToSet(free[p]) \cap ToSet(free[q]) = {}

LEMMA FreedMembers ==
  ASSUME NEW n \in Nat, NEW S, NEW deleted \in SUBSET [seq : 1 .. n, pool : Pools, object : S],
         freeList \in [Pools -> Seq(S)], NEW p \in Pools
  PROVE  /\ Len(FreedFirst(deleted, p)) = Cardinality(SeqsIn(deleted, p))
         /\ Len(Freed(deleted)[p]) = Len(FreedFirst(deleted, p)) + Len(freeList[p])
         /\ DOMAIN Freed(deleted)[p] = 1 .. Len(FreedFirst(deleted, p)) + Len(freeList[p])
         /\ \A m \in DOMAIN Freed(deleted)[p] :
               \/ /\ m \in 1 .. Len(FreedFirst(deleted, p))
                  /\ \E d \in deleted : /\ d.pool = p /\ d.seq = Nth(SeqsIn(deleted, p), m)
                                        /\ Freed(deleted)[p][m] = d.object
               \/ /\ m - Len(FreedFirst(deleted, p)) \in DOMAIN freeList[p]
                  /\ Freed(deleted)[p][m] = freeList[p][m - Len(FreedFirst(deleted, p))]
<1>1. PICK f, g, c : f = FreedFirst(deleted, p) /\ g = freeList[p] /\ c = Cardinality(SeqsIn(deleted, p))
  OBVIOUS
<1>2. f \in Seq(S) /\ g \in Seq(S) /\ c \in Nat
  BY <1>1, FreedFirstType
<1>3. Freed(deleted)[p] = f \o g
  <2>1. Freed(deleted)[p] = FreedFirst(deleted, p) \o freeList[p]
    BY FreedIs
  <2> QED
    BY <1>1, <2>1
<1>4. Len(f) = c
  <2>1. DOMAIN f = 1 .. c
    BY <1>1 DEF FreedFirst
  <2> QED
    BY <1>2, <2>1, LenProperties
<1>5. PICK h : h = f \o g
  OBVIOUS
<1>6. h \in Seq(S) /\ Len(h) = Len(f) + Len(g)
  BY ONLY <1>2, <1>5, ConcatProperties
<1>7. \A m \in 1 .. Len(f) + Len(g) : h[m] = IF m <= Len(f) THEN f[m] ELSE g[m - Len(f)]
  BY ONLY <1>2, <1>5, ConcatProperties
<1>8. DOMAIN h = 1 .. Len(f) + Len(g) /\ DOMAIN g = 1 .. Len(g) /\ Len(g) \in Nat /\ Len(f) \in Nat
  BY <1>2, <1>6, LenProperties
<1>9. ASSUME NEW m \in DOMAIN h
      PROVE  \/ m \in 1 .. Len(f) /\ h[m] = f[m]
             \/ m - Len(f) \in DOMAIN g /\ h[m] = g[m - Len(f)]
  BY <1>7, <1>8
<1>10. \A m \in 1 .. c : \E d \in deleted : d.pool = p /\ d.seq = Nth(SeqsIn(deleted, p), m) /\ f[m] = d.object
  <2>1. ObjectsOf(FreedFirst(deleted, p), deleted, p)
    BY FreedFirstType
  <2> QED
    BY <1>1, <2>1 DEF ObjectsOf
<1> QED
  BY <1>1, <1>3, <1>4, <1>5, <1>6, <1>8, <1>9, <1>10

\* Deleting some stores frees the objects of these.
LEMMA FreeingKeeps ==
  ASSUME NEW n \in Nat, NEW S, NEW live \in SUBSET [seq : 1 .. n, pool : Pools, object : S],
         freeList \in [Pools -> Seq(S)], HeapSound(live, content, freeList),
         NEW deleted \in SUBSET live, NEW kept \in SUBSET live,
         \A d \in deleted, e \in kept : d.seq # e.seq
  PROVE  HeapSound(kept, content, Freed(deleted))
<1>1. deleted \in SUBSET [seq : 1 .. n, pool : Pools, object : S]
  OBVIOUS
<1>2. PICK free : free = Freed(deleted)
  OBVIOUS
<1>3. PICK f : f = [p \in Pools |-> Len(FreedFirst(deleted, p))]
  OBVIOUS
<1>4. \A d \in live : content[d.object] = d.seq /\ \A p \in Pools : d.object \notin ToSet(freeList[p])
  BY DEF HeapSound
<1>5. \A d, e \in live : d.seq = e.seq => d = e
  BY DEF HeapSound
<1>6. ASSUME NEW p \in Pools
      PROVE  /\ f[p] \in Nat /\ f[p] = Cardinality(SeqsIn(deleted, p)) /\ Len(freeList[p]) \in Nat
             /\ DOMAIN free[p] = 1 .. f[p] + Len(freeList[p])
             /\ DOMAIN freeList[p] = 1 .. Len(freeList[p])
             /\ \A m \in DOMAIN free[p] :
                  \/ /\ m \in 1 .. f[p]
                     /\ \E d \in deleted : d.pool = p /\ d.seq = Nth(SeqsIn(deleted, p), m) /\ free[p][m] = d.object
                  \/ m - f[p] \in DOMAIN freeList[p] /\ free[p][m] = freeList[p][m - f[p]]
  <2>1. f[p] = Len(FreedFirst(deleted, p))
    BY <1>3
  <2>2. freeList[p] \in Seq(S) /\ FreedFirst(deleted, p) \in Seq(S)
    BY <1>1, FreedFirstType
  <2>3. f[p] \in Nat /\ Len(freeList[p]) \in Nat /\ DOMAIN freeList[p] = 1 .. Len(freeList[p])
    BY <2>1, <2>2, LenProperties
  <2> QED
    BY <1>1, <1>2, <2>1, <2>3, FreedMembers
<1>7. ASSUME NEW p \in Pools, NEW o \in ToSet(free[p])
      PROVE  (\E d \in deleted : d.pool = p /\ o = d.object) \/ o \in ToSet(freeList[p])
  <2>1. PICK m \in DOMAIN free[p] : o = free[p][m]
    BY DEF ToSet
  <2> QED
    BY <1>6, <2>1 DEF ToSet
<1>8. ASSUME NEW d \in deleted, NEW e \in live, d.object = e.object PROVE d = e
  <2>1. d \in live
    OBVIOUS
  <2>2. d.seq = e.seq
    BY <1>4, <1>8, <2>1
  <2> QED
    BY <1>5, <2>1, <2>2
<1>9. \A d \in kept : content[d.object] = d.seq /\ \A p \in Pools : d.object \notin ToSet(free[p])
  <2> SUFFICES ASSUME NEW d \in kept, NEW p \in Pools, d.object \in ToSet(free[p]) PROVE FALSE
    BY <1>4
  <2>1. d.object \notin ToSet(freeList[p])
    BY <1>4
  <2>2. PICK e \in deleted : d.object = e.object
    BY <1>7, <2>1
  <2>3. e = d
    BY <1>8, <2>2
  <2> QED
    BY <2>3
<1>10. \A d, e \in kept : d.seq = e.seq => d = e
  BY <1>5
<1>11. ASSUME NEW p \in Pools, NEW m \in DOMAIN free[p], NEW k \in DOMAIN free[p], free[p][m] = free[p][k]
       PROVE  m = k
  <2>1. /\ f[p] \in Nat /\ f[p] = Cardinality(SeqsIn(deleted, p)) /\ m \in Nat /\ k \in Nat
    BY <1>6
  <2>2. CASE m \in 1 .. f[p] /\ k \in 1 .. f[p]
    <3>1. ASSUME NEW j \in DOMAIN free[p], j \in 1 .. f[p]
          PROVE  \E d \in deleted : d.pool = p /\ d.seq = Nth(SeqsIn(deleted, p), j) /\ free[p][j] = d.object
      <4>1. ~ (j - f[p] \in DOMAIN freeList[p])
        BY <1>6, <3>1
      <4> QED
        BY <1>6, <4>1
    <3>2. PICK d \in deleted : d.seq = Nth(SeqsIn(deleted, p), m) /\ free[p][m] = d.object
      BY <2>2, <3>1
    <3>3. PICK e \in deleted : e.seq = Nth(SeqsIn(deleted, p), k) /\ free[p][k] = e.object
      BY <2>2, <3>1
    <3>4. Nth(SeqsIn(deleted, p), m) = Nth(SeqsIn(deleted, p), k)
      BY <1>8, <1>11, <3>2, <3>3
    <3>5. PICK s : s = SeqsIn(deleted, p)
      OBVIOUS
    <3>6. s \subseteq 1 .. n
      BY <1>1, <3>5, FreedFirstType
    <3>7. Count(s, Nth(s, m)) = m /\ Count(s, Nth(s, k)) = k
      <4>1. m \in 1 .. Cardinality(s) /\ k \in 1 .. Cardinality(s)
        BY <2>1, <2>2, <3>5
      <4> QED
        BY <3>6, <4>1, NthOf
    <3> QED
      BY <3>4, <3>5, <3>7
  <2>3. ASSUME NEW i \in DOMAIN free[p], NEW j \in DOMAIN free[p], i \in 1 .. f[p], j \notin 1 .. f[p],
               free[p][i] = free[p][j]
        PROVE  FALSE
    <3>1. ~ (i - f[p] \in DOMAIN freeList[p])
      BY <1>6, <2>3
    <3>2. PICK d \in deleted : free[p][i] = d.object
      BY <1>6, <3>1
    <3>3. free[p][j] \in ToSet(freeList[p])
      BY <1>6, <2>3 DEF ToSet
    <3>4. d \in live
      OBVIOUS
    <3> QED
      BY <1>4, <2>3, <3>2, <3>3, <3>4
  <2>4. CASE m \notin 1 .. f[p] /\ k \notin 1 .. f[p]
    <3>1. m - f[p] \in DOMAIN freeList[p] /\ free[p][m] = freeList[p][m - f[p]]
      BY <1>6, <2>4
    <3>2. k - f[p] \in DOMAIN freeList[p] /\ free[p][k] = freeList[p][k - f[p]]
      BY <1>6, <2>4
    <3>3. m - f[p] = k - f[p]
      BY <1>11, <3>1, <3>2 DEF HeapSound
    <3> QED
      BY <2>1, <3>3
  <2> QED
    BY <1>11, <2>2, <2>3, <2>4
<1>12. ASSUME NEW p \in Pools, NEW q \in Pools, p # q PROVE ToSet(free[p]) \cap ToSet(free[q]) = {}
  <2> SUFFICES ASSUME NEW o, o \in ToSet(free[p]), o \in ToSet(free[q]) PROVE FALSE
    OBVIOUS
  <2>1. ASSUME NEW d \in deleted, o = d.object PROVE o \notin ToSet(freeList[p]) /\ o \notin ToSet(freeList[q])
    <3>1. d \in live
      OBVIOUS
    <3> QED
      BY <1>4, <2>1, <3>1
  <2>2. (\E d \in deleted : d.pool = p /\ o = d.object) \/ o \in ToSet(freeList[p])
    BY <1>7
  <2>3. (\E d \in deleted : d.pool = q /\ o = d.object) \/ o \in ToSet(freeList[q])
    BY <1>7
  <2>4. CASE \E d \in deleted : d.pool = p /\ o = d.object
    <3>1. PICK d \in deleted : d.pool = p /\ o = d.object
      BY <2>4
    <3>2. PICK e \in deleted : e.pool = q /\ o = e.object
      BY <2>1, <2>3, <3>1
    <3>3. d = e
      BY <1>8, <3>1, <3>2
    <3> QED
      BY <1>12, <3>1, <3>2, <3>3
  <2>5. CASE o \in ToSet(freeList[p])
    <3>1. o \in ToSet(freeList[q])
      BY <2>1, <2>3, <2>5
    <3> QED
      BY <1>12, <2>5, <3>1 DEF HeapSound
  <2> QED
    BY <2>2, <2>4, <2>5
<1> QED
  BY <1>2, <1>9, <1>10, <1>11, <1>12 DEF HeapSound

\* The objects of the writers among some instructions of a window n.
ObjectsIn(n, s) ==
    {[seq |-> k, pool |-> Pool(n[k].op), object |-> n[k].object] : k \in {j \in s : Writes(n[j].op)}}

LEMMA ObjectsMember ==
  ASSUME NEW n, NEW s
  PROVE  /\ \A d \in ObjectsIn(n, s) :
               /\ d.seq \in s /\ Writes(n[d.seq].op) /\ d.object = n[d.seq].object
               /\ d = [seq |-> d.seq, pool |-> Pool(n[d.seq].op), object |-> n[d.seq].object]
         /\ \A k \in s : Writes(n[k].op) =>
               [seq |-> k, pool |-> Pool(n[k].op), object |-> n[k].object] \in ObjectsIn(n, s)
<1>1. ASSUME NEW d \in ObjectsIn(n, s)
      PROVE  /\ d.seq \in s /\ Writes(n[d.seq].op) /\ d.object = n[d.seq].object
             /\ d = [seq |-> d.seq, pool |-> Pool(n[d.seq].op), object |-> n[d.seq].object]
  <2>1. PICK k \in s : /\ Writes(n[k].op)
                       /\ d = [seq |-> k, pool |-> Pool(n[k].op), object |-> n[k].object]
    BY DEF ObjectsIn
  <2>2. d.seq = k /\ d.object = n[k].object
    BY <2>1
  <2> QED
    BY <2>1, <2>2
<1>2. ASSUME NEW k \in s, Writes(n[k].op)
      PROVE  [seq |-> k, pool |-> Pool(n[k].op), object |-> n[k].object] \in ObjectsIn(n, s)
  BY <1>2 DEF ObjectsIn
<1> QED
  BY <1>1, <1>2

\* Windows that agree on the accesses and their objects have the same ones.
LEMMA SameObjects ==
  ASSUME NEW n, NEW m, NEW s, \A k \in s : n[k].op = m[k].op /\ n[k].object = m[k].object
  PROVE  ObjectsIn(n, s) = ObjectsIn(m, s)
<1>1. ASSUME NEW d \in ObjectsIn(n, s) PROVE d \in ObjectsIn(m, s)
  <2>1. /\ d.seq \in s /\ Writes(n[d.seq].op)
        /\ d = [seq |-> d.seq, pool |-> Pool(n[d.seq].op), object |-> n[d.seq].object]
    BY ObjectsMember
  <2>2. d = [seq |-> d.seq, pool |-> Pool(m[d.seq].op), object |-> m[d.seq].object] /\ Writes(m[d.seq].op)
    BY <2>1
  <2> QED
    BY <2>1, <2>2, ObjectsMember
<1>2. ASSUME NEW d \in ObjectsIn(m, s) PROVE d \in ObjectsIn(n, s)
  <2>1. /\ d.seq \in s /\ Writes(m[d.seq].op)
        /\ d = [seq |-> d.seq, pool |-> Pool(m[d.seq].op), object |-> m[d.seq].object]
    BY ObjectsMember
  <2>2. d = [seq |-> d.seq, pool |-> Pool(n[d.seq].op), object |-> n[d.seq].object] /\ Writes(n[d.seq].op)
    BY <2>1
  <2> QED
    BY <2>1, <2>2, ObjectsMember
<1> QED
  BY <1>1, <1>2

LEMMA LiveIs ==
  /\ \A s : Objects(s) = ObjectsIn(inst, s)
  /\ LiveStores = ObjectsIn(inst, InFlight) \cup recent
  /\ LiveStores' = ObjectsIn(inst', DOMAIN inst') \cup recent'
BY DEF LiveStores, Objects, ObjectsIn, Op, InFlight

LEMMA LiveType ==
  ASSUME QueueInv
  PROVE  /\ LiveStores \in SUBSET [seq : 1 .. LastSeq, pool : Pools, object : 1 .. Len(content)]
         /\ LiveStores \in SUBSET [seq : 1 .. Fetched, pool : Pools, object : 1 .. Len(content)]
         /\ freeList \in [Pools -> Seq(1 .. Len(content))]
         /\ \A d \in LiveStores : d.seq \in InFlight \/ (d \in recent /\ d.seq \notin InFlight)
<1>1. /\ retired \in Nat /\ Fetched \in Nat /\ retired <= Fetched /\ InFlight = retired + 1 .. Fetched
      /\ LastSeq \in Nat /\ Fetched <= LastSeq
  BY LoadStoreQueueAssumption DEF QueueInv, NumbersOK
<1>2. Objects(InFlight) \subseteq [seq : InFlight, pool : Pools, object : 1 .. Len(content)]
  BY ObjectsType
<1>3. recent \subseteq [seq : 1 .. retired, pool : Pools, object : 1 .. Len(content)]
  BY DEF QueueInv, HeapOK
<1>4. ASSUME NEW d \in LiveStores
      PROVE  /\ d \in [seq : 1 .. LastSeq, pool : Pools, object : 1 .. Len(content)]
             /\ d \in [seq : 1 .. Fetched, pool : Pools, object : 1 .. Len(content)]
             /\ d.seq \in InFlight \/ (d \in recent /\ d.seq \notin InFlight)
  <2>1. CASE d \in Objects(InFlight)
    <3>1. d \in [seq : InFlight, pool : Pools, object : 1 .. Len(content)]
      BY <1>2, <2>1
    <3>2. d.seq \in InFlight /\ d.seq \in 1 .. LastSeq /\ d.seq \in 1 .. Fetched
      BY <1>1, <3>1
    <3> QED
      BY <3>1, <3>2
  <2>2. CASE d \in recent
    <3>1. d \in [seq : 1 .. retired, pool : Pools, object : 1 .. Len(content)]
      BY <1>3, <2>2
    <3>2. d.seq \notin InFlight /\ d.seq \in 1 .. LastSeq /\ d.seq \in 1 .. Fetched
      BY <1>1, <3>1
    <3> QED
      BY <2>2, <3>1, <3>2
  <2> QED
    BY <2>1, <2>2 DEF LiveStores
<1> QED
  BY <1>4 DEF QueueInv, HeapOK

\* A step that fetches, retires and squashes nothing.
LEMMA LiveStays ==
  ASSUME QueueInv, NEW next, Settled(next), DOMAIN next = InFlight, UNCHANGED recent
  PROVE  LiveStores' = LiveStores
<1>1. DOMAIN inst' = InFlight
  BY DEF Settled
<1>2. \A k \in InFlight : inst'[k].op = inst[k].op /\ inst'[k].object = inst[k].object
  BY DEF Settled, Op
<1>3. ObjectsIn(inst', InFlight) = ObjectsIn(inst, InFlight)
  BY <1>2, SameObjects
<1> QED
  BY <1>1, <1>3, LiveIs

-----------------------------------------------------------------------------
(***************************************************************************)
(* What the steps that change the window make of it.                       *)
(***************************************************************************)
LEMMA FetchIs ==
  ASSUME QueueInv, NEW op \in Ops, Fetch(op), NEW i, i = Fetched + 1
  PROVE  /\ i \in Nat /\ i \notin InFlight /\ InFlight' = InFlight \cup {i} /\ Fetched' = i
         /\ i <= retired + Window
         /\ inst'[i].op = op /\ inst'[i].stage = "fetched" /\ inst'[i].depend = 0 /\ inst'[i].value = Nothing
         /\ Writes(op) => inst'[i].object = NewObject(op) /\ Allocated(op, i)
         /\ ~ Writes(op) => UNCHANGED heap
         /\ \A j \in InFlight : inst'[j] = inst[j]
         /\ UNCHANGED <<memory, retired, result, lsq, exception, recent>>
<1>1. PICK e : e = [op |-> op, stage |-> "fetched", wait |-> 0, depend |-> 0,
                    object |-> IF Writes(op) THEN NewObject(op) ELSE 0, value |-> Nothing]
  OBVIOUS
<1>2. /\ Cardinality(InFlight) < Window
      /\ inst' = [j \in InFlight \cup {i} |-> IF j # i THEN inst[j] ELSE e]
      /\ UNCHANGED <<memory, retired, result, lsq, exception, recent>>
  BY <1>1 DEF Fetch, heap
<1>3. /\ InFlight = retired + 1 .. Fetched /\ retired \in Nat /\ Fetched \in Nat /\ retired <= Fetched /\ i \in Nat
  BY InRange DEF QueueInv, NumbersOK
<1>4. InFlight' = InFlight \cup {i} /\ InFlight' = retired + 1 .. i /\ i \notin InFlight
  <2>1. InFlight' = InFlight \cup {i}
    BY <1>2 DEF InFlight
  <2> QED
    BY <1>3, <2>1
<1>5. inst'[i] = e /\ \A j \in InFlight : inst'[j] = inst[j]
  BY <1>2, <1>4
<1>6. Fetched' = i
  <2>1. retired <= i
    BY <1>3
  <2>2. retired + Cardinality(retired + 1 .. i) = i
    BY <1>3, <2>1, IntervalCount
  <2> QED
    BY <1>2, <1>4, <2>2 DEF Fetched
<1>7. i <= retired + Window
  <2>1. Fetched = retired + Cardinality(retired + 1 .. Fetched)
    BY <1>3, IntervalCount
  <2>2. PICK c : c = Cardinality(InFlight)
    OBVIOUS
  <2>3. c = Fetched - retired
    <3>1. Cardinality(retired + 1 .. Fetched) = IF retired + 1 > Fetched THEN 0 ELSE Fetched - (retired + 1) + 1
      BY <1>3, FS_Interval
    <3> QED
      BY <1>3, <2>2, <3>1
  <2>4. Window \in Nat /\ c < Window
    BY <1>2, <2>2, LoadStoreQueueAssumption
  <2> QED
    BY <1>3, <2>3, <2>4
<1>8. Writes(op) => Allocated(op, i)
  BY DEF Fetch, Allocated
<1>9. ~ Writes(op) => UNCHANGED heap
  BY DEF Fetch
<1>10. /\ e.op = op /\ e.stage = "fetched" /\ e.depend = 0 /\ e.value = Nothing
       /\ Writes(op) => e.object = NewObject(op)
  BY <1>1
<1> QED
  BY <1>2, <1>3, <1>4, <1>5, <1>6, <1>7, <1>8, <1>9, <1>10

-----------------------------------------------------------------------------
(***************************************************************************)
(* Live stores keep their objects.                                         *)
(***************************************************************************)
HeapSafe == HeapSound(LiveStores, content, freeList)

LEMMA FetchHeap ==
  ASSUME QueueInv, HeapSafe, NEW op \in Ops, Fetch(op)
  PROVE  HeapSafe'
<1>1. PICK i : i = Fetched + 1
  OBVIOUS
<1>2. /\ i \in Nat /\ i \notin InFlight /\ InFlight' = InFlight \cup {i}
      /\ inst'[i].op = op
      /\ Writes(op) => inst'[i].object = NewObject(op) /\ Allocated(op, i)
      /\ ~ Writes(op) => UNCHANGED heap
      /\ \A j \in InFlight : inst'[j] = inst[j]
      /\ UNCHANGED <<retired, recent>>
  BY <1>1, FetchIs
<1>3. \A j \in InFlight : inst'[j].op = inst[j].op /\ inst'[j].object = inst[j].object
  BY <1>2
<1>4. ObjectsIn(inst', InFlight) = ObjectsIn(inst, InFlight)
  BY <1>3, SameObjects
<1>5. DOMAIN inst' = InFlight \cup {i}
  BY <1>2 DEF InFlight
<1>6. PICK mine, both : mine = InFlight /\ both = InFlight \cup {i}
  OBVIOUS
<1>7. LiveStores = ObjectsIn(inst, mine) \cup recent /\ LiveStores' = ObjectsIn(inst', both) \cup recent
  BY <1>2, <1>5, <1>6, LiveIs
<1>8. CASE ~ Writes(op)
  <2>1. ASSUME NEW d \in ObjectsIn(inst', both) PROVE d \in ObjectsIn(inst, mine)
    <3>1. /\ d.seq \in both /\ Writes(inst'[d.seq].op)
          /\ d = [seq |-> d.seq, pool |-> Pool(inst'[d.seq].op), object |-> inst'[d.seq].object]
      BY ObjectsMember
    <3>2. d.seq \in mine
      BY <1>2, <1>6, <1>8, <3>1
    <3> QED
      BY <1>4, <1>6, <3>1, <3>2, ObjectsMember
  <2>2. LiveStores' \subseteq LiveStores
    BY <1>7, <2>1
  <2>3. UNCHANGED heap
    BY <1>2, <1>8
  <2> QED
    BY <2>2, <2>3 DEF HeapSafe, HeapSound, heap
<1>9. CASE Writes(op)
  <2>1. PICK o, n, p : o = NewObject(op) /\ n = Len(content) /\ p = Pool(op)
    OBVIOUS
  <2>2. p \in Pools
    BY <2>1 DEF Pool, Pools
  <2>3. /\ n \in Nat /\ content'[o] = i
        /\ \A x \in 1 .. n : x # o => content'[x] = content[x]
        /\ \/ o = n + 1 /\ freeList' = freeList
           \/ /\ freeList[p] # <<>> /\ o = Head(freeList[p])
              /\ freeList' = [freeList EXCEPT ![p] = Tail(@)]
    BY <1>2, <1>9, <2>1, AllocatedIs
  <2>4. /\ LiveStores \in SUBSET [seq : 1 .. Fetched, pool : Pools, object : 1 .. n]
        /\ freeList \in [Pools -> Seq(1 .. n)]
    BY <2>1, LiveType
  <2>5. PICK e : e = [seq |-> i, pool |-> p, object |-> o]
    OBVIOUS
  <2>6. ASSUME NEW d \in LiveStores' PROVE d = e \/ d \in LiveStores
    <3>1. CASE d \in recent
      BY <1>7, <3>1
    <3>2. CASE d \in ObjectsIn(inst', both)
      <4>1. /\ d.seq \in both /\ Writes(inst'[d.seq].op)
            /\ d = [seq |-> d.seq, pool |-> Pool(inst'[d.seq].op), object |-> inst'[d.seq].object]
        BY <3>2, ObjectsMember
      <4>2. CASE d.seq = i
        BY <1>2, <1>9, <2>1, <2>5, <4>1, <4>2
      <4>3. CASE d.seq \in mine
        BY <1>4, <1>6, <1>7, <4>1, <4>3, ObjectsMember
      <4> QED
        BY <1>6, <4>1, <4>2, <4>3
    <3> QED
      BY <1>7, <3>1, <3>2
  <2>8. /\ freeList' \in [Pools -> Seq(1 .. n)]
        /\ \A q \in Pools : /\ ToSet(freeList'[q]) \subseteq ToSet(freeList[q])
                            /\ o \notin ToSet(freeList'[q])
                            /\ \A k, m \in DOMAIN freeList'[q] : freeList'[q][k] = freeList'[q][m] => k = m
    <3>1. CASE o = n + 1 /\ freeList' = freeList
      <4>1. ASSUME NEW q \in Pools PROVE o \notin ToSet(freeList[q])
        <5>1. freeList[q] \in Seq(1 .. n)
          BY <2>4
        <5>2. ToSet(freeList[q]) \subseteq 1 .. n
          <6>1. PICK f : f = freeList[q]
            OBVIOUS
          <6>2. \A k \in DOMAIN f : f[k] \in 1 .. n
            BY <5>1, <6>1, LenProperties, ElementOfSeq
          <6> QED
            BY <6>1, <6>2 DEF ToSet
        <5> QED
          BY <2>3, <3>1, <5>2
      <4> QED
        BY <2>4, <3>1, <4>1 DEF HeapSafe, HeapSound
    <3>2. CASE /\ freeList[p] # <<>> /\ o = Head(freeList[p])
               /\ freeList' = [freeList EXCEPT ![p] = Tail(@)]
      <4>1. PICK f, t : f = freeList[p] /\ t = Tail(f)
        OBVIOUS
      <4>2. f \in Seq(1 .. n) /\ f # <<>>
        BY <2>2, <2>4, <3>2, <4>1
      <4>3. /\ t \in Seq(1 .. n) /\ Len(t) = Len(f) - 1 /\ Len(f) \in Nat \ {0}
            /\ \A k \in 1 .. Len(t) : t[k] = f[k + 1]
            /\ DOMAIN t = 1 .. Len(t) /\ DOMAIN f = 1 .. Len(f)
        BY ONLY <4>1, <4>2, HeadTailProperties, EmptySeq, LenProperties
      <4>4. o = f[1]
        BY <3>2, <4>1
      <4>5. \A k, m \in DOMAIN f : f[k] = f[m] => k = m
        BY <2>2, <4>1 DEF HeapSafe, HeapSound
      <4>6. ToSet(t) \subseteq ToSet(f) /\ o \notin ToSet(t) /\ o \in ToSet(f)
        <5>1. ASSUME NEW k \in DOMAIN t PROVE t[k] \in ToSet(f) /\ t[k] # o
          <6>1. k + 1 \in DOMAIN f /\ k + 1 # 1 /\ 1 \in DOMAIN f /\ t[k] = f[k + 1]
            BY <4>3
          <6> QED
            BY <4>4, <4>5, <6>1 DEF ToSet
        <5>2. 1 \in DOMAIN f
          BY <4>3
        <5> QED
          BY <4>4, <5>1, <5>2 DEF ToSet
      <4>7. \A k, m \in DOMAIN t : t[k] = t[m] => k = m
        <5> SUFFICES ASSUME NEW k \in DOMAIN t, NEW m \in DOMAIN t, t[k] = t[m] PROVE k = m
          OBVIOUS
        <5>1. k + 1 \in DOMAIN f /\ m + 1 \in DOMAIN f /\ f[k + 1] = f[m + 1] /\ k \in Nat /\ m \in Nat
          BY <4>3
        <5>2. k + 1 = m + 1
          BY <4>5, <5>1
        <5> QED
          BY <5>1, <5>2
      <4>8. freeList'[p] = t /\ \A q \in Pools : q # p => freeList'[q] = freeList[q]
        BY <2>2, <2>4, <3>2, <4>1
      <4>9. freeList' \in [Pools -> Seq(1 .. n)]
        BY <2>4, <3>2, <4>1, <4>3
      <4>10. \A q \in Pools : q # p => o \notin ToSet(freeList[q])
        BY <2>2, <4>1, <4>6 DEF HeapSafe, HeapSound
      <4> QED
        BY <4>1, <4>6, <4>7, <4>8, <4>9, <4>10 DEF HeapSafe, HeapSound
    <3> QED
      BY <2>3, <3>1, <3>2
  <2>9. ASSUME NEW d \in LiveStores
        PROVE  /\ d.seq # i /\ d.object # o /\ content'[d.object] = d.seq
               /\ \A q \in Pools : d.object \notin ToSet(freeList'[q])
    <3>1. d.seq \in 1 .. Fetched /\ d.object \in 1 .. n /\ content[d.object] = d.seq
      BY <2>4 DEF HeapSafe, HeapSound
    <3>2. \A q \in Pools : d.object \notin ToSet(freeList[q])
      BY DEF HeapSafe, HeapSound
    <3>3. d.object # o
      <4>1. CASE o = n + 1
        BY <2>3, <3>1, <4>1
      <4>2. CASE freeList[p] # <<>> /\ o = Head(freeList[p])
        <5>1. freeList[p] \in Seq(1 .. n)
          BY <2>2, <2>4
        <5>2. 1 \in DOMAIN freeList[p]
          BY <4>2, <5>1, EmptySeq, LenProperties
        <5>3. o \in ToSet(freeList[p])
          BY <4>2, <5>2 DEF ToSet
        <5> QED
          BY <2>2, <3>2, <5>3
      <4> QED
        BY <2>3, <4>1, <4>2
    <3>4. d.seq # i
      BY <1>1, <3>1, InRange
    <3> QED
      BY <2>3, <2>8, <3>1, <3>2, <3>3, <3>4
  <2>10. \A d \in LiveStores' : content'[d.object] = d.seq /\ \A q \in Pools : d.object \notin ToSet(freeList'[q])
    <3>1. e.object = o /\ e.seq = i
      BY <2>5
    <3> QED
      BY <2>3, <2>6, <2>8, <2>9, <3>1
  <2>11. \A d, c \in LiveStores' : d.seq = c.seq => d = c
    <3>1. e.seq = i
      BY <2>5
    <3> QED
      BY <2>6, <2>9, <3>1 DEF HeapSafe, HeapSound
  <2>12. \A q, r \in Pools : q # r => ToSet(freeList'[q]) \cap ToSet(freeList'[r]) = {}
    <3> SUFFICES ASSUME NEW q \in Pools, NEW r \in Pools, q # r
                 PROVE  ToSet(freeList'[q]) \cap ToSet(freeList'[r]) = {}
      OBVIOUS
    <3>1. ToSet(freeList[q]) \cap ToSet(freeList[r]) = {}
      BY DEF HeapSafe, HeapSound
    <3> QED
      BY <2>8, <3>1
  <2> QED
    BY <2>8, <2>10, <2>11, <2>12 DEF HeapSafe, HeapSound
<1> QED
  BY <1>8, <1>9

LEMMA RetireHeap ==
  ASSUME QueueInv, HeapSafe, Retire
  PROVE  HeapSafe'
<1>1. PICK i, mem : i = retired + 1 /\ mem = WriteMemory(memory, Op(i), i)
  OBVIOUS
<1>2. i \in InFlight /\ Remembered(i) /\ InFlight' = InFlight \ {i}
  BY <1>1, RetireIs
<1>3. PICK next : Settled(next) /\ DOMAIN next = InFlight \ {i}
  BY <1>1, RetireIs DEF Resuming
<1>4. PICK rest : rest = InFlight \ {i}
  OBVIOUS
<1>5. \A k \in rest : inst'[k].op = inst[k].op /\ inst'[k].object = inst[k].object
  BY <1>3, <1>4 DEF Settled, Op
<1>6. ObjectsIn(inst', rest) = ObjectsIn(inst, rest)
  BY <1>5, SameObjects
<1>7. PICK all, kept : all = recent \cup ObjectsIn(inst, {i}) /\ kept = {d \in all : d.seq + RecentRetired > i}
  OBVIOUS
<1>8. recent' = kept /\ freeList' = Freed(all \ kept) /\ UNCHANGED content
  <2>1. all = recent \cup Objects({i})
    BY <1>7, LiveIs
  <2> QED
    BY <1>2, <1>7, <2>1 DEF Remembered
<1>9. PICK stay : stay = ObjectsIn(inst, rest) \cup kept
  OBVIOUS
<1>10. LiveStores' = stay
  BY <1>2, <1>4, <1>6, <1>8, <1>9, LiveIs DEF InFlight
<1>11. PICK n, live : n = Len(content) /\ live = LiveStores
  OBVIOUS
<1>12. live \in SUBSET [seq : 1 .. LastSeq, pool : Pools, object : 1 .. n] /\ freeList \in [Pools -> Seq(1 .. n)]
  BY <1>11, LiveType
<1>13. live = ObjectsIn(inst, InFlight) \cup recent
  BY <1>11, LiveIs
<1>14. stay \subseteq live /\ all \subseteq live
  <2>1. \A d \in ObjectsIn(inst, rest) : d \in ObjectsIn(inst, InFlight)
    BY <1>4, ObjectsMember
  <2>2. \A d \in ObjectsIn(inst, {i}) : d \in ObjectsIn(inst, InFlight)
    BY <1>2, ObjectsMember
  <2> QED
    BY <1>7, <1>9, <1>13, <2>1, <2>2
<1>15. ASSUME NEW d \in all \ kept, NEW e \in stay, d.seq = e.seq PROVE FALSE
  <2>1. d = e
    BY <1>11, <1>14, <1>15 DEF HeapSafe, HeapSound
  <2>2. e \in ObjectsIn(inst, rest)
    BY <1>9, <2>1
  <2>3. d.seq \in InFlight /\ d.seq # i
    BY <1>4, <2>1, <2>2, ObjectsMember
  <2>4. d \in recent
    BY <1>7, <2>3, ObjectsMember
  <2>5. d.seq \in 1 .. retired
    BY <2>4 DEF QueueInv, HeapOK
  <2> QED
    BY <2>3, <2>5, InRange DEF QueueInv, NumbersOK
<1>16. PICK gone : gone = all \ kept
  OBVIOUS
<1>17. gone \in SUBSET live /\ stay \in SUBSET live /\ \A d \in gone, e \in stay : d.seq # e.seq
  BY <1>14, <1>15, <1>16
<1>18. HeapSound(live, content, freeList) /\ LastSeq \in Nat
  BY <1>11, LoadStoreQueueAssumption DEF HeapSafe
<1>19. HeapSound(stay, content, Freed(gone))
  BY <1>12, <1>17, <1>18, FreeingKeeps
<1> QED
  BY <1>8, <1>10, <1>16, <1>19 DEF HeapSafe

LEMMA RecoverHeap ==
  ASSUME QueueInv, HeapSafe, Recover
  PROVE  HeapSafe'
<1>1. PICK squashed : squashed = exception .. Fetched
  OBVIOUS
<1>2. /\ squashed \subseteq InFlight /\ InFlight' = InFlight \ squashed
      /\ \A i \in InFlight' : inst'[i] = inst[i]
      /\ freeList' = Freed(Objects(squashed))
      /\ UNCHANGED <<content, recent>>
  BY <1>1, RecoverIs
<1>3. PICK rest : rest = InFlight \ squashed
  OBVIOUS
<1>4. \A k \in rest : inst'[k].op = inst[k].op /\ inst'[k].object = inst[k].object
  BY <1>2, <1>3
<1>5. ObjectsIn(inst', rest) = ObjectsIn(inst, rest)
  BY <1>4, SameObjects
<1>6. PICK stay, gone, n, live :
          /\ stay = ObjectsIn(inst, rest) \cup recent /\ gone = ObjectsIn(inst, squashed)
          /\ n = Len(content) /\ live = LiveStores
  OBVIOUS
<1>7. LiveStores' = stay
  BY <1>2, <1>3, <1>5, <1>6, LiveIs DEF InFlight
<1>8. live \in SUBSET [seq : 1 .. LastSeq, pool : Pools, object : 1 .. n] /\ freeList \in [Pools -> Seq(1 .. n)]
  BY <1>6, LiveType
<1>9. live = ObjectsIn(inst, InFlight) \cup recent
  BY <1>6, LiveIs
<1>10. stay \in SUBSET live /\ gone \in SUBSET live
  <2>1. \A d \in ObjectsIn(inst, rest) : d \in ObjectsIn(inst, InFlight)
    BY <1>3, ObjectsMember
  <2>2. \A d \in ObjectsIn(inst, squashed) : d \in ObjectsIn(inst, InFlight)
    BY <1>2, ObjectsMember
  <2> QED
    BY <1>6, <1>9, <2>1, <2>2
<1>11. ASSUME NEW d \in gone, NEW e \in stay PROVE d.seq # e.seq
  <2>1. d.seq \in squashed
    BY <1>6, ObjectsMember
  <2>2. CASE e \in recent
    <3>1. e.seq \in 1 .. retired
      BY <2>2 DEF QueueInv, HeapOK
    <3>2. e.seq \notin InFlight
      BY <3>1, InRange DEF QueueInv, NumbersOK
    <3> QED
      BY <1>2, <2>1, <3>2
  <2>3. CASE e \in ObjectsIn(inst, rest)
    BY <1>3, <2>1, <2>3, ObjectsMember
  <2> QED
    BY <1>6, <2>2, <2>3
<1>12. HeapSound(live, content, freeList) /\ LastSeq \in Nat
  BY <1>6, LoadStoreQueueAssumption DEF HeapSafe
<1>13. HeapSound(stay, content, Freed(gone))
  BY <1>8, <1>10, <1>11, <1>12, FreeingKeeps
<1>14. gone = Objects(squashed)
  BY <1>6, LiveIs
<1> QED
  BY <1>2, <1>7, <1>13, <1>14 DEF HeapSafe

-----------------------------------------------------------------------------
(***************************************************************************)
(* What has been read is not stale.                                        *)
(*                                                                         *)
(* Four things that the code does feed an instruction wrong data: an ldstub *)
(* hands out its register until it has executed, an atomic whose data       *)
(* register comes late loses what it has read, a word bypassed from a wider *)
(* store is the wrong one, and m_depend is read after the store has been    *)
(* deleted and its object given out again.  They make the instruction       *)
(* misfed.  For any other no replay is missed.                              *)
(***************************************************************************)
\* The writers before i of a unit in a window n, with known addresses.
WritersIn(n, i, u) ==
    {j \in DOMAIN n : /\ j < i /\ Writes(n[j].op) /\ n[j].stage # "fetched"
                      /\ n[i].op.line = n[j].op.line /\ u \in Units(n[j].op)}

Newest(writers, j) == j \in writers /\ \A k \in writers : k <= j

\* What an instruction has, waits for or is going to read is up to date with the
\* writers of a unit before it, and with memory where there is none.
FreshUnit(r, writers, unit, u) ==
    /\ r.stage \in {"lsqWait", "overlap"} => \A j \in writers : j <= r.wait
    /\ r.stage \in {"early", "cache"} /\ r.value = Nothing => writers = {}
    /\ r.value # Nothing => /\ writers = {} => r.value[u] = <<unit, u>>
                            /\ \A j \in writers : Newest(writers, j) => r.value[u] = <<j, u>>

Fresh(n, mem, i) ==
    \A u \in Units(n[i].op) : FreshUnit(n[i], WritersIn(n, i, u), mem[n[i].op.line][u], u)

\* No pending exception squashes i.
Alive(i) == exception = 0 \/ i < exception

FreshOK == \A i \in InFlight : Reads(Op(i)) /\ Alive(i) /\ i \notin misfed => Fresh(inst, memory, i)

\* An instruction that reads has its value when it is complete, and none before its
\* address is known or while it waits.
ReadOK(r) ==
    /\ Reads(r.op) => /\ r.stage = "complete" => r.value # Nothing
                      /\ r.stage \in {"fetched", "lsqWait", "overlap"} => r.value = Nothing
    /\ ~ Reads(r.op) => r.value = Nothing

ReadsOK == \A i \in InFlight : ReadOK(inst[i])

\* j is an older store that covers i, and its address is known.
Covered(i, j) == j < i /\ Writes(Op(j)) /\ Exact(i, j) /\ At(j) # "fetched"

\* The object that i depends on is that of such a store in flight, or a retired store
\* was the last to have it.
DependsOn(i) ==
    \/ \E j \in InFlight : Covered(i, j) /\ inst[j].object = inst[i].depend
    \/ content[inst[i].depend] \in 1 .. retired

DependOK == \A i \in InFlight : i \in misfed \/ inst[i].depend = 0 \/ DependsOn(i)

StaleInv == QueueInv /\ HeapSafe /\ ReadsOK /\ DependOK /\ FreshOK

LEMMA ExactCovers ==
  ASSUME NEW i, NEW j, Op(i) \in Ops, Op(j) \in Ops, Exact(i, j)
  PROVE  Op(i).line = Op(j).line /\ Units(Op(i)) \subseteq Units(Op(j))
<1>1. /\ Op(i).offset \in Nat /\ Op(i).size \in Nat /\ Op(j).size \in Nat
      /\ Op(i).offset = Op(j).offset /\ Op(i).size <= Op(j).size
  BY OpFacts, MemoryAccessAssumption DEF Exact
<1> QED
  BY <1>1 DEF Units, Exact, SameLine

\* An intact bypass takes the data of the store unit by unit.
LEMMA BypassedIs ==
  ASSUME NEW i, NEW j, Op(i) \in Ops, Op(j) \in Ops, NEW stage, Intact(i, j, stage), NEW u \in Units(Op(i))
  PROVE  Bypassed(i, j, stage)[u] = <<j, u>>
<1>1. ~ (Op(j).size > RegUnits /\ Op(i).size < RegUnits) /\ (Op(j).kind = "ldstub" => stage = "complete")
  BY DEF Intact
<1>2. Bypassed(i, j, stage)[u] = StoreData(j, stage, u + 0)
  BY <1>1 DEF Bypassed
<1>3. u + 0 = u
  <2>1. Op(i).offset \in Nat /\ Op(i).size \in Nat
    BY OpFacts, MemoryAccessAssumption
  <2> QED
    BY <2>1 DEF Units
<1> QED
  BY <1>1, <1>2, <1>3 DEF StoreData

LEMMA SettledWriters ==
  ASSUME NEW next, Prepared(next), Settled(next), NEW k \in DOMAIN next, NEW u
  PROVE  WritersIn(inst', k, u) = WritersIn(next, k, u)
<1>1. DOMAIN inst' = DOMAIN next
  BY DEF Settled
<1>2. ASSUME NEW j \in DOMAIN next
      PROVE  inst'[j].op = next[j].op /\ (inst'[j].stage = "fetched" <=> next[j].stage = "fetched")
  <2>1. inst'[j].op = next[j].op
    BY DEF Settled, Prepared
  <2>2. CASE inst'[j] = next[j]
    BY <2>2
  <2>3. CASE WokenUp(j)
    <3>1. next[j] = inst[j] /\ next[j].stage = "lsqWait"
      BY <2>3 DEF Prepared, WokenUp, At
    <3>2. inst'[j].stage \in {"complete", "early"}
      BY <2>3 DEF WokenUp
    <3> QED
      BY <2>1, <3>1, <3>2
  <2> QED
    BY <2>1, <2>2, <2>3 DEF Settled
<1> QED
  BY <1>1, <1>2 DEF WritersIn

\* Who wakes up with the wrong data has been misfed.
LEMMA WokenIntact ==
  ASSUME NEW next, Prepared(next), Settled(next), WokenMisfed \subseteq misfed', NEW k \in DOMAIN next,
         k \notin misfed', WokenUp(k)
  PROVE  Intact(k, inst[k].wait, "complete")
<1>1. k \in InFlight \cap DOMAIN inst' /\ At(k) = "lsqWait" /\ inst'[k].stage # "lsqWait"
  BY DEF Prepared, Settled, WokenUp
<1> QED
  BY <1>1 DEF WokenMisfed

\* Who wakes up takes the data of the closest older store.
LEMMA SettledFresh ==
  ASSUME QueueInv, NEW next, Prepared(next), Settled(next), NEW mem,
         WokenMisfed \subseteq misfed', NEW k \in DOMAIN next, k \notin misfed', Fresh(next, mem, k)
  PROVE  Fresh(inst', mem, k)
<1>1. inst'[k].op = Op(k) /\ next[k].op = Op(k)
  BY DEF Settled, Prepared
<1>2. \A u \in Units(Op(k)) : FreshUnit(next[k], WritersIn(next, k, u), mem[Op(k).line][u], u)
  BY <1>1 DEF Fresh
<1>3. \A u \in Units(Op(k)) : WritersIn(inst', k, u) = WritersIn(next, k, u)
  BY SettledWriters
<1>4. CASE inst'[k] = next[k]
  BY <1>1, <1>2, <1>3, <1>4 DEF Fresh
<1>5. CASE WokenUp(k)
  <2>1. PICK w : w = inst[k].wait
    OBVIOUS
  <2>2. k \in InFlight /\ DOMAIN next \subseteq InFlight
    BY DEF Prepared
  <2>3. At(k) = "lsqWait" /\ next[k] = inst[k]
    BY <1>5 DEF WokenUp, Prepared
  <2>4. w \in InFlight /\ w < k /\ Reads(Op(k)) /\ Writes(Op(w)) /\ At(w) # "fetched" /\ Exact(k, w) /\ At(w) # "complete"
    BY <2>1, <2>2, <2>3 DEF QueueInv, WaitOK, MayWaitFor
  <2>5. w \in DOMAIN next /\ next[w].op = Op(w) /\ next[w].stage # "fetched"
    <3>1. w \in DOMAIN next
      BY <2>4 DEF Prepared
    <3> QED
      BY <2>4, <3>1 DEF Prepared
  <2>6. Op(k) \in Ops /\ Op(w) \in Ops /\ \A j \in InFlight : j \in Nat
    BY <2>2, <2>4, InRange
  <2>7. inst'[k].stage \in {"complete", "early"} /\ inst'[k].value = Bypassed(k, w, "complete")
    BY <1>5, <2>1 DEF WokenUp
  <2>12. Intact(k, w, "complete")
    BY <1>5, <2>1, WokenIntact
  <2>13. inst'[k].value # Nothing
    <3>1. w \in 0 .. LastSeq
      BY <2>4, InRange
    <3>2. inst'[k].value \in [Units(Op(k)) -> Data]
      BY <2>4, <2>6, <2>7, <3>1, BypassedType
    <3> QED
      BY <2>6, <3>2, OpFacts
  <2> SUFFICES ASSUME NEW u \in Units(Op(k))
               PROVE  FreshUnit(inst'[k], WritersIn(next, k, u), mem[Op(k).line][u], u)
    BY <1>1, <1>3 DEF Fresh
  <2>8. w \in WritersIn(next, k, u)
    <3>1. u \in Units(Op(w)) /\ Op(k).line = Op(w).line
      BY <2>4, <2>6, ExactCovers
    <3> QED
      BY <1>1, <2>4, <2>5, <3>1 DEF WritersIn
  <2>9. \A j \in WritersIn(next, k, u) : j <= w
    BY <1>2, <2>1, <2>3 DEF FreshUnit, At
  <2>10. inst'[k].value[u] = <<w, u>>
    BY <2>6, <2>7, <2>12, BypassedIs
  <2>11. ASSUME NEW j \in WritersIn(next, k, u), Newest(WritersIn(next, k, u), j) PROVE j = w
    <3>1. w <= j /\ j <= w
      BY <2>8, <2>9, <2>11 DEF Newest
    <3>2. j \in Nat /\ w \in Nat
      BY <2>2, <2>4, <2>6 DEF WritersIn
    <3> QED
      BY <3>1, <3>2
  <2> QED
    BY <2>7, <2>8, <2>10, <2>11, <2>13 DEF FreshUnit
<1> QED
  BY <1>4, <1>5 DEF Settled

LEMMA SettledReads ==
  ASSUME QueueInv, NEW next, Prepared(next), Settled(next), \A k \in DOMAIN next : ReadOK(next[k])
  PROVE  ReadsOK'
<1> SUFFICES ASSUME NEW k \in DOMAIN next PROVE ReadOK(inst'[k])
  BY DEF ReadsOK, InFlight, Settled
<1>1. CASE inst'[k] = next[k]
  BY <1>1
<1>2. CASE WokenUp(k)
  <2>1. k \in InFlight /\ At(k) = "lsqWait" /\ inst'[k].op = Op(k)
    BY <1>2 DEF Prepared, WokenUp, Settled
  <2>2. PICK w : w = inst[k].wait
    OBVIOUS
  <2>3. w \in InFlight /\ Reads(Op(k)) /\ Exact(k, w)
    BY <2>1, <2>2 DEF QueueInv, WaitOK, MayWaitFor
  <2>4. Op(k) \in Ops /\ Op(w) \in Ops /\ w \in 0 .. LastSeq
    BY <2>1, <2>3, InRange
  <2>5. inst'[k].stage \in {"complete", "early"}
    BY <1>2 DEF WokenUp
  <2>6. inst'[k].value # Nothing
    <3>1. inst'[k].value = Bypassed(k, w, "complete")
      BY <1>2, <2>2 DEF WokenUp
    <3>2. inst'[k].value \in [Units(Op(k)) -> Data]
      BY <2>3, <2>4, <3>1, BypassedType
    <3> QED
      BY <2>4, <3>2, OpFacts
  <2> QED
    BY <2>1, <2>3, <2>5, <2>6 DEF ReadOK
<1> QED
  BY <1>1, <1>2 DEF Settled

LEMMA StaysIssued ==
  ASSUME NEW next, Prepared(next), Settled(next), NEW j \in DOMAIN next, At(j) # "fetched"
  PROVE  inst'[j].stage # "fetched"
<1>1. next[j].stage # "fetched"
  BY DEF Prepared
<1>2. WokenUp(j) => inst'[j].stage \in {"complete", "early"}
  BY DEF WokenUp
<1> QED
  BY <1>1, <1>2 DEF Settled

\* A step of one instruction i, which may begin to depend on an older store.
LEMMA OneStep ==
  ASSUME StaleInv, NEW i \in InFlight, NEW r, NEW next, next = [inst EXCEPT ![i] = r],
         Prepared(next), Settled(next), UNCHANGED <<memory, retired, content, freeList, recent>>,
         misfed \cup WokenMisfed \subseteq misfed',
         ReadOK(r),
         \/ r.depend = inst[i].depend
         \/ \E j \in InFlight : Covered(i, j) /\ r.depend = inst[j].object,
         \A k \in InFlight : Reads(Op(k)) /\ Alive(k)' /\ k \notin misfed' => Fresh(next, memory, k)
  PROVE  HeapSafe' /\ ReadsOK' /\ DependOK' /\ FreshOK'
<1>1. QueueInv
  BY DEF StaleInv
<1>2. DOMAIN next = InFlight /\ next[i] = r /\ \A k \in InFlight : k # i => next[k] = inst[k]
  BY DEF InFlight
<1>3. InFlight' = InFlight
  BY <1>2 DEF Settled, InFlight
<1>4. \A k \in InFlight : inst'[k].op = Op(k) /\ inst'[k].object = inst[k].object /\ inst'[k].depend = next[k].depend
  BY <1>2 DEF Settled
<1>5. HeapSafe'
  <2>1. LiveStores' = LiveStores
    BY <1>1, <1>2, LiveStays
  <2> QED
    BY <2>1 DEF StaleInv, HeapSafe
<1>7. ReadsOK'
  <2>1. \A k \in DOMAIN next : ReadOK(next[k])
    BY <1>2 DEF StaleInv, ReadsOK
  <2> QED
    BY <1>1, <2>1, SettledReads
<1>8. DependOK'
  <2> SUFFICES ASSUME NEW k \in InFlight, k \notin misfed', inst'[k].depend # 0
               PROVE  DependsOn(k)'
    BY <1>3 DEF DependOK
  <2>1. ASSUME NEW j \in InFlight, Covered(k, j), inst[j].object = next[k].depend
        PROVE  DependsOn(k)'
    <3>1. inst'[j].stage # "fetched"
      BY <1>2, <2>1, StaysIssued DEF Covered
    <3>2. Covered(k, j)'
      BY <1>4, <2>1, <3>1 DEF Covered, Exact, SameLine, Op, At
    <3> QED
      BY <1>3, <1>4, <2>1, <3>2 DEF DependsOn
  <2>2. CASE next[k].depend = inst[k].depend
    <3>1. DependsOn(k)
      BY <1>4, <2>2 DEF StaleInv, DependOK
    <3>2. CASE content[inst[k].depend] \in 1 .. retired
      BY <1>4, <2>2, <3>2 DEF DependsOn
    <3> QED
      BY <2>1, <2>2, <3>1, <3>2 DEF DependsOn
  <2> QED
    BY <1>2, <2>1, <2>2
<1>9. FreshOK'
  <2> SUFFICES ASSUME NEW k \in InFlight, Reads(inst'[k].op), Alive(k)', k \notin misfed'
               PROVE  Fresh(inst', memory, k)
    BY <1>3 DEF FreshOK, Op
  <2>1. Fresh(next, memory, k)
    BY <1>4
  <2> QED
    BY <1>1, <1>2, <2>1, SettledFresh
<1> QED
  BY <1>5, <1>7, <1>8, <1>9

\* Where nobody's address becomes known the writers are the same.
LEMMA SameWriters ==
  ASSUME NEW next, DOMAIN next = InFlight,
         \A j \in InFlight : next[j].op = Op(j) /\ (next[j].stage = "fetched" <=> At(j) = "fetched"),
         NEW k \in InFlight, NEW u
  PROVE  WritersIn(next, k, u) = WritersIn(inst, k, u)
BY DEF WritersIn, InFlight, At, Op

LEMMA SameFresh ==
  ASSUME NEW n, NEW m, NEW mem, NEW k, n[k] = m[k], \A u : WritersIn(n, k, u) = WritersIn(m, k, u),
         Fresh(m, mem, k)
  PROVE  Fresh(n, mem, k)
BY DEF Fresh

LEMMA CacheAnswersStale ==
  ASSUME StaleInv, NEW i \in InFlight, CacheAnswers(i)
  PROVE  StaleInv'
<1>1. QueueInv /\ QueueInv'
  BY CacheAnswersKeeps DEF StaleInv
<1>2. PICK r : r = Completed(inst[i], memory)
  OBVIOUS
<1>3. PICK next : next = [inst EXCEPT ![i] = r]
  OBVIOUS
<1>4. /\ At(i) = "cache" /\ Settle(next) /\ UNCHANGED <<memory, retired, exception, heap>>
      /\ misfed' = misfed \cup WokenMisfed
  BY <1>2, <1>3 DEF CacheAnswers
<1>5. PICK e, n : e = inst[i] /\ n = Len(content)
  OBVIOUS
<1>6. EntryOK(e, n) /\ e.op = Op(i) /\ e.stage = "cache"
  BY <1>1, <1>4, <1>5 DEF QueueInv, EntriesOK, Op, At
<1>7. memory \in [0 .. NumLines - 1 -> [0 .. LineUnits - 1 -> 0 .. LastSeq]]
  BY <1>1, InRange DEF QueueInv, MemoryOK, NumbersOK
<1>8. r = Completed(e, memory)
  BY <1>2, <1>5
<1>9. /\ EntryOK(r, n) /\ r.op = Op(i) /\ r.depend = inst[i].depend /\ r.object = inst[i].object
      /\ r.stage = "complete" /\ r.wait = 0
      /\ r.value = IF Reads(Op(i)) /\ e.value = Nothing THEN ReadMemory(memory, Op(i)) ELSE e.value
  <2>1. /\ EntryOK(r, n) /\ r.op = e.op /\ r.depend = e.depend /\ r.object = e.object
        /\ r.stage = "complete" /\ r.wait = 0
        /\ r.value = IF Reads(e.op) /\ e.value = Nothing THEN ReadMemory(memory, e.op) ELSE e.value
    BY <1>6, <1>7, <1>8, CompletedIs
  <2> QED
    BY <1>5, <1>6, <2>1
<1>10. Prepared(next)
  <2>1. At(i) # "lsqWait"
    BY <1>4
  <2> QED
    BY <1>1, <1>3, <1>5, <1>9, <2>1, PreparedOne
<1>11. Settled(next)
  BY <1>1, <1>4, <1>10, Settling
<1>13. ReadOK(r)
  <2>1. Op(i) \in Ops
    BY <1>1, InRange
  <2>2. ReadMemory(memory, Op(i)) # Nothing
    BY <1>7, <2>1, ReadType, OpFacts
  <2>3. ~ Reads(Op(i)) => e.value = Nothing
    BY <1>5, <1>6 DEF StaleInv, ReadsOK, ReadOK
  <2> QED
    BY <1>9, <2>2, <2>3 DEF ReadOK
<1>14. ASSUME NEW k \in InFlight, Reads(Op(k)), Alive(k)', k \notin misfed' PROVE Fresh(next, memory, k)
  <2>1. Fresh(inst, memory, k)
    BY <1>4, <1>14 DEF StaleInv, FreshOK, Alive
  <2>2. ASSUME NEW u PROVE WritersIn(next, k, u) = WritersIn(inst, k, u)
    <3>1. At(i) # "fetched" /\ r.stage # "fetched" /\ r.op = Op(i)
      BY <1>4, <1>9
    <3>2. \A j \in InFlight : next[j].op = Op(j) /\ (next[j].stage = "fetched" <=> At(j) = "fetched")
      BY <1>3, <3>1 DEF InFlight, At, Op
    <3>3. DOMAIN next = InFlight
      BY <1>3 DEF InFlight
    <3> QED
      BY <3>2, <3>3, SameWriters
  <2>3. CASE k # i
    BY <1>3, <2>1, <2>2, <2>3, SameFresh DEF InFlight
  <2>4. CASE k = i
    <3>1. next[k] = r
      BY <1>3, <2>4 DEF InFlight
    <3> SUFFICES ASSUME NEW u \in Units(Op(i))
                 PROVE  FreshUnit(r, WritersIn(inst, i, u), memory[Op(i).line][u], u)
      BY <1>9, <2>2, <2>4, <3>1 DEF Fresh
    <3>2. FreshUnit(e, WritersIn(inst, i, u), memory[Op(i).line][u], u)
      BY <1>5, <1>6, <2>1, <2>4 DEF Fresh
    <3>3. CASE e.value = Nothing
      <4>1. WritersIn(inst, i, u) = {}
        BY <1>6, <3>2, <3>3 DEF FreshUnit
      <4>2. r.value[u] = <<memory[Op(i).line][u], u>>
        BY <1>9, <1>14, <2>4, <3>3 DEF ReadMemory
      <4> QED
        BY <1>9, <4>1, <4>2 DEF FreshUnit
    <3>4. CASE e.value # Nothing
      BY <1>9, <3>2, <3>4 DEF FreshUnit
    <3> QED
      BY <3>3, <3>4
  <2> QED
    BY <2>3, <2>4
<1>15. UNCHANGED <<memory, retired, content, freeList, recent>>
  BY <1>4 DEF heap
<1>16. HeapSafe' /\ ReadsOK' /\ DependOK' /\ FreshOK'
  BY <1>3, <1>4, <1>9, <1>10, <1>11, <1>13, <1>14, <1>15, OneStep
<1> QED
  BY <1>1, <1>16 DEF StaleInv

LEMMA DataArrivesStale ==
  ASSUME StaleInv, NEW i \in InFlight, DataArrives(i)
  PROVE  StaleInv'
<1>1. QueueInv /\ QueueInv'
  BY DataArrivesKeeps DEF StaleInv
<1>2. PICK s : DataWritten(i, s)
  BY <1>1, DataArrivesIs
<1>3. /\ At(i) = "early" /\ UNCHANGED <<memory, retired, exception, heap>>
      /\ misfed' = misfed \cup WokenMisfed \cup {k \in {i} : inst[i].value # Nothing}
  BY DEF DataArrives
<1>4. PICK next : next = [inst EXCEPT ![i] = s]
  OBVIOUS
<1>5. /\ EntryOK(s, Len(content)) /\ s.op = Op(i) /\ s.object = inst[i].object /\ s.depend = inst[i].depend
      /\ s.stage \in {"complete", "cache"} /\ s.wait = 0 /\ Settle(next)
  BY <1>2, <1>4 DEF DataWritten
<1>6. Prepared(next)
  <2>1. At(i) # "lsqWait"
    BY <1>3
  <2> QED
    BY <1>1, <1>4, <1>5, <2>1, PreparedOne
<1>7. Settled(next)
  BY <1>1, <1>5, <1>6, Settling
<1>8. ~ Reads(Op(i)) => inst[i].value = Nothing
  BY DEF StaleInv, ReadsOK, ReadOK, Op
<1>9. ReadOK(s)
  <2>1. Op(i) \in Ops /\ memory \in [0 .. NumLines - 1 -> [0 .. LineUnits - 1 -> 0 .. LastSeq]]
    BY <1>1, InRange DEF QueueInv, MemoryOK, NumbersOK
  <2>2. ReadMemory(memory, Op(i)) # Nothing
    BY <2>1, ReadType, OpFacts
  <2> QED
    BY <1>2, <1>5, <1>8, <2>2 DEF ReadOK, DataWritten
<1>10. ASSUME NEW k \in InFlight, Reads(Op(k)), Alive(k)', k \notin misfed' PROVE Fresh(next, memory, k)
  <2>1. Fresh(inst, memory, k)
    BY <1>3, <1>10 DEF StaleInv, FreshOK, Alive
  <2>2. ASSUME NEW u PROVE WritersIn(next, k, u) = WritersIn(inst, k, u)
    <3>1. At(i) # "fetched" /\ s.stage # "fetched" /\ s.op = Op(i)
      BY <1>3, <1>5
    <3>2. \A j \in InFlight : next[j].op = Op(j) /\ (next[j].stage = "fetched" <=> At(j) = "fetched")
      BY <1>4, <3>1 DEF InFlight, At, Op
    <3>3. DOMAIN next = InFlight
      BY <1>4 DEF InFlight
    <3> QED
      BY <3>2, <3>3, SameWriters
  <2>3. CASE k # i
    BY <1>4, <2>1, <2>2, <2>3, SameFresh DEF InFlight
  <2>4. CASE k = i
    <3>1. PICK e : e = inst[i]
      OBVIOUS
    <3>2. e.value = Nothing /\ e.op = Op(i) /\ e.stage = "early"
      BY <1>3, <1>10, <2>4, <3>1 DEF Op, At
    <3>3. s.value = IF s.stage = "complete" THEN ReadMemory(memory, Op(i)) ELSE Nothing
      BY <1>2, <1>10, <2>4, <3>1, <3>2 DEF DataWritten
    <3>4. next[k] = s
      BY <1>4, <2>4 DEF InFlight
    <3> SUFFICES ASSUME NEW u \in Units(Op(i))
                 PROVE  FreshUnit(s, WritersIn(inst, i, u), memory[Op(i).line][u], u)
      BY <1>5, <2>2, <2>4, <3>4 DEF Fresh
    <3>5. FreshUnit(e, WritersIn(inst, i, u), memory[Op(i).line][u], u)
      BY <2>1, <2>4, <3>1, <3>2 DEF Fresh
    <3>6. WritersIn(inst, i, u) = {}
      BY <3>2, <3>5 DEF FreshUnit
    <3>7. s.stage = "complete" => s.value[u] = <<memory[Op(i).line][u], u>>
      BY <3>3 DEF ReadMemory
    <3>8. s.value # Nothing => s.stage = "complete"
      BY <1>5, <3>3
    <3> QED
      BY <1>5, <3>6, <3>7, <3>8 DEF FreshUnit
  <2> QED
    BY <2>3, <2>4
<1>11. UNCHANGED <<memory, retired, content, freeList, recent>> /\ misfed \cup WokenMisfed \subseteq misfed'
  BY <1>3 DEF heap
<1>12. HeapSafe' /\ ReadsOK' /\ DependOK' /\ FreshOK'
  BY <1>4, <1>5, <1>6, <1>7, <1>9, <1>10, <1>11, OneStep
<1> QED
  BY <1>1, <1>12 DEF StaleInv

\* What a reader finds in the queue, or else in memory, is up to date.
LEMMA IssuedFresh ==
  ASSUME StaleInv, NEW i \in InFlight, At(i) = "fetched", NEW r \in Issued(i, Found(i))
  PROVE  /\ ReadOK(r)
         /\ \/ r.depend = inst[i].depend
            \/ \E j \in InFlight : Covered(i, j) /\ r.depend = inst[j].object
         /\ Reads(Op(i)) /\ FedBy(i, Found(i), r) =>
               \A u \in Units(Op(i)) : FreshUnit(r, WritersIn(inst, i, u), memory[Op(i).line][u], u)
<1>1. QueueInv
  BY DEF StaleInv
<1>2. PICK e, n : e = inst[i] /\ n = Len(content)
  OBVIOUS
<1>3. EntryOK(e, n) /\ e.op = Op(i) /\ e.value = Nothing
  <2>1. ReadOK(e) /\ e.stage = "fetched"
    BY <1>2 DEF StaleInv, ReadsOK, At
  <2>2. e.value = Nothing
    BY <2>1 DEF ReadOK
  <2> QED
    BY <1>1, <1>2, <2>2 DEF QueueInv, EntriesOK, Op
<1>4. memory \in [0 .. NumLines - 1 -> [0 .. LineUnits - 1 -> 0 .. LastSeq]]
  BY <1>1, InRange DEF QueueInv, MemoryOK, NumbersOK
<1>5. Op(i) \in Ops /\ Nothing \notin [Units(Op(i)) -> Data]
  BY <1>1, InRange, OpFacts
<1>6. ASSUME NEW u \in Units(Op(i)), NEW k \in WritersIn(inst, i, u), Reads(Op(i))
      PROVE  k \in InFlight /\ At(k) # "fetched" /\ MayWaitFor(i, k)
  BY <1>6 DEF WritersIn, MayWaitFor, Overlaps, SameLine, InFlight, At, Op
<1>7. CASE Found(i) = 0
  <2>1. r \in Continued(e, memory)
    BY <1>2, <1>7 DEF Issued
  <2>2. /\ r.op = Op(i) /\ r.depend = inst[i].depend
        /\ r.stage \in {"complete", "cache", "early"}
        /\ r.stage = "early" => Op(i).kind \in LateData
        /\ r.value = IF r.stage = "complete" /\ Reads(Op(i)) THEN ReadMemory(memory, Op(i)) ELSE Nothing
    <3>1. /\ r.op = e.op /\ r.depend = e.depend
          /\ r.stage \in {"complete", "cache", "early"}
          /\ r.stage = "early" => e.op.kind \in LateData
          /\ r.value = IF r.stage = "complete" /\ Reads(e.op) /\ e.value = Nothing
                       THEN ReadMemory(memory, e.op) ELSE e.value
      BY <1>3, <1>4, <2>1, ContinuedIs
    <3> QED
      BY <1>2, <1>3, <3>1
  <2>4. ReadOK(r)
    <3>1. ReadMemory(memory, Op(i)) # Nothing
      BY <1>4, <1>5, ReadType
    <3> QED
      BY <2>2, <3>1 DEF ReadOK
  <2>5. ASSUME Reads(Op(i)), NEW u \in Units(Op(i))
        PROVE  FreshUnit(r, WritersIn(inst, i, u), memory[Op(i).line][u], u)
    <3>1. WritersIn(inst, i, u) = {}
      BY <1>1, <1>6, <1>7, <2>5, FoundIs
    <3>2. r.stage = "complete" => r.value[u] = <<memory[Op(i).line][u], u>>
      BY <2>2, <2>5 DEF ReadMemory
    <3>3. r.value # Nothing => r.stage = "complete"
      BY <2>2
    <3> QED
      BY <2>2, <3>1, <3>2, <3>3 DEF FreshUnit
  <2> QED
    BY <2>2, <2>4, <2>5
<1>8. CASE Found(i) # 0
  <2>1. PICK j : j = Found(i)
    OBVIOUS
  <2>2. j \in InFlight /\ MayWaitFor(i, j) /\ At(j) # "fetched"
    BY <1>1, <1>8, <2>1, FoundIs
  <2>3. r \in Depending(i, j)
    BY <1>8, <2>1 DEF Issued
  <2>4. /\ r.op = Op(i)
        /\ \/ /\ ~ Exact(i, j)
              /\ r.stage = "overlap" /\ r.wait = j /\ r.depend = inst[i].depend /\ r.value = inst[i].value
           \/ /\ Exact(i, j) /\ ~ DataValid(j)
              /\ r.stage = "lsqWait" /\ r.wait = j /\ r.depend = inst[j].object /\ r.value = inst[i].value
           \/ /\ Exact(i, j) /\ DataValid(j)
              /\ r.stage = "complete" \/ (r.stage = "early" /\ Op(i).kind \in LateData)
              /\ r.wait = 0 /\ r.depend = inst[j].object /\ r.value = Bypassed(i, j, At(j))
    BY <1>1, <2>2, <2>3, DependingIs
  <2>5. Reads(Op(i)) /\ Writes(Op(j)) /\ j < i /\ Op(j) \in Ops /\ j \in Nat /\ j \in 0 .. LastSeq
    BY <1>1, <2>2, InRange DEF MayWaitFor
  <2>6. Exact(i, j) => Bypassed(i, j, At(j)) # Nothing
    BY <1>5, <2>5, BypassedType
  <2>7. ReadOK(r)
    BY <1>2, <1>3, <2>4, <2>5, <2>6 DEF ReadOK
  <2>8. \/ r.depend = inst[i].depend
        \/ \E k \in InFlight : Covered(i, k) /\ r.depend = inst[k].object
    BY <2>2, <2>4, <2>5 DEF Covered
  <2>9. ASSUME FedBy(i, j, r), NEW u \in Units(Op(i))
        PROVE  FreshUnit(r, WritersIn(inst, i, u), memory[Op(i).line][u], u)
    <3>1. \A k \in WritersIn(inst, i, u) : k <= j /\ k \in Nat
      BY <1>1, <1>6, <2>1, <2>5, FoundIs, InRange
    <3>2. CASE r.stage \in {"overlap", "lsqWait"}
      <4>1. r.wait = j
        BY <2>4, <3>2
      <4>2. r.value = Nothing
        BY <1>2, <1>3, <2>4, <3>2
      <4> QED
        BY <3>1, <3>2, <4>1, <4>2 DEF FreshUnit
    <3>3. CASE r.stage \in {"complete", "early"}
      <4>1. Exact(i, j) /\ r.value = Bypassed(i, j, At(j))
        BY <2>4, <3>3
      <4>6. Intact(i, j, At(j))
        BY <1>8, <2>1, <2>6, <2>9, <4>1 DEF FedBy
      <4>2. r.value[u] = <<j, u>>
        BY <1>5, <2>5, <4>1, <4>6, BypassedIs
      <4>3. Op(i).line = Op(j).line /\ u \in Units(Op(j))
        BY <1>5, <2>5, <4>1, ExactCovers
      <4>4. j \in WritersIn(inst, i, u)
        BY <2>2, <2>5, <4>3 DEF WritersIn, InFlight, At, Op
      <4>5. ASSUME NEW k \in WritersIn(inst, i, u), Newest(WritersIn(inst, i, u), k) PROVE k = j
        <5>1. j <= k /\ k <= j /\ k \in Nat
          BY <3>1, <4>4, <4>5 DEF Newest
        <5> QED
          BY <2>5, <5>1
      <4> QED
        BY <2>6, <3>3, <4>1, <4>2, <4>4, <4>5 DEF FreshUnit
    <3>4. r.stage \in {"overlap", "lsqWait", "complete", "early"}
      BY <2>4
    <3> QED
      BY <3>2, <3>3, <3>4
  <2> QED
    BY <2>1, <2>7, <2>8, <2>9
<1> QED
  BY <1>7, <1>8

\* A store between an instruction and the one it depends on hides behind the latter.
LEMMA HiddenWriter ==
  ASSUME NEW r, NEW unit, NEW u, NEW writers \in SUBSET Nat, NEW i \in Nat, NEW j \in writers, i < j, r.wait \in Nat,
         FreshUnit(r, writers, unit, u)
  PROVE  FreshUnit(r, writers \cup {i}, unit, u)
<1> DEFINE more == writers \cup {i}
<1>1. j \in Nat /\ writers # {} /\ more # {}
  OBVIOUS
<1>2. r.stage \in {"lsqWait", "overlap"} => \A k \in more : k <= r.wait
  <2> SUFFICES ASSUME r.stage \in {"lsqWait", "overlap"}, NEW k \in more, k = i PROVE k <= r.wait
    BY DEF FreshUnit
  <2>1. j <= r.wait
    BY DEF FreshUnit
  <2> QED
    BY <1>1, <2>1
<1>3. ~ (r.stage \in {"early", "cache"} /\ r.value = Nothing)
  BY <1>1 DEF FreshUnit
<1>4. ASSUME r.value # Nothing, NEW k \in more, Newest(more, k) PROVE r.value[u] = <<k, u>>
  <2>1. j <= k /\ k \in Nat
    BY <1>4 DEF Newest
  <2>2. k \in writers /\ Newest(writers, k)
    BY <1>1, <1>4, <2>1 DEF Newest
  <2> QED
    BY <1>4, <2>2 DEF FreshUnit
<1> QED
  BY <1>1, <1>2, <1>3, <1>4 DEF FreshUnit

LEMMA MisspeculatedIn ==
  ASSUME QueueInv, NEW i \in InFlight
  PROVE  /\ Misspeculated(i) \subseteq InFlight
         /\ \A k \in InFlight :
               /\ At(k) # "fetched" /\ k > i /\ Reads(Op(k)) /\ Overlaps(i, k)
               /\ inst[k].depend = 0 \/ i > DependSeq(k)
               => k \in Misspeculated(i)
<1>1. BucketOf(Op(i)) \in 0 .. Buckets - 1
  BY InRange, BucketFacts
<1>2. ToSet(lsq[BucketOf(Op(i))]) = {k \in InFlight : At(k) # "fetched" /\ BucketOf(Op(k)) = BucketOf(Op(i))}
  BY <1>1 DEF QueueInv, QueueOK, QueueInProgramOrder
<1>3. ASSUME NEW k \in InFlight, Overlaps(i, k) PROVE BucketOf(Op(k)) = BucketOf(Op(i))
  BY <1>3 DEF Overlaps, SameLine, BucketOf
<1> QED
  BY <1>2, <1>3 DEF Misspeculated

\* A younger reader of the store's units that is neither replayed nor yet to execute
\* depends on a store between the two that covers it.
LEMMA SparedIs ==
  ASSUME StaleInv, NEW i \in InFlight, At(i) = "fetched", NEW k \in InFlight, k \notin misfed, k \notin Misspeculated(i),
         At(k) # "fetched", k > i, Reads(Op(k)), Overlaps(i, k)
  PROVE  \E j \in InFlight : i < j /\ j < k /\ Writes(Op(j)) /\ At(j) # "fetched" /\ Exact(k, j)
<1>1. QueueInv
  BY DEF StaleInv
<1>2. inst[k].depend # 0 /\ ~ (i > DependSeq(k))
  BY <1>1, MisspeculatedIn
<1>3. i \in Nat /\ retired \in Nat /\ k \in Nat /\ i > retired
  BY <1>1, InRange DEF QueueInv, NumbersOK
<1>4. DependsOn(k)
  BY <1>2 DEF StaleInv, DependOK
<1>5. CASE content[inst[k].depend] \in 1 .. retired
  BY <1>2, <1>3, <1>5 DEF DependSeq
<1>6. ASSUME NEW j \in InFlight, Covered(k, j), inst[j].object = inst[k].depend
      PROVE  i < j
  <2>1. PICK d : d = [seq |-> j, pool |-> Pool(inst[j].op), object |-> inst[j].object]
    OBVIOUS
  <2>2. d \in ObjectsIn(inst, InFlight)
    BY <1>6, <2>1, ObjectsMember DEF Op, Covered
  <2>3. d \in LiveStores
    BY <2>2, LiveIs
  <2>4. content[d.object] = d.seq
    BY <2>3 DEF StaleInv, HeapSafe, HeapSound
  <2>5. DependSeq(k) = j
    BY <1>6, <2>1, <2>4 DEF DependSeq
  <2>6. i # j /\ j \in Nat
    BY <1>1, <1>6, InRange DEF Covered
  <2> QED
    BY <1>2, <1>3, <2>5, <2>6
<1> QED
  BY <1>4, <1>5, <1>6 DEF DependsOn, Covered

LEMMA ExecuteStale ==
  ASSUME StaleInv, NEW i \in InFlight, Execute(i)
  PROVE  StaleInv'
<1>1. QueueInv /\ QueueInv'
  BY ExecuteKeeps DEF StaleInv
<1>2. PICK r \in Issued(i, Found(i)) :
          /\ Settle([inst EXCEPT ![i] = r])
          /\ misfed \cup WokenMisfed \subseteq misfed'
          /\ i \in misfed' \/ FedBy(i, Found(i), r)
  BY <1>1, ExecuteSettles
<1>3. PICK next : next = [inst EXCEPT ![i] = r]
  OBVIOUS
<1>4. At(i) = "fetched" /\ UNCHANGED <<memory, retired, heap>>
  BY DEF Execute
<1>5. Prepared(next) /\ r.stage # "fetched" /\ r.op = Op(i)
  BY <1>1, <1>3, <1>4, IssuedIs, PreparedOne
<1>6. Settled(next)
  BY <1>1, <1>2, <1>3, <1>5, Settling
<1>7. /\ ReadOK(r)
      /\ \/ r.depend = inst[i].depend
         \/ \E j \in InFlight : Covered(i, j) /\ r.depend = inst[j].object
  BY <1>4, IssuedFresh
<1>8. Reads(Op(i)) /\ i \notin misfed' =>
         \A u \in Units(Op(i)) : FreshUnit(r, WritersIn(inst, i, u), memory[Op(i).line][u], u)
  BY <1>2, <1>4, IssuedFresh
<1>9. /\ DOMAIN next = InFlight /\ next[i] = r /\ \A k \in InFlight : k # i => next[k] = inst[k]
      /\ \A j \in InFlight : next[j].op = Op(j)
  BY <1>3, <1>5 DEF InFlight, Op
<1>10. \A j \in InFlight : j \in Nat /\ Op(j) \in Ops
  BY <1>1, InRange
<1>11. ASSUME NEW k \in InFlight, NEW u, ~ (i < k /\ Writes(Op(i)) /\ Op(k).line = Op(i).line /\ u \in Units(Op(i)))
       PROVE  WritersIn(next, k, u) = WritersIn(inst, k, u)
  BY <1>4, <1>9, <1>11 DEF WritersIn, InFlight, At, Op
<1>12. ASSUME NEW k \in InFlight, Alive(k)'
       PROVE  Alive(k) /\ (Writes(Op(i)) => k \notin Misspeculated(i))
  <2>1. PICK victims : victims = Misspeculated(i)
    OBVIOUS
  <2>2. victims \in SUBSET InFlight
    BY <1>1, <2>1, MisspeculatedIn
  <2>3. exception' = IF Writes(Op(i)) /\ victims # {} THEN Raised(victims) ELSE exception
    BY <2>1 DEF Execute
  <2>4. exception \in Nat
    BY <1>1, <1>10 DEF QueueInv, NumbersOK
  <2>5. CASE Writes(Op(i)) /\ victims # {}
    <3>1. PICK x : x = Raised(victims)
      OBVIOUS
    <3>2. x \in InFlight /\ (\A y \in victims : x <= y) /\ (exception # 0 => x <= exception)
      BY <1>1, <2>2, <2>5, <3>1, RaisedIs
    <3>3. x \in Nat /\ x # 0 /\ exception' = x /\ k \in Nat
      BY <1>1, <1>10, <2>3, <2>5, <3>1, <3>2, InRange
    <3>4. k < x
      BY <1>12, <3>3 DEF Alive
    <3>5. Alive(k)
      BY <2>4, <3>2, <3>3, <3>4 DEF Alive
    <3>6. k \notin victims
      BY <3>2, <3>3, <3>4
    <3> QED
      BY <2>1, <3>5, <3>6
  <2>6. CASE ~ (Writes(Op(i)) /\ victims # {})
    BY <1>12, <2>1, <2>3, <2>6 DEF Alive
  <2> QED
    BY <2>5, <2>6
<1>13. ASSUME NEW k \in InFlight, Reads(Op(k)), Alive(k)', k \notin misfed' PROVE Fresh(next, memory, k)
  <2>1. CASE k = i
    <3>1. \A u : WritersIn(next, i, u) = WritersIn(inst, i, u)
      BY <1>10, <1>11
    <3> QED
      BY <1>8, <1>9, <1>13, <2>1, <3>1 DEF Fresh
  <2>2. CASE k # i /\ At(k) = "fetched"
    <3>1. next[k].stage = "fetched" /\ next[k].value = Nothing
      <4>1. ReadOK(inst[k]) /\ Reads(inst[k].op) /\ inst[k].stage = "fetched"
        BY <1>13, <2>2 DEF StaleInv, ReadsOK, At, Op
      <4>2. inst[k].value = Nothing
        BY <4>1 DEF ReadOK
      <4> QED
        BY <1>9, <2>2, <4>1, <4>2
    <3> QED
      BY <3>1 DEF Fresh, FreshUnit
  <2>3. CASE k # i /\ At(k) # "fetched"
    <3>1. next[k] = inst[k] /\ inst[k].op = Op(k)
      BY <1>9, <2>3 DEF Op
    <3>2. Fresh(inst, memory, k)
      BY <1>2, <1>12, <1>13 DEF StaleInv, FreshOK
    <3> SUFFICES ASSUME NEW u \in Units(Op(k))
                 PROVE  FreshUnit(inst[k], WritersIn(next, k, u), memory[Op(k).line][u], u)
      BY <3>1 DEF Fresh
    <3>3. FreshUnit(inst[k], WritersIn(inst, k, u), memory[Op(k).line][u], u)
      BY <3>1, <3>2 DEF Fresh
    <3>4. CASE ~ (i < k /\ Writes(Op(i)) /\ Op(k).line = Op(i).line /\ u \in Units(Op(i)))
      BY <1>11, <3>3, <3>4
    <3>5. CASE i < k /\ Writes(Op(i)) /\ Op(k).line = Op(i).line /\ u \in Units(Op(i))
      <4>1. Overlaps(i, k)
        BY <3>5 DEF Overlaps, SameLine
      <4>2. k > i /\ k \notin Misspeculated(i)
        BY <1>10, <1>12, <1>13, <3>5
      <4>3. PICK j \in InFlight : i < j /\ j < k /\ Writes(Op(j)) /\ At(j) # "fetched" /\ Exact(k, j)
        BY <1>2, <1>4, <1>13, <2>3, <4>1, <4>2, SparedIs
      <4>4. Op(k).line = Op(j).line /\ u \in Units(Op(j))
        BY <1>10, <4>3, ExactCovers
      <4>5. PICK writers, unit : writers = WritersIn(inst, k, u) /\ unit = memory[Op(k).line][u]
        OBVIOUS
      <4>6. j \in writers
        BY <4>3, <4>4, <4>5 DEF WritersIn, InFlight, At, Op
      <4>7. writers \in SUBSET Nat
        BY <1>10, <4>5 DEF WritersIn, InFlight
      <4>8. WritersIn(next, k, u) = writers \cup {i}
        <5>1. r.stage # "fetched" /\ r.op = Op(i)
          BY <1>5
        <5> QED
          BY <1>4, <1>9, <3>5, <4>5, <5>1 DEF WritersIn, InFlight, At, Op
      <4>9. PICK e : e = inst[k]
        OBVIOUS
      <4>10. e.wait \in Nat
        BY <1>1, <4>9 DEF QueueInv, EntriesOK, EntryOK, Instruction
      <4>11. FreshUnit(e, writers \cup {i}, unit, u)
        BY <1>10, <3>3, <4>3, <4>5, <4>6, <4>7, <4>9, <4>10, HiddenWriter
      <4> QED
        BY <4>5, <4>8, <4>9, <4>11
    <3> QED
      BY <3>4, <3>5
  <2> QED
    BY <2>1, <2>2, <2>3
<1>14. UNCHANGED <<memory, retired, content, freeList, recent>>
  BY <1>4 DEF heap
<1>15. HeapSafe' /\ ReadsOK' /\ DependOK' /\ FreshOK'
  BY <1>2, <1>3, <1>5, <1>6, <1>7, <1>13, <1>14, OneStep
<1> QED
  BY <1>1, <1>15 DEF StaleInv

LEMMA FetchStale ==
  ASSUME StaleInv, NEW op \in Ops, Fetch(op)
  PROVE  StaleInv'
<1>1. QueueInv /\ QueueInv'
  BY FetchKeeps DEF StaleInv
<1>2. PICK i : i = Fetched + 1
  OBVIOUS
<1>3. /\ i \in Nat /\ i \notin InFlight /\ InFlight' = InFlight \cup {i} /\ Fetched' = i
      /\ i <= retired + Window
      /\ inst'[i].stage = "fetched" /\ inst'[i].depend = 0 /\ inst'[i].value = Nothing
      /\ \A j \in InFlight : inst'[j] = inst[j]
      /\ UNCHANGED <<memory, retired, exception, recent>>
  BY <1>1, <1>2, FetchIs
<1>4. HeapSafe'
  BY <1>1, FetchHeap DEF StaleInv
<1>6. ReadsOK'
  BY <1>3 DEF StaleInv, ReadsOK, ReadOK
<1>5. ASSUME NEW k \in InFlight, k \notin misfed', inst[k].depend # 0
      PROVE  content'[inst[k].depend] = content[inst[k].depend]
  <2>1. PICK object, d : object = NewObject(op) /\ d = inst[k].depend
    OBVIOUS
  <2>2. CASE Writes(op)
    <3>1. Allocated(op, i)
      BY <1>1, <1>2, <2>2, FetchIs
    <3>2. d # object
      BY <1>5, <2>1, <2>2 DEF Fetch
    <3>3. \A o \in 1 .. Len(content) : o # object => content'[o] = content[o]
      BY <1>1, <1>3, <2>1, <3>1, AllocatedIs
    <3>4. d \in 1 .. Len(content)
      BY <1>1, <1>5, <2>1 DEF QueueInv, EntriesOK, EntryOK
    <3> QED
      BY <2>1, <3>2, <3>3, <3>4
  <2>3. CASE ~ Writes(op)
    BY <1>1, <1>2, <2>3, FetchIs DEF heap
  <2> QED
    BY <2>2, <2>3
<1>9. misfed \subseteq misfed'
  BY DEF Fetch
<1>7. DependOK'
  <2> SUFFICES ASSUME NEW k \in InFlight, k \notin misfed', inst'[k].depend # 0 PROVE DependsOn(k)'
    BY <1>3 DEF DependOK
  <2>1. DependsOn(k)
    BY <1>3, <1>9 DEF StaleInv, DependOK
  <2>2. ASSUME NEW j \in InFlight, Covered(k, j), inst[j].object = inst[k].depend
        PROVE  DependsOn(k)'
    BY <1>3, <2>2 DEF DependsOn, Covered, Exact, SameLine, Op, At
  <2>3. CASE content[inst[k].depend] \in 1 .. retired
    BY <1>3, <1>5, <2>3 DEF DependsOn
  <2> QED
    BY <2>1, <2>2, <2>3 DEF DependsOn
<1>8. FreshOK'
  <2> SUFFICES ASSUME NEW k \in InFlight', Reads(inst'[k].op), Alive(k)', k \notin misfed'
               PROVE  Fresh(inst', memory, k)
    BY <1>3 DEF FreshOK, Op
  <2>1. CASE k = i
    BY <1>3, <2>1 DEF Fresh, FreshUnit
  <2>2. CASE k \in InFlight
    <3>1. Fresh(inst, memory, k)
      BY <1>3, <1>9, <2>2 DEF StaleInv, FreshOK, Alive, Op
    <3>2. \A u : WritersIn(inst', k, u) = WritersIn(inst, k, u)
      BY <1>3, <2>2 DEF WritersIn, InFlight
    <3>3. inst'[k] = inst[k]
      BY <1>3, <2>2
    <3> QED
      BY <3>1, <3>2, <3>3, SameFresh
  <2> QED
    BY <1>3, <2>1, <2>2
<1> QED
  BY <1>1, <1>4, <1>6, <1>7, <1>8 DEF StaleInv

LEMMA MispredictStale ==
  ASSUME StaleInv, NEW k \in InFlight, Mispredict(k)
  PROVE  StaleInv'
<1>1. QueueInv /\ QueueInv'
  BY MispredictKeeps DEF StaleInv
<1>2. UNCHANGED <<memory, retired, misfed, inst, content, freeList, recent>> /\ exception' = Raised({k})
  BY DEF Mispredict, heap
<1>3. HeapSafe' /\ ReadsOK' /\ DependOK'
  BY <1>2 DEF StaleInv, HeapSafe, LiveStores, Objects, InFlight, ReadsOK, DependOK, DependsOn, Covered,
              Exact, SameLine, Op, At
<1>4. ASSUME NEW j \in InFlight, Alive(j)' PROVE Alive(j)
  <2>1. PICK x, victims : victims = {k} /\ x = Raised(victims)
    OBVIOUS
  <2>2. x \in InFlight /\ (exception # 0 => x <= exception)
    BY <1>1, <2>1, RaisedIs
  <2>3. x \in Nat /\ x # 0 /\ exception' = x /\ j \in Nat
    BY <1>1, <1>2, <2>1, <2>2, InRange
  <2>4. exception \in Nat
    BY <1>1, InRange DEF QueueInv, NumbersOK
  <2> QED
    BY <1>4, <2>2, <2>3, <2>4 DEF Alive
<1>5. FreshOK'
  <2> SUFFICES ASSUME NEW j \in InFlight, Reads(Op(j)), Alive(j)', j \notin misfed PROVE Fresh(inst, memory, j)
    BY <1>2 DEF FreshOK, Op, InFlight
  <2> QED
    BY <1>4 DEF StaleInv, FreshOK
<1> QED
  BY <1>1, <1>3, <1>5 DEF StaleInv

LEMMA RecoverStale ==
  ASSUME StaleInv, Recover
  PROVE  StaleInv'
<1>1. QueueInv /\ QueueInv'
  BY RecoverKeeps DEF StaleInv
<1>2. PICK squashed : squashed = exception .. Fetched
  OBVIOUS
<1>3. /\ InFlight' \subseteq InFlight
      /\ \A i \in InFlight : i \in InFlight' <=> i < exception
      /\ \A i \in InFlight' : inst'[i] = inst[i]
      /\ Fetched' <= Fetched
      /\ exception # 0 /\ exception' = 0
      /\ UNCHANGED <<memory, retired, content, recent>>
  BY <1>1, <1>2, RecoverIs
<1>12. \A i \in InFlight' : i \in misfed => i \in misfed'
  <2>1. misfed' = misfed \ squashed /\ InFlight' = InFlight \ squashed
    BY <1>1, <1>2, RecoverIs DEF Recover
  <2> QED
    BY <2>1
<1>4. HeapSafe'
  BY <1>1, RecoverHeap DEF StaleInv
<1>5. \A i \in InFlight : i \in Nat
  BY <1>1, InRange
<1>6. exception \in Nat
  BY <1>1, <1>5 DEF QueueInv, NumbersOK
<1>7. ASSUME NEW k \in InFlight', NEW j \in InFlight, j < k PROVE j \in InFlight'
  <2>1. k < exception /\ k \in Nat /\ j \in Nat
    BY <1>3, <1>5
  <2> QED
    BY <1>3, <1>6, <1>7, <2>1
<1>9. ReadsOK'
  BY <1>3 DEF StaleInv, ReadsOK
<1>10. DependOK'
  <2> SUFFICES ASSUME NEW k \in InFlight', k \notin misfed', inst'[k].depend # 0 PROVE DependsOn(k)'
    BY <1>3 DEF DependOK
  <2>1. DependsOn(k)
    BY <1>3, <1>12 DEF StaleInv, DependOK
  <2>2. ASSUME NEW j \in InFlight, Covered(k, j), inst[j].object = inst[k].depend
        PROVE  DependsOn(k)'
    <3>1. j \in InFlight'
      BY <1>7, <2>2 DEF Covered
    <3> QED
      BY <1>3, <2>2, <3>1 DEF DependsOn, Covered, Exact, SameLine, Op, At
  <2>3. CASE content[inst[k].depend] \in 1 .. retired
    BY <1>3, <2>3 DEF DependsOn
  <2> QED
    BY <2>1, <2>2, <2>3 DEF DependsOn
<1>11. FreshOK'
  <2> SUFFICES ASSUME NEW k \in InFlight', Reads(inst'[k].op), k \notin misfed' PROVE Fresh(inst', memory, k)
    BY <1>3 DEF FreshOK, Op
  <2>1. Fresh(inst, memory, k)
    BY <1>3, <1>12 DEF StaleInv, FreshOK, Alive, Op
  <2>2. \A u : WritersIn(inst', k, u) = WritersIn(inst, k, u)
    BY <1>3, <1>7 DEF WritersIn, InFlight
  <2>3. inst'[k] = inst[k]
    BY <1>3
  <2> QED
    BY <2>1, <2>2, <2>3, SameFresh
<1> QED
  BY <1>1, <1>4, <1>9, <1>10, <1>11 DEF StaleInv

\* What a unit holds after op of instruction i, where it held unit before.
WrittenBy(op, other, i, u, unit) == IF Writes(op) /\ op.line = other.line /\ u \in Units(op) THEN i ELSE unit

\* A retirement changes the units that its instruction writes.
LEMMA WrittenUnit ==
  ASSUME NEW op \in Ops, NEW other \in Ops, NEW i, NEW u \in Units(other),
         NEW mem, other.line \in DOMAIN mem,
         NEW new, new = WriteMemory(mem, op, i)
  PROVE  new[other.line][u] = WrittenBy(op, other, i, u, mem[other.line][u])
<1>1. op.line \in 0 .. NumLines - 1 /\ other.line \in 0 .. NumLines - 1 /\ u \in 0 .. LineUnits - 1
  BY OpFacts
<1>2. CASE Writes(op)
  <2> DEFINE line == [v \in 0 .. LineUnits - 1 |-> IF v \in Units(op) THEN i ELSE mem[op.line][v]]
  <2>1. line[u] = IF u \in Units(op) THEN i ELSE mem[op.line][u]
    BY <1>1
  <2>2. WriteMemory(mem, op, i) = [mem EXCEPT ![op.line] = line]
    BY <1>2 DEF WriteMemory
  <2> HIDE DEF line
  <2>3. WriteMemory(mem, op, i)[other.line] = IF op.line = other.line THEN line ELSE mem[other.line]
    BY <1>1, <2>2
  <2> QED
    BY <1>2, <2>1, <2>3 DEF WrittenBy
<1>3. CASE ~ Writes(op)
  BY <1>3 DEF WriteMemory, WrittenBy
<1> QED
  BY <1>2, <1>3 DEF WrittenBy

\* The oldest writer leaves, and memory has what it wrote.
LEMMA OldestRetires ==
  ASSUME NEW r, NEW writers \in SUBSET Nat, NEW i \in Nat, \A j \in writers : i <= j, NEW unit, NEW u,
         FreshUnit(r, writers, unit, u)
  PROVE  FreshUnit(r, writers \ {i}, IF i \in writers THEN i ELSE unit, u)
<1> DEFINE rest == writers \ {i}
           now == IF i \in writers THEN i ELSE unit
<1>1. r.stage \in {"lsqWait", "overlap"} => \A j \in rest : j <= r.wait
  BY DEF FreshUnit
<1>2. r.stage \in {"early", "cache"} /\ r.value = Nothing => rest = {}
  BY DEF FreshUnit
<1>3. ASSUME r.value # Nothing, rest = {} PROVE r.value[u] = <<now, u>>
  <2>1. CASE i \in writers
    <3>1. Newest(writers, i)
      BY <1>3, <2>1 DEF Newest
    <3> QED
      BY <1>3, <2>1, <3>1 DEF FreshUnit
  <2>2. CASE i \notin writers
    <3>1. writers = {}
      BY <1>3, <2>2
    <3> QED
      BY <1>3, <2>2, <3>1 DEF FreshUnit
  <2> QED
    BY <2>1, <2>2
<1>4. ASSUME r.value # Nothing, NEW j \in rest, Newest(rest, j) PROVE r.value[u] = <<j, u>>
  <2>1. Newest(writers, j)
    BY <1>4 DEF Newest
  <2> QED
    BY <1>4, <2>1 DEF FreshUnit
<1> HIDE DEF rest, now
<1>5. FreshUnit(r, rest, now, u)
  BY <1>1, <1>2, <1>3, <1>4 DEF FreshUnit
<1> QED
  BY <1>5 DEF rest, now

LEMMA RetireStale ==
  ASSUME StaleInv, Retire
  PROVE  StaleInv'
<1>1. QueueInv /\ QueueInv'
  BY RetireKeeps DEF StaleInv
<1>2. PICK i, mem : i = retired + 1 /\ mem = WriteMemory(memory, Op(i), i)
  OBVIOUS
<1>3. /\ i \in InFlight /\ exception = 0 /\ exception' = 0 /\ At(i) = "complete"
      /\ memory' = mem /\ retired' = i
      /\ mem \in [0 .. NumLines - 1 -> [0 .. LineUnits - 1 -> 0 .. LastSeq]]
      /\ Remembered(i)
      /\ InFlight' = InFlight \ {i} /\ Fetched' = Fetched
  BY ONLY <1>1, <1>2, Retire, RetireIs
<1>13. \A k \in InFlight \ {i} : k \notin misfed' => k \notin misfed
  BY <1>2 DEF Retire
<1>14. WokenMisfed \subseteq misfed'
  BY DEF Retire
<1>4. PICK next :
          /\ Prepared(next) /\ Settled(next) /\ DOMAIN next = InFlight \ {i}
          /\ \A k \in InFlight \ {i} :
                \/ At(k) = "overlap" /\ inst[k].wait = i /\ next[k] \in Continued(inst[k], mem)
                \/ ~ (At(k) = "overlap" /\ inst[k].wait = i) /\ next[k] = inst[k]
  <2>1. \E next : Resuming(next, i, mem)
    BY ONLY <1>1, <1>2, Retire, RetireIs
  <2> QED
    BY <2>1 DEF Resuming
<1>5. /\ \A k \in InFlight : k \in Nat /\ Op(k) \in Ops /\ i <= k
      /\ i \in Nat /\ retired \in Nat /\ Fetched \in Nat /\ Window \in Nat /\ RecentRetired \in Nat
  BY <1>1, <1>2, <1>3, InRange, LoadStoreQueueAssumption DEF QueueInv, NumbersOK
<1>6. PICK n : n = Len(content)
  OBVIOUS
<1>7. ASSUME NEW k \in InFlight \ {i}, next[k] # inst[k]
      PROVE  /\ At(k) = "overlap" /\ inst[k].wait = i /\ Reads(Op(k))
             /\ next[k].depend = inst[k].depend
             /\ next[k].stage \in {"complete", "cache", "early"}
             /\ next[k].value = IF next[k].stage = "complete" THEN ReadMemory(mem, Op(k)) ELSE Nothing
  <2>1. At(k) = "overlap" /\ inst[k].wait = i /\ next[k] \in Continued(inst[k], mem)
    BY <1>4, <1>7
  <2>2. PICK e, s : e = inst[k] /\ s = next[k]
    OBVIOUS
  <2>3. EntryOK(e, n) /\ e.op = Op(k) /\ e.stage = "overlap" /\ s \in Continued(e, mem)
    BY <1>1, <1>6, <2>1, <2>2 DEF QueueInv, EntriesOK, Op, At
  <2>4. Reads(Op(k))
    BY <1>1, <2>1 DEF QueueInv, WaitOK, MayWaitFor
  <2>5. e.value = Nothing
    BY <2>2, <2>3, <2>4 DEF StaleInv, ReadsOK, ReadOK
  <2>6. /\ s.depend = e.depend
        /\ s.stage \in {"complete", "cache", "early"}
        /\ s.stage = "early" => e.op.kind \in LateData
        /\ s.value = IF s.stage = "complete" /\ Reads(e.op) /\ e.value = Nothing
                      THEN ReadMemory(mem, e.op) ELSE e.value
    BY <1>3, <2>3, ContinuedIs
  <2> QED
    BY <2>1, <2>2, <2>3, <2>4, <2>5, <2>6
<1>8. HeapSafe'
  BY <1>1, RetireHeap DEF StaleInv
<1>10. ReadsOK'
  <2>1. ASSUME NEW k \in DOMAIN next PROVE ReadOK(next[k])
    <3>1. CASE next[k] = inst[k]
      BY <1>4, <3>1 DEF StaleInv, ReadsOK
    <3>2. CASE next[k] # inst[k]
      <4>1. next[k].op = Op(k) /\ Op(k) \in Ops /\ k \in InFlight \ {i}
        BY <1>4, <1>5 DEF Prepared
      <4>2. ReadMemory(mem, Op(k)) # Nothing
        BY <1>3, <4>1, ReadType, OpFacts
      <4> QED
        BY <1>7, <3>2, <4>1, <4>2 DEF ReadOK
    <3> QED
      BY <3>1, <3>2
  <2> QED
    BY <1>1, <1>4, <2>1, SettledReads
<1>11. FreshOK'
  <2> SUFFICES ASSUME NEW k \in InFlight \ {i}, Reads(inst'[k].op), k \notin misfed'
               PROVE  Fresh(next, mem, k)
    BY <1>1, <1>3, <1>4, <1>14, SettledFresh DEF FreshOK, Op
  <2>1. next[k].op = Op(k) /\ Reads(Op(k)) /\ Op(k) \in Ops /\ Op(i) \in Ops
    BY <1>3, <1>4, <1>5 DEF Prepared, Settled
  <2>2. Fresh(inst, memory, k)
    BY <1>3, <1>13, <2>1 DEF StaleInv, FreshOK, Alive
  <2> SUFFICES ASSUME NEW u \in Units(Op(k))
               PROVE  FreshUnit(next[k], WritersIn(next, k, u), mem[Op(k).line][u], u)
    BY <2>1 DEF Fresh
  <2>3. PICK writers, unit : writers = WritersIn(inst, k, u) /\ unit = memory[Op(k).line][u]
    OBVIOUS
  <2>4. FreshUnit(inst[k], writers, unit, u)
    BY <2>2, <2>3 DEF Fresh, Op
  <2>5. writers \in SUBSET Nat /\ \A j \in writers : i <= j
    BY <1>5, <2>3 DEF WritersIn, InFlight
  <2>6. WritersIn(next, k, u) = writers \ {i}
    <3>1. ASSUME NEW j \in DOMAIN next
          PROVE  next[j].op = inst[j].op /\ (next[j].stage = "fetched" <=> inst[j].stage = "fetched")
      <4>1. next[j].op = inst[j].op
        BY <1>4 DEF Prepared, Op
      <4>2. CASE next[j] = inst[j]
        BY <4>2
      <4>3. CASE next[j] # inst[j]
        <5>1. next[j].stage \in {"complete", "cache", "early"} /\ inst[j].stage = "overlap"
          BY <1>4, <1>7, <4>3 DEF At
        <5> QED
          BY <4>1, <5>1
      <4> QED
        BY <4>1, <4>2, <4>3
    <3> QED
      BY <1>4, <2>3, <3>1 DEF WritersIn, InFlight
  <2>7. mem[Op(k).line][u] = IF i \in writers THEN i ELSE unit
    <3>1. memory \in [0 .. NumLines - 1 -> [0 .. LineUnits - 1 -> 0 .. retired]]
      BY <1>1 DEF QueueInv, MemoryOK
    <3>2. mem[Op(k).line][u] = IF Writes(Op(i)) /\ Op(i).line = Op(k).line /\ u \in Units(Op(i)) THEN i ELSE unit
      <4>1. PICK op, other : op = Op(i) /\ other = Op(k)
        OBVIOUS
      <4>2. /\ op \in Ops /\ other \in Ops /\ u \in Units(other) /\ retired \in Nat
            /\ mem = WriteMemory(memory, op, i) /\ unit = memory[other.line][u]
        BY <1>2, <1>5, <2>1, <2>3, <4>1
      <4>3. mem[other.line][u] = IF Writes(op) /\ op.line = other.line /\ u \in Units(op) THEN i ELSE unit
        <5>1. PICK old : old = memory
          OBVIOUS
        <5>2. other.line \in DOMAIN old /\ unit = old[other.line][u] /\ mem = WriteMemory(old, op, i)
          <6>1. other.line \in 0 .. NumLines - 1
            BY <4>2, OpFacts
          <6> QED
            BY <3>1, <4>2, <5>1, <6>1
        <5>3. mem[other.line][u] = WrittenBy(op, other, i, u, old[other.line][u])
          BY ONLY <4>2, <5>2, WrittenUnit
        <5> QED
          BY <5>2, <5>3 DEF WrittenBy
      <4> QED
        BY <4>1, <4>3
    <3>3. i < k
      BY <1>5
    <3>4. i \in writers <=> Writes(Op(i)) /\ Op(i).line = Op(k).line /\ u \in Units(Op(i))
      BY <1>3, <2>3, <3>3 DEF WritersIn, InFlight, Op, At
    <3> QED
      BY <3>2, <3>4
  <2>8. CASE next[k] = inst[k]
    <3>1. PICK r : r = inst[k]
      OBVIOUS
    <3>2. FreshUnit(r, writers, unit, u) /\ i \in Nat
      BY <1>5, <2>4, <3>1
    <3>3. FreshUnit(r, writers \ {i}, IF i \in writers THEN i ELSE unit, u)
      BY ONLY <2>5, <3>2, OldestRetires
    <3> QED
      BY <2>6, <2>7, <2>8, <3>1, <3>3
  <2>9. CASE next[k] # inst[k]
    <3>1. \A j \in writers : j <= i
      BY <1>7, <2>4, <2>9 DEF FreshUnit, At
    <3>2. writers \ {i} = {}
      BY <1>5, <2>5, <3>1
    <3>3. next[k].stage = "complete" => next[k].value[u] = <<mem[Op(k).line][u], u>>
      BY <1>7, <2>9 DEF ReadMemory
    <3>4. /\ next[k].stage \in {"complete", "cache", "early"}
          /\ next[k].value # Nothing => next[k].stage = "complete"
      BY <1>7, <2>9
    <3> QED
      BY <2>6, <3>2, <3>3, <3>4 DEF FreshUnit
  <2> QED
    BY <2>8, <2>9
<1>12. DependOK'
  <2> SUFFICES ASSUME NEW k \in InFlight \ {i}, k \notin misfed', inst'[k].depend # 0
               PROVE  DependsOn(k)'
    BY <1>3 DEF DependOK
  <2>1. inst'[k].depend = inst[k].depend
    BY <1>4, <1>7 DEF Settled
  <2>2. DependsOn(k)
    BY <1>13, <2>1 DEF StaleInv, DependOK
  <2>3. content' = content
    BY <1>3 DEF Remembered
  <2>4. CASE content[inst[k].depend] \in 1 .. retired
    <3>1. content[inst[k].depend] \in 1 .. i
      BY <1>2, <1>5, <2>4
    <3> QED
      BY <1>3, <2>1, <2>3, <3>1 DEF DependsOn
  <2>5. ASSUME NEW j \in InFlight, Covered(k, j), inst[j].object = inst[k].depend
        PROVE  DependsOn(k)'
    <3>1. CASE j = i
      <4>1. PICK d : d = [seq |-> i, pool |-> Pool(inst[i].op), object |-> inst[i].object]
        OBVIOUS
      <4>2. d \in ObjectsIn(inst, InFlight)
        BY <1>3, <2>5, <3>1, <4>1, ObjectsMember DEF Covered, Op
      <4>3. d \in LiveStores
        BY <4>2, LiveIs
      <4>4. content[d.object] = d.seq
        BY <4>3 DEF StaleInv, HeapSafe, HeapSound
      <4>5. content[inst[k].depend] = i /\ i \in 1 .. i
        BY <1>2, <1>5, <2>5, <3>1, <4>1, <4>4
      <4> QED
        BY <1>3, <2>1, <2>3, <4>5 DEF DependsOn
    <3>2. CASE j # i
      <4>1. j \in InFlight' /\ j \in DOMAIN next
        BY <1>3, <1>4, <3>2
      <4>2. inst'[j].stage # "fetched"
        BY <1>4, <2>5, <4>1, StaysIssued DEF Covered
      <4>3. \A m \in DOMAIN next : inst'[m].op = Op(m) /\ inst'[m].object = inst[m].object
        BY <1>4 DEF Settled
      <4>4. Covered(k, j)'
        BY <1>4, <2>5, <4>1, <4>2, <4>3 DEF Covered, Exact, SameLine, Op, At
      <4> QED
        BY <2>1, <2>5, <4>1, <4>3, <4>4 DEF DependsOn
    <3> QED
      BY <3>1, <3>2
  <2> QED
    BY <2>2, <2>4, <2>5 DEF DependsOn
<1> QED
  BY <1>1, <1>8, <1>10, <1>11, <1>12 DEF StaleInv

LEMMA InitStale == Init => StaleInv
<1> SUFFICES ASSUME Init PROVE StaleInv
  OBVIOUS
<1>1. QueueInv
  BY InitQueue
<1>2. InFlight = {} /\ content = <<>> /\ recent = {} /\ retired = 0 /\ freeList = [p \in Pools |-> <<>>]
  BY DEF Init, InFlight
<1>3. HeapSafe
  <2>1. LiveStores = {}
    BY <1>2 DEF LiveStores, Objects
  <2>2. ToSet(<<>>) = {} /\ DOMAIN <<>> = {}
    BY DEF ToSet
  <2> QED
    BY <1>2, <2>1, <2>2 DEF HeapSafe, HeapSound
<1> QED
  BY <1>1, <1>2, <1>3 DEF StaleInv, ReadsOK, DependOK, FreshOK

LEMMA StaleInvKept == StaleInv /\ [Next]_vars => StaleInv'
<1> SUFFICES ASSUME StaleInv, [Next]_vars PROVE StaleInv'
  OBVIOUS
<1>1. CASE \E op \in Ops : Fetch(op)
  BY <1>1, FetchStale
<1>2. ASSUME NEW i \in InFlight, Execute(i) PROVE StaleInv'
  BY <1>2, ExecuteStale
<1>3. ASSUME NEW i \in InFlight, DataArrives(i) PROVE StaleInv'
  BY <1>3, DataArrivesStale
<1>4. ASSUME NEW i \in InFlight, CacheAnswers(i) PROVE StaleInv'
  BY <1>4, CacheAnswersStale
<1>5. ASSUME NEW i \in InFlight, Mispredict(i) PROVE StaleInv'
  BY <1>5, MispredictStale
<1>6. CASE Retire
  BY <1>6, RetireStale
<1>7. CASE Recover
  BY <1>7, RecoverStale
<1>8. CASE UNCHANGED vars
  <2>1. UNCHANGED <<memory, retired, result, misread, misfed, inst, lsq, exception, content, freeList, recent, squashes>>
    BY <1>8 DEF vars
  <2>2. QueueInv'
    BY <1>8, QueueInvKept DEF StaleInv
  <2>3. HeapSafe'
    BY <2>1 DEF StaleInv, HeapSafe, LiveStores, Objects, InFlight, Op
  <2>4. ReadsOK'
    BY <2>1 DEF StaleInv, ReadsOK, InFlight
  <2>5. DependOK'
    BY <2>1 DEF StaleInv, DependOK, DependsOn, Covered, Exact, SameLine, InFlight, Op, At
  <2>6. FreshOK'
    BY <2>1 DEF StaleInv, FreshOK, Alive, InFlight, Op
  <2> QED
    BY <2>2, <2>3, <2>4, <2>5, <2>6 DEF StaleInv
<1> QED
  BY <1>1, <1>2, <1>3, <1>4, <1>5, <1>6, <1>7, <1>8 DEF Next

LEMMA StaleInvHolds == Spec => []StaleInv
<1>1. Init => StaleInv
  BY InitStale
<1>2. StaleInv /\ [Next]_vars => StaleInv'
  BY StaleInvKept
<1> QED
  BY <1>1, <1>2, PTL DEF Spec

LEMMA StaleInvImplies == StaleInv => NoStaleValue
<1> SUFFICES ASSUME StaleInv, NEW i \in InFlight, At(i) = "complete", Reads(Op(i)), i \notin misfed, Alive(i),
                    NEW u \in Units(Op(i))
             PROVE  inst[i].value[u] = IF WritersBefore(i, u) = {} THEN ReadMemory(memory, Op(i))[u]
                                       ELSE <<Max(WritersBefore(i, u)), u>>
  BY DEF NoStaleValue, Alive
<1>1. PICK writers : writers = WritersBefore(i, u)
  OBVIOUS
<1>2. writers = WritersIn(inst, i, u)
  BY <1>1 DEF WritersBefore, WritersIn, SameLine, InFlight, Op, At
<1>3. FreshUnit(inst[i], writers, memory[Op(i).line][u], u) /\ inst[i].value # Nothing
  <2>1. ReadOK(inst[i]) /\ Reads(inst[i].op) /\ inst[i].stage = "complete"
    BY DEF StaleInv, ReadsOK, Op, At
  <2>2. inst[i].value # Nothing
    BY <2>1 DEF ReadOK
  <2> QED
    BY <1>2, <2>2 DEF StaleInv, FreshOK, Fresh, Op
<1>4. CASE writers = {}
  BY <1>1, <1>3, <1>4 DEF FreshUnit, At, ReadMemory
<1>5. CASE writers # {}
  <2>1. writers \subseteq 1 .. LastSeq /\ LastSeq \in Nat
    BY <1>1, InRange DEF WritersBefore, StaleInv
  <2>2. Newest(writers, Max(writers))
    BY <1>5, <2>1, MaxExists DEF Newest
  <2>3. inst[i].value[u] = <<Max(writers), u>>
    BY <1>3, <2>2 DEF FreshUnit, At, Newest
  <2> QED
    BY <1>1, <1>5, <2>3
<1> QED
  BY <1>4, <1>5

\* No instruction that may retire, except one that the queue has misfed, has read
\* stale data: each unit is of the closest older store whose address is known, or of
\* memory, whatever order the instructions executed in (loadSearch, storeSearch and
\* the bypasses of lsq.C).
THEOREM NothingStale == Spec => []NoStaleValue
<1>1. Spec => []StaleInv
  BY StaleInvHolds
<1>2. StaleInv => NoStaleValue
  BY StaleInvImplies
<1> QED
  BY <1>1, <1>2, PTL

-----------------------------------------------------------------------------
(***************************************************************************)
(* Memory accessed in program order.                                       *)
(***************************************************************************)

\* The oldest instruction has nobody to read from but memory.
LEMMA RetireAccesses ==
  ASSUME StaleInv, Retire
  PROVE  InOrder!Next
<1>1. PICK i, op : i = retired + 1 /\ op = Op(i)
  OBVIOUS
<1>2. /\ i \in InFlight /\ exception = 0 /\ At(i) = "complete"
      /\ memory' = WriteMemory(memory, op, i) /\ retired' = i /\ result' = inst[i].value
      /\ misread' = (i \in misfed)
  BY <1>1 DEF Retire
<1>3. op \in Ops /\ \A k \in InFlight : i <= k /\ k \in Nat
  BY <1>1, <1>2, InRange DEF StaleInv, QueueInv, NumbersOK
<1>4. i \notin misfed => inst[i].value = IF Reads(op) THEN ReadMemory(memory, op) ELSE Nothing
  <2> SUFFICES ASSUME i \notin misfed
               PROVE  inst[i].value = IF Reads(op) THEN ReadMemory(memory, op) ELSE Nothing
    OBVIOUS
  <2>1. ReadOK(inst[i]) /\ inst[i].op = op /\ inst[i].stage = "complete"
    BY <1>1, <1>2 DEF StaleInv, ReadsOK, Op, At
  <2>2. CASE ~ Reads(op)
    BY <2>1, <2>2 DEF ReadOK
  <2>3. CASE Reads(op)
    <3>1. PICK v : v = inst[i].value
      OBVIOUS
    <3>2. v # Nothing
      BY <2>1, <2>3, <3>1 DEF ReadOK
    <3>3. v \in [Units(op) -> Data]
      BY <1>2, <2>1, <3>1, <3>2 DEF StaleInv, QueueInv, EntriesOK, EntryOK, ValueOK
    <3>4. ASSUME NEW u \in Units(op) PROVE v[u] = <<memory[op.line][u], u>>
      <4>1. FreshUnit(inst[i], WritersIn(inst, i, u), memory[op.line][u], u)
        BY <1>1, <1>2, <2>1, <2>3 DEF StaleInv, FreshOK, Fresh, Alive
      <4>2. WritersIn(inst, i, u) = {}
        BY <1>2, <1>3 DEF WritersIn, InFlight
      <4> QED
        BY <3>1, <3>2, <4>1, <4>2 DEF FreshUnit
    <3>5. v = ReadMemory(memory, op)
      BY <3>3, <3>4 DEF ReadMemory
    <3> QED
      BY <2>3, <3>1, <3>5
  <2> QED
    BY <2>2, <2>3
<1>5. InOrder!Access(op)
  <2>1. InOrder!WriteMemory(memory, op, i) = WriteMemory(memory, op, i)
    BY DEF InOrder!WriteMemory, WriteMemory, InOrder!Writes, Writes, InOrder!Units, Units
  <2>2. InOrder!ReadMemory(memory, op) = ReadMemory(memory, op)
    BY DEF InOrder!ReadMemory, ReadMemory, InOrder!Units, Units
  <2>3. InOrder!Reads(op) = Reads(op) /\ InOrder!Nothing = Nothing
    BY DEF InOrder!Reads, Reads, InOrder!Nothing, Nothing
  <2>4. misread' \in BOOLEAN /\ (~ misread' => i \notin misfed)
    <3>1. misread' = (i \in misfed)
      BY <1>2
    <3>2. misread' \in BOOLEAN
      BY <3>1
    <3>3. ~ misread' => i \notin misfed
      BY ONLY <3>1, Zenon
    <3> QED
      BY ONLY <3>2, <3>3, Zenon
  <2>5. ~ misread' => result' = IF InOrder!Reads(op) THEN InOrder!ReadMemory(memory, op) ELSE InOrder!Nothing
    <3>1. PICK right : right = (IF InOrder!Reads(op) THEN InOrder!ReadMemory(memory, op) ELSE InOrder!Nothing)
      OBVIOUS
    <3>2. i \notin misfed => result' = right
      BY <1>2, <1>4, <2>2, <2>3, <3>1
    <3> QED
      BY <2>4, <3>1, <3>2, Zenon
  <2> QED
    BY <1>1, <1>2, <2>1, <2>4, <2>5 DEF InOrder!Access
<1> QED
  BY <1>3, <1>5 DEF InOrder!Next

LEMMA StepAccesses ==
  ASSUME StaleInv, [Next]_vars
  PROVE  [InOrder!Next]_(InOrder!vars)
<1>1. CASE Retire
  BY <1>1, RetireAccesses
<1>2. CASE UNCHANGED <<memory, retired, result, misread>>
  BY <1>2 DEF InOrder!vars
<1>3. CASE ~ Retire
  BY <1>2, <1>3 DEF Next, Fetch, Execute, DataArrives, CacheAnswers, Mispredict, Recover, vars
<1> QED
  BY <1>1, <1>3

\* Out of order execution cannot be told from accesses made one after the other: each
\* retirement is the next access of memory in program order, with the value that
\* access reads unless the queue has misfed it, and no other step changes memory.
THEOREM MemoryInOrder == Spec => ImplementsMemory
<1>1. Spec => []StaleInv
  BY StaleInvHolds
<1>2. Init => InOrder!Init
  BY DEF Init, InOrder!Init, InOrder!InitialMemory, InitialMemory, InOrder!Nothing, Nothing
<1>3. StaleInv /\ [Next]_vars => [InOrder!Next]_(InOrder!vars)
  BY StepAccesses
<1> QED
  BY <1>1, <1>2, <1>3, PTL DEF Spec, ImplementsMemory, InOrder!Spec

=============================================================================
