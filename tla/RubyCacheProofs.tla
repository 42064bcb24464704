-------------------------- MODULE RubyCacheProofs --------------------------
(***************************************************************************)
(* Proofs about RubyCache, for any instructions, lines and number of       *)
(* outstanding misses, and however many cycles are run.                    *)
(*                                                                         *)
(* Every claim about the pools counts entries: those of instructions,      *)
(* those of a line, those a waiter is on.  So the first section says what  *)
(* an entry put in or taken out does to such a count, and each invariant   *)
(* follows from the counts of one step.                                    *)
(***************************************************************************)
EXTENDS RubyCache, FiniteSetsExt, SequenceTheorems, FiniteSetTheorems, WellFoundedInduction, TLAPS

-----------------------------------------------------------------------------
(***************************************************************************)
(* Numbers and finite sets of them.                                        *)
(***************************************************************************)

\* A set of positive numbers has a least element.
LEMMA LeastExists ==
  ASSUME NEW S, NEW n \in Nat, S \subseteq 1 .. n, S # {}
  PROVE  \E x \in S : \A y \in S : x <= y
<1> DEFINE R == OpToRel(<, Nat)
<1>1. IsWellFoundedOn(R, Nat)
  BY NatLessThanWellFounded
<1>2. \A x, y \in Nat : x < y => <<x, y>> \in R
  BY DEF OpToRel
<1>3. S \subseteq Nat
  OBVIOUS
<1>4. PICK x \in S : \A y \in S : ~ (<<y, x>> \in R)
  <2> HIDE DEF R
  <2> QED BY <1>1, <1>3, WFMin
<1>5. ASSUME NEW y \in S PROVE x <= y
  <2>1. x \in Nat /\ y \in Nat
    OBVIOUS
  <2>2. ~ (y < x)
    BY <1>2, <1>4, <2>1
  <2> QED
    BY <2>1, <2>2
<1> QED
  BY <1>5

\* Min is it.
LEMMA MinExists ==
  ASSUME NEW S, NEW n \in Nat, S \subseteq 1 .. n, S # {}
  PROVE  /\ Min(S) \in S
         /\ \A y \in S : Min(S) <= y
BY LeastExists DEF Min

-----------------------------------------------------------------------------
(***************************************************************************)
(* Sequences that gain or lose one entry.                                  *)
(***************************************************************************)

\* The places of a sequence that hold a member of P.
Places(s, P) == {n \in DOMAIN s : s[n] \in P}

\* Where the n-th entry is once another has been put at place i.
Moved(i, n) == IF n < i THEN n ELSE n + 1

\* t is s with one more entry, at place i.
Grown(s, t, i, S) ==
    /\ s \in Seq(S) /\ t \in Seq(S)
    /\ i \in 1 .. Len(t) /\ Len(t) = Len(s) + 1
    /\ \A n \in 1 .. Len(s) : t[Moved(i, n)] = s[n]

LEMMA PlacesFinite ==
  ASSUME NEW S, NEW s \in Seq(S), NEW P
  PROVE  /\ Places(s, P) \subseteq 1 .. Len(s)
         /\ IsFiniteSet(Places(s, P))
         /\ Cardinality(Places(s, P)) \in Nat
<1>1. Len(s) \in Nat /\ DOMAIN s = 1 .. Len(s)
  BY LenProperties
<1>2. Places(s, P) \subseteq 1 .. Len(s)
  BY <1>1 DEF Places
<1>3. IsFiniteSet(1 .. Len(s))
  BY <1>1, FS_Interval
<1> QED
  BY <1>2, <1>3, FS_Subset, FS_CardinalityType

\* One entry more of P is counted exactly when the new entry is in P.
LEMMA GrownCount ==
  ASSUME NEW S, NEW s, NEW t, NEW i, NEW P, Grown(s, t, i, S)
  PROVE  Cardinality(Places(t, P)) =
             IF t[i] \in P THEN Cardinality(Places(s, P)) + 1 ELSE Cardinality(Places(s, P))
<1> DEFINE A == Places(s, P)
           B == Places(t, P) \ {i}
           f == [n \in A |-> Moved(i, n)]
<1>1. /\ s \in Seq(S) /\ t \in Seq(S) /\ Len(s) \in Nat /\ Len(t) = Len(s) + 1 /\ i \in 1 .. Len(t)
      /\ DOMAIN s = 1 .. Len(s) /\ DOMAIN t = 1 .. Len(t)
      /\ \A n \in 1 .. Len(s) : t[Moved(i, n)] = s[n]
  BY LenProperties DEF Grown
<1>2. A \subseteq 1 .. Len(s) /\ IsFiniteSet(A) /\ IsFiniteSet(Places(t, P))
  BY <1>1, PlacesFinite
<1>3. f \in [A -> B]
  <2> SUFFICES ASSUME NEW n \in A PROVE Moved(i, n) \in B
    OBVIOUS
  <2>1. n \in 1 .. Len(s) /\ s[n] \in P
    BY <1>1 DEF Places
  <2>2. Moved(i, n) \in 1 .. Len(t) /\ Moved(i, n) # i
    BY <1>1, <2>1 DEF Moved
  <2>3. t[Moved(i, n)] \in P
    BY <1>1, <2>1
  <2> QED
    BY <1>1, <2>2, <2>3 DEF Places
<1>4. \A a, b \in A : f[a] = f[b] => a = b
  BY <1>1, <1>2 DEF Moved
<1>5. \A y \in B : \E a \in A : f[a] = y
  <2> SUFFICES ASSUME NEW y \in B PROVE \E a \in A : Moved(i, a) = y
    OBVIOUS
  <2>1. y \in 1 .. Len(t) /\ y # i /\ t[y] \in P
    BY <1>1 DEF Places
  <2>2. PICK a : a = IF y < i THEN y ELSE y - 1
    OBVIOUS
  <2>3. a \in 1 .. Len(s) /\ Moved(i, a) = y
    BY <1>1, <2>1, <2>2 DEF Moved
  <2>4. s[a] \in P
    BY <1>1, <2>1, <2>3
  <2> QED
    BY <1>1, <2>3, <2>4 DEF Places
<1>6. f \in Bijection(A, B)
  <2> HIDE DEF f, A, B
  <2> QED
    BY <1>3, <1>4, <1>5 DEF Bijection, Injection, IsInjective, Surjection
<1>7. ExistsBijection(A, B)
  <2> HIDE DEF f, A, B
  <2> QED
    BY <1>6 DEF ExistsBijection
<1>8. IsFiniteSet(B) /\ Cardinality(B) = Cardinality(A) /\ Cardinality(A) \in Nat
  <2> HIDE DEF A, B
  <2> QED
    BY <1>2, <1>7, FS_Bijection, FS_CardinalityType
<1>9. CASE t[i] \in P
  <2>1. Places(t, P) = B \cup {i} /\ i \notin B
    BY <1>1, <1>9 DEF Places
  <2> HIDE DEF A, B
  <2>2. Cardinality(B \cup {i}) = Cardinality(A) + 1
    BY <1>8, <2>1, FS_AddElement
  <2> QED
    BY <1>9, <2>1, <2>2 DEF A
<1>10. CASE t[i] \notin P
  <2>1. Places(t, P) = B
    BY <1>10 DEF Places
  <2> HIDE DEF A, B
  <2> QED
    BY <1>8, <1>10, <2>1 DEF A
<1> QED
  BY <1>9, <1>10

LEMMA InsertGrows ==
  ASSUME NEW S, NEW s \in Seq(S), NEW i \in 1 .. Len(s) + 1, NEW e \in S
  PROVE  Grown(s, InsertAt(s, i, e), i, S) /\ InsertAt(s, i, e)[i] = e
<1> DEFINE n == Len(s)
           a == SubSeq(s, 1, i - 1)
           b == SubSeq(s, i, n)
           t == a \o <<e>>
           u == t \o b
<1>1. n \in Nat /\ i \in 1 .. n + 1 /\ \A k \in 1 .. n : s[k] \in S
  BY LenProperties, ElementOfSeq
<1>2. a \in Seq(S) /\ Len(a) = i - 1 /\ \A k \in 1 .. i - 1 : a[k] = s[k]
  <2>1. 1 \in Int /\ i - 1 \in Int /\ \A k \in 1 .. i - 1 : s[k] \in S
    BY <1>1
  <2>2. /\ a \in Seq(S) /\ Len(a) = IF 1 <= i - 1 THEN (i - 1) - 1 + 1 ELSE 0
        /\ \A k \in 1 .. (i - 1) - 1 + 1 : a[k] = s[1 + k - 1]
    BY <2>1, SubSeqProperties
  <2> HIDE DEF a
  <2>3. Len(a) = i - 1
    BY <1>1, <2>2
  <2>4. ASSUME NEW k \in 1 .. i - 1 PROVE a[k] = s[k]
    <3>1. k \in 1 .. (i - 1) - 1 + 1 /\ 1 + k - 1 = k
      BY <1>1
    <3> QED
      BY <2>2, <3>1
  <2> QED
    BY <2>2, <2>3, <2>4
<1>3. b \in Seq(S) /\ Len(b) = n - i + 1 /\ \A k \in 1 .. n - i + 1 : b[k] = s[i + k - 1]
  <2>1. i \in Int /\ n \in Int /\ \A k \in i .. n : s[k] \in S
    BY <1>1
  <2>2. /\ b \in Seq(S) /\ Len(b) = IF i <= n THEN n - i + 1 ELSE 0
        /\ \A k \in 1 .. n - i + 1 : b[k] = s[i + k - 1]
    BY <2>1, SubSeqProperties
  <2> HIDE DEF b
  <2> QED
    BY <1>1, <2>2
<1>4. <<e>> \in Seq(S) /\ Len(<<e>>) = 1 /\ <<e>>[1] = e
  OBVIOUS
<1> HIDE DEF a, b
<1>5. t \in Seq(S) /\ Len(t) = i /\ (\A k \in 1 .. i - 1 : t[k] = s[k]) /\ t[i] = e
  BY <1>1, <1>2, <1>4, ConcatProperties
<1> HIDE DEF t
<1>6. u \in Seq(S) /\ Len(u) = n + 1
  BY <1>1, <1>3, <1>5, ConcatProperties
<1>7. \A k \in 1 .. n + 1 : u[k] = IF k <= i THEN t[k] ELSE b[k - i]
  BY <1>1, <1>3, <1>5, ConcatProperties
<1> HIDE DEF u
<1>8. u[i] = e
  BY <1>1, <1>5, <1>7
<1>9. ASSUME NEW k \in 1 .. n PROVE u[Moved(i, k)] = s[k]
  <2>1. CASE k < i
    BY <1>1, <1>5, <1>7, <2>1 DEF Moved
  <2>2. CASE k >= i
    <3>1. k + 1 \in 1 .. n + 1 /\ ~ (k + 1 <= i) /\ (k + 1) - i \in 1 .. n - i + 1 /\ i + ((k + 1) - i) - 1 = k
      BY <1>1, <2>2
    <3>2. u[k + 1] = b[(k + 1) - i]
      BY <1>7, <3>1
    <3>3. b[(k + 1) - i] = s[k]
      BY <1>3, <3>1
    <3>4. Moved(i, k) = k + 1
      BY <1>1, <2>2 DEF Moved
    <3> QED
      BY <3>2, <3>3, <3>4
  <2> QED
    BY <1>1, <2>1, <2>2
<1>10. InsertAt(s, i, e) = u
  BY DEF InsertAt, a, b, t, u
<1> QED
  BY <1>1, <1>6, <1>8, <1>9, <1>10 DEF Grown

LEMMA RemoveShrinks ==
  ASSUME NEW S, NEW s \in Seq(S), NEW i \in 1 .. Len(s)
  PROVE  Grown(RemoveAt(s, i), s, i, S)
<1> DEFINE n == Len(s)
           a == SubSeq(s, 1, i - 1)
           b == SubSeq(s, i + 1, n)
           u == a \o b
<1>1. n \in Nat /\ i \in 1 .. n /\ \A k \in 1 .. n : s[k] \in S
  BY LenProperties, ElementOfSeq
<1>2. a \in Seq(S) /\ Len(a) = i - 1 /\ \A k \in 1 .. i - 1 : a[k] = s[k]
  <2>1. 1 \in Int /\ i - 1 \in Int /\ \A k \in 1 .. i - 1 : s[k] \in S
    BY <1>1
  <2>2. /\ a \in Seq(S) /\ Len(a) = IF 1 <= i - 1 THEN (i - 1) - 1 + 1 ELSE 0
        /\ \A k \in 1 .. (i - 1) - 1 + 1 : a[k] = s[1 + k - 1]
    BY <2>1, SubSeqProperties
  <2> HIDE DEF a
  <2>3. Len(a) = i - 1
    BY <1>1, <2>2
  <2>4. ASSUME NEW k \in 1 .. i - 1 PROVE a[k] = s[k]
    <3>1. k \in 1 .. (i - 1) - 1 + 1 /\ 1 + k - 1 = k
      BY <1>1
    <3> QED
      BY <2>2, <3>1
  <2> QED
    BY <2>2, <2>3, <2>4
<1>3. b \in Seq(S) /\ Len(b) = n - i /\ \A k \in 1 .. n - i : b[k] = s[i + k]
  <2>1. i + 1 \in Int /\ n \in Int /\ \A k \in i + 1 .. n : s[k] \in S
    BY <1>1
  <2>2. /\ b \in Seq(S) /\ Len(b) = IF i + 1 <= n THEN n - (i + 1) + 1 ELSE 0
        /\ \A k \in 1 .. n - (i + 1) + 1 : b[k] = s[(i + 1) + k - 1]
    BY <2>1, SubSeqProperties
  <2> HIDE DEF b
  <2>3. Len(b) = n - i
    BY <1>1, <2>2
  <2>4. ASSUME NEW k \in 1 .. n - i PROVE b[k] = s[i + k]
    <3>1. k \in 1 .. n - (i + 1) + 1 /\ (i + 1) + k - 1 = i + k
      BY <1>1
    <3> QED
      BY <2>2, <3>1
  <2> QED
    BY <2>2, <2>3, <2>4
<1> HIDE DEF a, b
<1>4. u \in Seq(S) /\ Len(u) = n - 1
  <2>1. u \in Seq(S) /\ Len(u) = Len(a) + Len(b)
    BY <1>2, <1>3, ConcatProperties
  <2> HIDE DEF u
  <2> QED
    BY <1>1, <1>2, <1>3, <2>1
<1>5. \A k \in 1 .. n - 1 : u[k] = IF k <= i - 1 THEN a[k] ELSE b[k - (i - 1)]
  BY <1>1, <1>2, <1>3, ConcatProperties
<1> HIDE DEF u
<1>6. ASSUME NEW k \in 1 .. n - 1 PROVE s[Moved(i, k)] = u[k]
  <2>1. CASE k < i
    BY <1>1, <1>2, <1>5, <2>1 DEF Moved
  <2>2. CASE k >= i
    <3>1. ~ (k <= i - 1) /\ k - (i - 1) \in 1 .. n - i /\ i + (k - (i - 1)) = k + 1
      BY <1>1, <2>2
    <3>2. u[k] = s[k + 1]
      BY <1>3, <1>5, <3>1
    <3>3. Moved(i, k) = k + 1
      BY <1>1, <2>2 DEF Moved
    <3> QED
      BY <3>2, <3>3
  <2> QED
    BY <1>1, <2>1, <2>2
<1>7. RemoveAt(s, i) = u
  BY DEF RemoveAt, a, b, u
<1>8. \A k \in 1 .. Len(u) : s[Moved(i, k)] = u[k]
  BY <1>4, <1>6
<1>9. Len(s) = Len(u) + 1
  BY <1>1, <1>4
<1>10. Grown(u, s, i, S)
  BY <1>4, <1>8, <1>9 DEF Grown
<1> QED
  BY <1>7, <1>10

LEMMA TailShrinks ==
  ASSUME NEW S, NEW s \in Seq(S), s # <<>>
  PROVE  Grown(Tail(s), s, 1, S) /\ Head(s) = s[1] /\ 1 \in 1 .. Len(s)
<1>1. Len(s) \in Nat \ {0}
  BY EmptySeq
<1>2. /\ Tail(s) \in Seq(S) /\ Len(Tail(s)) = Len(s) - 1
      /\ \A k \in 1 .. Len(Tail(s)) : Tail(s)[k] = s[k + 1]
  BY HeadTailProperties
<1>3. \A k \in 1 .. Len(Tail(s)) : s[Moved(1, k)] = Tail(s)[k]
  BY <1>1, <1>2 DEF Moved
<1>4. Head(s) = s[1]
  BY <1>1
<1> QED
  BY <1>1, <1>2, <1>3, <1>4 DEF Grown

-----------------------------------------------------------------------------
(***************************************************************************)
(* The operators of the two pools.                                         *)
(***************************************************************************)

\* insertOrdered puts the request somewhere and keeps the others in their order.
LEMMA InsertedGrows ==
  ASSUME NEW S, NEW list \in Seq(S), NEW r \in S
  PROVE  \E i : Grown(list, Inserted(list, r), i, S) /\ Inserted(list, r)[i] = r
<1> DEFINE I == {i \in 1 .. Len(list) : list[i].posted >= r.posted}
<1>1. Len(list) \in Nat
  BY LenProperties
<1>2. PICK place : place = IF I # {} THEN Min(I) ELSE 0
  OBVIOUS
<1>3. place = SelectInSeq(list, LAMBDA e : e.posted >= r.posted)
  BY <1>2 DEF SelectInSeq
<1>4. place \in 0 .. Len(list)
  <2>1. CASE I = {}
    BY <1>1, <1>2, <2>1
  <2>2. CASE I # {}
    <3>1. I \subseteq 1 .. Len(list)
      OBVIOUS
    <3>2. Min(I) \in 1 .. Len(list)
      <4> HIDE DEF I
      <4> QED
        BY <1>1, <2>2, <3>1, MinExists
    <3> QED
      BY <1>1, <1>2, <2>2, <3>2
  <2> QED
    BY <2>1, <2>2
<1>5. PICK i : i = IF place = 0 THEN Len(list) + 1 ELSE place
  OBVIOUS
<1>6. i \in 1 .. Len(list) + 1
  BY <1>1, <1>4, <1>5
<1>7. Inserted(list, r) = InsertAt(list, i, r)
  BY <1>3, <1>5 DEF Inserted
<1> QED
  BY <1>6, <1>7, InsertGrows

LEMMA InsertedCount ==
  ASSUME NEW S, NEW list \in Seq(S), NEW r \in S, NEW P
  PROVE  /\ Inserted(list, r) \in Seq(S)
         /\ Inserted(list, r) # <<>>
         /\ Cardinality(Places(Inserted(list, r), P)) =
                IF r \in P THEN Cardinality(Places(list, P)) + 1 ELSE Cardinality(Places(list, P))
<1>1. PICK more, i : more = Inserted(list, r) /\ Grown(list, more, i, S) /\ more[i] = r
  BY InsertedGrows
<1>2. Cardinality(Places(more, P)) =
          IF more[i] \in P THEN Cardinality(Places(list, P)) + 1 ELSE Cardinality(Places(list, P))
  BY <1>1, GrownCount
<1>3. more \in Seq(S) /\ Len(more) = Len(list) + 1 /\ Len(list) \in Nat
  BY <1>1, LenProperties DEF Grown
<1>4. more # <<>>
  BY <1>3, EmptySeq
<1> QED
  BY <1>1, <1>2, <1>3, <1>4

\* The searches of complete and access, and of squashInstruction.
FirstOf(list, line) == SelectInSeq(list, LAMBDA e : e.line = line)
DelayedOf(list, w) == SelectInSeq(list, LAMBDA r : r.waiter = w)

LEMMA FirstOfLine ==
  ASSUME NEW S, NEW list \in Seq(S), NEW line, NEW n,
         n = FirstOf(list, line)
  PROVE  /\ n \in 0 .. Len(list)
         /\ n = 0 => \A k \in 1 .. Len(list) : list[k].line # line
         /\ n # 0 => n \in 1 .. Len(list) /\ list[n].line = line
<1> DEFINE I == {i \in 1 .. Len(list) : list[i].line = line}
<1>1. Len(list) \in Nat
  BY LenProperties
<1>2. n = IF I # {} THEN Min(I) ELSE 0
  BY DEF FirstOf, SelectInSeq
<1>3. CASE I = {}
  BY <1>1, <1>2, <1>3
<1>4. CASE I # {}
  <2>1. n \in I
    <3>1. I \subseteq 1 .. Len(list)
      OBVIOUS
    <3> HIDE DEF I
    <3> QED
      BY <1>1, <1>2, <1>4, <3>1, MinExists
  <2> QED
    BY <1>1, <2>1
<1> QED
  BY <1>3, <1>4

LEMMA FirstOfWaiter ==
  ASSUME NEW S, NEW list \in Seq(S), NEW w, NEW n,
         n = DelayedOf(list, w)
  PROVE  /\ n = 0 => \A k \in 1 .. Len(list) : list[k].waiter # w
         /\ n # 0 => n \in 1 .. Len(list) /\ list[n].waiter = w
<1> DEFINE I == {i \in 1 .. Len(list) : list[i].waiter = w}
<1>1. Len(list) \in Nat
  BY LenProperties
<1>2. n = IF I # {} THEN Min(I) ELSE 0
  BY DEF DelayedOf, SelectInSeq
<1>3. CASE I = {}
  BY <1>1, <1>2, <1>3
<1>4. CASE I # {}
  <2>1. n \in I
    <3>1. I \subseteq 1 .. Len(list)
      OBVIOUS
    <3> HIDE DEF I
    <3> QED
      BY <1>1, <1>2, <1>4, <3>1, MinExists
  <2> QED
    BY <1>1, <2>1
<1> QED
  BY <1>3, <1>4

\* A request that an access joins is an outstanding one of its line.
LEMMA MatchingFound ==
  ASSUME NEW S, pool \in Seq(S), NEW type, NEW line, Matching(type, line) # 0
  PROVE  Matching(type, line) \in 1 .. Len(pool) /\ pool[Matching(type, line)].line = line
<1>1. PICK n : n = FirstOf(pool, line)
  OBVIOUS
<1>2. Matching(type, line) = n /\ n # 0
  BY <1>1 DEF FirstOf, Matching
<1>3. n \in 1 .. Len(pool) /\ pool[n].line = line
  BY <1>1, <1>2, FirstOfLine
<1> QED
  BY <1>2, <1>3

-----------------------------------------------------------------------------
(***************************************************************************)
(* What is counted.                                                        *)
(***************************************************************************)

\* The requests of instructions, of a line, with a waiter on the list, and made for
\* a waiter.
Data == {r \in Requests : r.type # "ifetch"}
OnLine(line) == {r \in Requests : r.line = line}
Has(w) == {r \in Requests : w \in r.list}
By(w) == {r \in Requests : r.waiter = w}

InstCount == Cardinality(Places(pool, Data))
LineCount(line) == Cardinality(Places(pool, OnLine(line)))
WaitCount(w) == Cardinality(Places(pool, Has(w)))
DelayCount(w) == Cardinality(Places(delayed, By(w)))

\* The answers ruby owes for a line, one by one.
Owed(line) == UNION {{type} \X (1 .. asked[<<line, type>>]) : type \in AllTypes}

(***************************************************************************)
(* The inductive invariant: the answers ruby owes for a line are as many   *)
(* as the outstanding requests of the line, whatever types they are of.    *)
(***************************************************************************)
Matched ==
    \A line \in Lines : IsFiniteSet(Owed(line)) /\ Cardinality(Owed(line)) = LineCount(line)

Waits == \A w \in Waiters : WaitCount(w) = IF stage[w] = "waiting" THEN 1 ELSE 0

Delays == \A w \in Waiters : DelayCount(w) = IF stage[w] = "delayed" THEN 1 ELSE 0

IInv ==
    /\ TypeOK
    /\ count = InstCount
    /\ Matched
    /\ Waits
    /\ Delays
    /\ DelayedIsRemembered

LEMMA CountTypes ==
  ASSUME TypeOK
  PROVE  /\ InstCount \in Nat
         /\ \A line : LineCount(line) \in Nat
         /\ \A w : WaitCount(w) \in Nat /\ DelayCount(w) \in Nat
<1>1. pool \in Seq(Requests) /\ delayed \in Seq(Requests)
  BY DEF TypeOK
<1> QED
  BY <1>1, PlacesFinite DEF InstCount, LineCount, WaitCount, DelayCount

LEMMA CountsUnchanged ==
  /\ UNCHANGED pool => /\ UNCHANGED InstCount
                       /\ \A line : UNCHANGED LineCount(line)
                       /\ \A w : UNCHANGED WaitCount(w)
  /\ UNCHANGED delayed => \A w : UNCHANGED DelayCount(w)
  /\ UNCHANGED asked => \A line : UNCHANGED Owed(line)
BY DEF InstCount, LineCount, WaitCount, DelayCount, Owed, Places

\* The properties, in the terms of the counts.
LEMMA PropertiesCount ==
  ASSUME TypeOK
  PROVE  /\ CountIsOutstanding <=> count = InstCount
         /\ EachWaitsOnce <=> Waits /\ Delays
<1>1. /\ pool \in Seq(Requests) /\ delayed \in Seq(Requests)
      /\ \A n \in DOMAIN pool : pool[n] \in Requests
      /\ \A n \in DOMAIN delayed : delayed[n] \in Requests
  BY LenProperties, ElementOfSeq DEF TypeOK
<1>2. {n \in DOMAIN pool : pool[n].type # "ifetch"} = Places(pool, Data)
  BY <1>1 DEF Places, Data
<1>3. \A w : {n \in DOMAIN pool : w \in pool[n].list} = Places(pool, Has(w))
  BY <1>1 DEF Places, Has
<1>4. \A w : {n \in DOMAIN delayed : delayed[n].waiter = w} = Places(delayed, By(w))
  BY <1>1 DEF Places, By
<1>5. CountIsOutstanding <=> count = InstCount
  BY <1>2 DEF CountIsOutstanding, InstCount
<1>6. EachWaitsOnce <=> Waits /\ Delays
  BY <1>3, <1>4 DEF EachWaitsOnce, Waits, Delays, WaitCount, DelayCount
<1> QED
  BY <1>5, <1>6

-----------------------------------------------------------------------------
(***************************************************************************)
(* What the operations do to the counts.                                   *)
(***************************************************************************)

\* Primes of the counts reach the pools alone.
LEMMA CountsNext ==
  /\ InstCount' = Cardinality(Places(pool', Data))
  /\ \A line : LineCount(line)' = Cardinality(Places(pool', OnLine(line)))
  /\ \A w : WaitCount(w)' = Cardinality(Places(pool', Has(w)))
  /\ \A w : DelayCount(w)' = Cardinality(Places(delayed', By(w)))
  /\ \A line : Owed(line)' = UNION {{type} \X (1 .. asked'[<<line, type>>]) : type \in AllTypes}
BY DEF InstCount, LineCount, WaitCount, DelayCount, Owed

\* Only the lists of waiters change.
LEMMA ListsChange ==
  ASSUME pool \in Seq(Requests), pool' \in Seq(Requests), Len(pool') = Len(pool),
         \A n \in 1 .. Len(pool) : pool'[n].line = pool[n].line /\ pool'[n].type = pool[n].type
  PROVE  UNCHANGED InstCount /\ \A line : UNCHANGED LineCount(line)
<1>1. /\ DOMAIN pool = 1 .. Len(pool) /\ DOMAIN pool' = 1 .. Len(pool)
      /\ \A n \in 1 .. Len(pool) : pool[n] \in Requests /\ pool'[n] \in Requests
  BY LenProperties, ElementOfSeq
<1>2. Places(pool', Data) = Places(pool, Data)
  BY <1>1 DEF Places, Data
<1>3. \A line : Places(pool', OnLine(line)) = Places(pool, OnLine(line))
  BY <1>1 DEF Places, OnLine
<1> QED
  BY <1>2, <1>3, CountsNext DEF InstCount, LineCount

LEMMA JoinCounts ==
  ASSUME TypeOK, NEW w \in Waiters, WaitCount(w) = 0, NEW type, NEW line, Join(w, type, line)
  PROVE  /\ pool' \in Seq(Requests)
         /\ UNCHANGED InstCount
         /\ \A m : UNCHANGED LineCount(m)
         /\ \A v \in Waiters : WaitCount(v)' = IF v = w THEN 1 ELSE WaitCount(v)
<1>1. PICK n : n = Matching(type, line)
  OBVIOUS
<1>2. /\ pool \in Seq(Requests) /\ Len(pool) \in Nat /\ DOMAIN pool = 1 .. Len(pool)
      /\ \A k \in 1 .. Len(pool) : pool[k] \in Requests
  BY LenProperties, ElementOfSeq DEF TypeOK
<1>3. n \in 1 .. Len(pool) /\ pool' = [pool EXCEPT ![n].list = @ \cup {w}]
  BY <1>1, <1>2, MatchingFound DEF Join
<1>4. PICK e : e = [pool[n] EXCEPT !.list = @ \cup {w}]
  OBVIOUS
<1>5. e \in Requests /\ e.line = pool[n].line /\ e.type = pool[n].type /\ e.list = pool[n].list \cup {w}
  <2>1. pool[n] \in Requests
    BY <1>2, <1>3
  <2> QED
    BY <1>4, <2>1 DEF Requests
<1>6. pool' = [pool EXCEPT ![n] = e]
  BY <1>3, <1>4
<1>7. /\ pool' \in Seq(Requests) /\ Len(pool') = Len(pool)
      /\ \A k \in 1 .. Len(pool) : pool'[k] = IF k = n THEN e ELSE pool[k]
  <2>1. n \in 1 .. Len(pool) /\ pool \in Seq(Requests)
    BY <1>2, <1>3
  <2>2. e \in Requests
    BY <1>5
  <2> QED
    BY <1>6, <2>1, <2>2, ExceptSeq
<1>8. UNCHANGED InstCount /\ \A m : UNCHANGED LineCount(m)
  BY <1>2, <1>5, <1>7, ListsChange
<1>9. DOMAIN pool' = 1 .. Len(pool) /\ \A k \in 1 .. Len(pool) : pool'[k] \in Requests
  BY <1>7, LenProperties, ElementOfSeq
<1>10. Places(pool, Has(w)) = {}
  <2>1. Cardinality(Places(pool, Has(w))) = 0 /\ IsFiniteSet(Places(pool, Has(w)))
    BY <1>2, PlacesFinite DEF WaitCount
  <2> QED
    BY <2>1, FS_EmptySet
<1>11. Places(pool', Has(w)) = {n}
  BY <1>2, <1>3, <1>5, <1>7, <1>9, <1>10 DEF Places, Has
<1>12. \A v \in Waiters : v # w => Places(pool', Has(v)) = Places(pool, Has(v))
  BY <1>2, <1>3, <1>5, <1>7, <1>9 DEF Places, Has
<1>13. Cardinality({n}) = 1
  BY FS_Singleton
<1> QED
  BY <1>7, <1>8, <1>11, <1>12, <1>13, CountsNext DEF WaitCount

\* One answer more is owed for the line.
LEMMA OwedGrows ==
  ASSUME TypeOK, NEW type \in AllTypes, NEW line \in Lines,
         asked' = [asked EXCEPT ![<<line, type>>] = @ + 1]
  PROVE  /\ \A m \in Lines : m # line => UNCHANGED Owed(m)
         /\ Owed(line)' = Owed(line) \cup {<<type, asked[<<line, type>>] + 1>>}
         /\ <<type, asked[<<line, type>>] + 1>> \notin Owed(line)
<1>1. \A m \in Lines, t \in AllTypes : asked[<<m, t>>] \in Nat
  BY DEF TypeOK
<1>2. \A m \in Lines, t \in AllTypes :
          asked'[<<m, t>>] = IF m = line /\ t = type THEN asked[<<m, t>>] + 1 ELSE asked[<<m, t>>]
  BY DEF TypeOK
<1>3. \A m \in Lines : m # line => UNCHANGED Owed(m)
  BY <1>2 DEF Owed
<1>0. PICK a : a = asked[<<line, type>>]
  OBVIOUS
<1>4. a \in Nat /\ asked'[<<line, type>>] = a + 1
  BY <1>0, <1>1, <1>2
<1>5. 1 .. a + 1 = (1 .. a) \cup {a + 1}
  BY <1>4
<1>6. \A x : x \in Owed(line) <=> \E t \in AllTypes : x \in {t} \X (1 .. asked[<<line, t>>])
  BY DEF Owed
<1>7. \A x : x \in Owed(line)' <=> \E t \in AllTypes : x \in {t} \X (1 .. asked'[<<line, t>>])
  BY CountsNext
<1>8. \A t \in AllTypes : t # type => asked'[<<line, t>>] = asked[<<line, t>>]
  BY <1>2
<1>9. \A x : x \in {type} \X (1 .. a + 1) <=> x \in {type} \X (1 .. a) \/ x = <<type, a + 1>>
  BY <1>4, <1>5
<1>10. Owed(line)' = Owed(line) \cup {<<type, a + 1>>}
  BY <1>0, <1>4, <1>6, <1>7, <1>8, <1>9
<1>11. <<type, a + 1>> \notin Owed(line)
  <2> SUFFICES ASSUME <<type, a + 1>> \in Owed(line) PROVE FALSE
    OBVIOUS
  <2>1. PICK t \in AllTypes : <<type, a + 1>> \in {t} \X (1 .. asked[<<line, t>>])
    BY <1>6
  <2>2. t = type /\ a + 1 \in 1 .. asked[<<line, t>>]
    BY <2>1
  <2>3. a + 1 \in 1 .. a
    BY <1>0, <2>2
  <2> QED
    BY <1>4, <2>3
<1> QED
  BY <1>0, <1>3, <1>10, <1>11

\* One answer has been given.
LEMMA OwedShrinks ==
  ASSUME TypeOK, NEW type \in AllTypes, NEW line \in Lines, asked[<<line, type>>] > 0,
         asked' = [asked EXCEPT ![<<line, type>>] = @ - 1]
  PROVE  /\ \A m \in Lines : m # line => UNCHANGED Owed(m)
         /\ Owed(line)' = Owed(line) \ {<<type, asked[<<line, type>>]>>}
         /\ <<type, asked[<<line, type>>]>> \in Owed(line)
<1>1. \A m \in Lines, t \in AllTypes : asked[<<m, t>>] \in Nat
  BY DEF TypeOK
<1>2. \A m \in Lines, t \in AllTypes :
          asked'[<<m, t>>] = IF m = line /\ t = type THEN asked[<<m, t>>] - 1 ELSE asked[<<m, t>>]
  BY DEF TypeOK
<1>3. \A m \in Lines : m # line => UNCHANGED Owed(m)
  BY <1>2 DEF Owed
<1>0. PICK a : a = asked[<<line, type>>]
  OBVIOUS
<1>4. a \in Nat /\ a > 0 /\ asked'[<<line, type>>] = a - 1
  BY <1>0, <1>1, <1>2
<1>5. 1 .. a - 1 = (1 .. a) \ {a} /\ a \in 1 .. a
  BY <1>4
<1>6. \A x : x \in Owed(line) <=> \E t \in AllTypes : x \in {t} \X (1 .. asked[<<line, t>>])
  BY DEF Owed
<1>7. \A x : x \in Owed(line)' <=> \E t \in AllTypes : x \in {t} \X (1 .. asked'[<<line, t>>])
  BY CountsNext
<1>8. \A t \in AllTypes : t # type => asked'[<<line, t>>] = asked[<<line, t>>]
  BY <1>2
<1>9. \A x : x \in {type} \X (1 .. a - 1) <=> x \in {type} \X (1 .. a) /\ x # <<type, a>>
  BY <1>4, <1>5
<1>10. \A t \in AllTypes : t # type => <<type, a>> \notin {t} \X (1 .. asked[<<line, t>>])
  OBVIOUS
<1>11. Owed(line)' = Owed(line) \ {<<type, a>>}
  <2>1. ASSUME NEW x PROVE x \in Owed(line)' <=> x \in Owed(line) /\ x # <<type, a>>
    <3>1. ASSUME NEW t \in AllTypes
          PROVE  x \in {t} \X (1 .. asked'[<<line, t>>]) <=>
                     x \in {t} \X (1 .. asked[<<line, t>>]) /\ x # <<type, a>>
      <4>1. CASE t = type
        BY <1>0, <1>4, <1>9, <4>1
      <4>2. CASE t # type
        BY <1>8, <1>10, <4>2
      <4> QED
        BY <4>1, <4>2
    <3> QED
      BY <1>6, <1>7, <3>1
  <2> QED
    BY <2>1
<1>12. <<type, a>> \in Owed(line)
  BY <1>0, <1>4, <1>5, <1>6
<1> QED
  BY <1>0, <1>3, <1>11, <1>12

\* A request is made: it is counted, with its waiter, and an answer is owed for it.
LEMMA MissCounts ==
  ASSUME TypeOK, NEW w \in Waiters, NEW type \in AllTypes, NEW line \in Lines,
         Miss(w, type, line)
  PROVE  /\ pool' \in Seq(Requests)
         /\ InstCount' = IF type = "ifetch" THEN InstCount ELSE InstCount + 1
         /\ \A m \in Lines : LineCount(m)' = IF m = line THEN LineCount(m) + 1 ELSE LineCount(m)
         /\ \A v \in Waiters : WaitCount(v)' = IF v = w THEN WaitCount(v) + 1 ELSE WaitCount(v)
<1>1. PICK r : r = Request(w, type, line, {w})
  OBVIOUS
<1>2. /\ r \in Requests /\ r.line = line /\ r.type = type /\ r.list = {w}
  BY <1>1 DEF Request, Requests, TypeOK
<1>3. pool \in Seq(Requests) /\ pool' = Inserted(pool, r)
  BY <1>1 DEF TypeOK, Miss
<1>4. PICK i : Grown(pool, pool', i, Requests) /\ pool'[i] = r
  BY <1>2, <1>3, InsertedGrows
<1>5. pool' \in Seq(Requests)
  BY <1>4 DEF Grown
<1>6. InstCount' = IF type = "ifetch" THEN InstCount ELSE InstCount + 1
  <2>1. r \in Data <=> type # "ifetch"
    BY <1>2 DEF Data
  <2>2. Cardinality(Places(pool', Data)) =
            IF pool'[i] \in Data THEN Cardinality(Places(pool, Data)) + 1 ELSE Cardinality(Places(pool, Data))
    BY <1>4, GrownCount
  <2> QED
    BY <1>4, <2>1, <2>2, CountsNext DEF InstCount
<1>7. ASSUME NEW m \in Lines
      PROVE  LineCount(m)' = IF m = line THEN LineCount(m) + 1 ELSE LineCount(m)
  <2>1. r \in OnLine(m) <=> m = line
    BY <1>2 DEF OnLine
  <2>2. Cardinality(Places(pool', OnLine(m))) =
            IF pool'[i] \in OnLine(m) THEN Cardinality(Places(pool, OnLine(m))) + 1
            ELSE Cardinality(Places(pool, OnLine(m)))
    BY <1>4, GrownCount
  <2> QED
    BY <1>4, <2>1, <2>2, CountsNext DEF LineCount
<1>8. ASSUME NEW v \in Waiters
      PROVE  WaitCount(v)' = IF v = w THEN WaitCount(v) + 1 ELSE WaitCount(v)
  <2>1. r \in Has(v) <=> v = w
    BY <1>2 DEF Has
  <2>2. Cardinality(Places(pool', Has(v))) =
            IF pool'[i] \in Has(v) THEN Cardinality(Places(pool, Has(v))) + 1
            ELSE Cardinality(Places(pool, Has(v)))
    BY <1>4, GrownCount
  <2> QED
    BY <1>4, <2>1, <2>2, CountsNext DEF WaitCount
<1> QED
  BY <1>5, <1>6, <1>7, <1>8

\* complete: the first request of the line goes, and an answer with it.
LEMMA CompleteCounts ==
  ASSUME TypeOK, NEW type \in AllTypes, NEW line \in Lines, Complete(line, type),
         NEW n, n = FirstOf(pool, line)
  PROVE  /\ n \in 1 .. Len(pool) /\ pool[n] \in Requests /\ pool[n].line = line
         /\ pool' \in Seq(Requests)
         /\ InstCount = IF pool[n].type = "ifetch" THEN InstCount' ELSE InstCount' + 1
         /\ \A m \in Lines : LineCount(m) = IF m = line THEN LineCount(m)' + 1 ELSE LineCount(m)'
         /\ \A v \in Waiters : WaitCount(v) =
                IF v \in pool[n].list THEN WaitCount(v)' + 1 ELSE WaitCount(v)'
<1>1. pool \in Seq(Requests) /\ n # 0 /\ pool' = RemoveAt(pool, n)
  BY DEF TypeOK, Complete, FirstOf
<1>2. n \in 1 .. Len(pool) /\ pool[n].line = line
  BY <1>1, FirstOfLine
<1>3. pool[n] \in Requests
  BY <1>1, <1>2, ElementOfSeq
<1>4. Grown(pool', pool, n, Requests)
  BY <1>1, <1>2, RemoveShrinks
<1>5. pool' \in Seq(Requests)
  BY <1>4 DEF Grown
<1>6. InstCount = IF pool[n].type = "ifetch" THEN InstCount' ELSE InstCount' + 1
  <2>1. pool[n] \in Data <=> pool[n].type # "ifetch"
    BY <1>3 DEF Data
  <2>2. Cardinality(Places(pool, Data)) =
            IF pool[n] \in Data THEN Cardinality(Places(pool', Data)) + 1 ELSE Cardinality(Places(pool', Data))
    BY <1>4, GrownCount
  <2> QED
    BY <2>1, <2>2, CountsNext DEF InstCount
<1>7. ASSUME NEW m \in Lines
      PROVE  LineCount(m) = IF m = line THEN LineCount(m)' + 1 ELSE LineCount(m)'
  <2>1. pool[n] \in OnLine(m) <=> m = line
    BY <1>2, <1>3 DEF OnLine
  <2>2. Cardinality(Places(pool, OnLine(m))) =
            IF pool[n] \in OnLine(m) THEN Cardinality(Places(pool', OnLine(m))) + 1
            ELSE Cardinality(Places(pool', OnLine(m)))
    BY <1>4, GrownCount
  <2> QED
    BY <2>1, <2>2, CountsNext DEF LineCount
<1>8. ASSUME NEW v \in Waiters
      PROVE  WaitCount(v) = IF v \in pool[n].list THEN WaitCount(v)' + 1 ELSE WaitCount(v)'
  <2>1. pool[n] \in Has(v) <=> v \in pool[n].list
    BY <1>3 DEF Has
  <2>2. Cardinality(Places(pool, Has(v))) =
            IF pool[n] \in Has(v) THEN Cardinality(Places(pool', Has(v))) + 1
            ELSE Cardinality(Places(pool', Has(v)))
    BY <1>4, GrownCount
  <2> QED
    BY <2>1, <2>2, CountsNext DEF WaitCount
<1> QED
  BY <1>2, <1>3, <1>5, <1>6, <1>7, <1>8

\* A squashed waiter is on no list.
LEMMA SquashCounts ==
  ASSUME TypeOK, NEW w \in Waiters,
         pool' = [n \in DOMAIN pool |-> [pool[n] EXCEPT !.list = @ \ {w}]]
  PROVE  /\ pool' \in Seq(Requests)
         /\ UNCHANGED InstCount
         /\ \A m : UNCHANGED LineCount(m)
         /\ \A v \in Waiters : WaitCount(v)' = IF v = w THEN 0 ELSE WaitCount(v)
<1>1. /\ pool \in Seq(Requests) /\ Len(pool) \in Nat /\ DOMAIN pool = 1 .. Len(pool)
      /\ \A k \in 1 .. Len(pool) : pool[k] \in Requests
  BY LenProperties, ElementOfSeq DEF TypeOK
<1>2. ASSUME NEW k \in 1 .. Len(pool)
      PROVE  /\ pool'[k] \in Requests /\ pool'[k].line = pool[k].line
             /\ pool'[k].type = pool[k].type /\ pool'[k].list = pool[k].list \ {w}
  <2>1. pool'[k] = [pool[k] EXCEPT !.list = @ \ {w}]
    BY <1>1
  <2>2. pool[k] \in Requests
    BY <1>1
  <2> QED
    BY <2>1, <2>2 DEF Requests
<1>3. DOMAIN pool' = 1 .. Len(pool)
  BY <1>1
<1>4. pool' \in [1 .. Len(pool) -> Requests]
  <2>1. pool' = [n \in DOMAIN pool' |-> pool'[n]]
    BY Zenon
  <2> QED
    BY <1>2, <1>3, <2>1
<1>5. pool' \in Seq(Requests) /\ Len(pool') = Len(pool)
  <2>1. pool' \in Seq(Requests)
    BY <1>1, <1>4, SeqDef
  <2> QED
    BY <1>1, <1>3, <2>1, LenProperties
<1>6. UNCHANGED InstCount /\ \A m : UNCHANGED LineCount(m)
  BY <1>1, <1>2, <1>5, ListsChange
<1>7. Places(pool', Has(w)) = {}
  BY <1>2, <1>3 DEF Places, Has
<1>8. \A v \in Waiters : v # w => Places(pool', Has(v)) = Places(pool, Has(v))
  BY <1>1, <1>2, <1>3 DEF Places, Has
<1> QED
  BY <1>5, <1>6, <1>7, <1>8, CountsNext, FS_EmptySet DEF WaitCount

\* A request joins the delayed ones.
LEMMA DelayCounts ==
  ASSUME NEW list \in Seq(Requests), NEW r \in Requests, NEW v
  PROVE  /\ Inserted(list, r) \in Seq(Requests)
         /\ Inserted(list, r) # <<>>
         /\ Cardinality(Places(Inserted(list, r), By(v))) =
                IF r.waiter = v THEN Cardinality(Places(list, By(v))) + 1 ELSE Cardinality(Places(list, By(v)))
<1>1. r \in By(v) <=> r.waiter = v
  BY DEF By
<1> QED
  BY <1>1, InsertedCount

\* The first of the delayed requests is taken.
LEMMA HeadCounts ==
  ASSUME NEW s \in Seq(Requests), s # <<>>, NEW v
  PROVE  /\ Head(s) \in Requests /\ Tail(s) \in Seq(Requests)
         /\ Cardinality(Places(s, By(v))) =
                IF Head(s).waiter = v THEN Cardinality(Places(Tail(s), By(v))) + 1
                ELSE Cardinality(Places(Tail(s), By(v)))
<1>1. Grown(Tail(s), s, 1, Requests) /\ Head(s) = s[1] /\ 1 \in 1 .. Len(s)
  BY TailShrinks
<1>2. Tail(s) \in Seq(Requests) /\ Head(s) \in Requests
  BY <1>1, ElementOfSeq DEF Grown
<1>3. s[1] \in By(v) <=> Head(s).waiter = v
  BY <1>1, <1>2 DEF By
<1>4. Cardinality(Places(s, By(v))) =
          IF s[1] \in By(v) THEN Cardinality(Places(Tail(s), By(v))) + 1
          ELSE Cardinality(Places(Tail(s), By(v)))
  BY <1>1, GrownCount
<1> QED
  BY <1>2, <1>3, <1>4

\* The delayed request of a squashed waiter goes, if it has one.
LEMMA SquashDelayCounts ==
  ASSUME TypeOK, Delays, NEW w \in Waiters,
         delayed' = LET match == SelectInSeq(delayed, LAMBDA r : r.waiter = w)
                    IN  IF match = 0 THEN delayed ELSE RemoveAt(delayed, match)
  PROVE  /\ delayed' \in Seq(Requests)
         /\ delayed = <<>> => delayed' = <<>>
         /\ \A v \in Waiters : DelayCount(v)' = IF v = w THEN 0 ELSE DelayCount(v)
<1>1. /\ delayed \in Seq(Requests) /\ Len(delayed) \in Nat /\ DOMAIN delayed = 1 .. Len(delayed)
      /\ \A k \in 1 .. Len(delayed) : delayed[k] \in Requests
  BY LenProperties, ElementOfSeq DEF TypeOK
<1>2. PICK n : n = DelayedOf(delayed, w)
  OBVIOUS
<1>3. delayed' = IF n = 0 THEN delayed ELSE RemoveAt(delayed, n)
  BY <1>2 DEF DelayedOf
<1>4. /\ n = 0 => \A k \in 1 .. Len(delayed) : delayed[k].waiter # w
      /\ n # 0 => n \in 1 .. Len(delayed) /\ delayed[n].waiter = w
  BY <1>1, <1>2, FirstOfWaiter
<1>5. CASE n = 0
  <2>1. Places(delayed, By(w)) = {}
    BY <1>1, <1>4, <1>5 DEF Places, By
  <2>2. DelayCount(w) = 0
    BY <2>1, FS_EmptySet DEF DelayCount
  <2>3. delayed' = delayed
    BY <1>3, <1>5
  <2> QED
    BY <1>1, <2>2, <2>3, CountsUnchanged
<1>6. CASE n # 0
  <2>1. n \in 1 .. Len(delayed) /\ delayed[n].waiter = w /\ delayed' = RemoveAt(delayed, n)
    BY <1>3, <1>4, <1>6
  <2>2. delayed[n] \in Requests
    BY <1>1, <2>1
  <2>3. Grown(delayed', delayed, n, Requests)
    BY <1>1, <2>1, RemoveShrinks
  <2>4. delayed' \in Seq(Requests)
    BY <2>3 DEF Grown
  <2>5. delayed # <<>>
    BY <1>1, <2>1, EmptySeq
  <2>6. ASSUME NEW v \in Waiters
        PROVE  DelayCount(v) = IF v = w THEN DelayCount(v)' + 1 ELSE DelayCount(v)'
    <3>1. delayed[n] \in By(v) <=> v = w
      BY <2>1, <2>2 DEF By
    <3>2. Cardinality(Places(delayed, By(v))) =
              IF delayed[n] \in By(v) THEN Cardinality(Places(delayed', By(v))) + 1
              ELSE Cardinality(Places(delayed', By(v)))
      <4>1. PICK P : P = By(v)
        OBVIOUS
      <4>2. Cardinality(Places(delayed, P)) =
                IF delayed[n] \in P THEN Cardinality(Places(delayed', P)) + 1
                ELSE Cardinality(Places(delayed', P))
        BY <2>3, GrownCount
      <4> QED
        BY <4>1, <4>2
    <3> QED
      BY <3>1, <3>2, CountsNext DEF DelayCount
  <2>7. \A v \in Waiters : DelayCount(v) \in Nat /\ DelayCount(v)' \in Nat
    BY <1>1, <2>4, PlacesFinite, CountsNext DEF DelayCount
  <2>8. DelayCount(w) \in {0, 1}
    BY DEF Delays
  <2>9. DelayCount(w)' = 0
    BY <2>6, <2>7, <2>8
  <2> QED
    BY <2>4, <2>5, <2>6, <2>9
<1> QED
  BY <1>5, <1>6

-----------------------------------------------------------------------------
(***************************************************************************)
(* The invariant holds at first.                                           *)
(***************************************************************************)

LEMMA InitIInv == Init => IInv
<1> SUFFICES ASSUME Init PROVE IInv
  OBVIOUS
<1>1. <<>> \in Seq(Requests) /\ DOMAIN <<>> = {}
  BY EmptySeq
<1>2. TypeOK
  <2>1. now \in 0 .. LastCycle /\ count \in 0 .. MaxOutstanding
    BY RubyCacheAssumption DEF Init
  <2>2. asked \in [Lines \X AllTypes -> Nat] /\ stage \in [Waiters -> Stages]
    BY DEF Init, Stages
  <2>3. pool \in Seq(Requests) /\ delayed \in Seq(Requests) /\ scheduled \in BOOLEAN
    BY <1>1 DEF Init
  <2> QED
    BY <2>1, <2>2, <2>3 DEF TypeOK
<1>3. \A P : Places(<<>>, P) = {}
  BY <1>1 DEF Places
<1>4. Cardinality({}) = 0 /\ IsFiniteSet({})
  BY FS_EmptySet
<1>5. count = InstCount /\ Waits /\ Delays
  BY <1>3, <1>4 DEF Init, InstCount, Waits, Delays, WaitCount, DelayCount
<1>6. Matched
  <2> SUFFICES ASSUME NEW line \in Lines
               PROVE  IsFiniteSet(Owed(line)) /\ Cardinality(Owed(line)) = LineCount(line)
    BY DEF Matched
  <2>1. \A type \in AllTypes : asked[<<line, type>>] = 0
    BY DEF Init
  <2>2. \A type \in AllTypes : {type} \X (1 .. asked[<<line, type>>]) = {}
    BY <2>1
  <2>3. Owed(line) = {}
    BY <2>2 DEF Owed
  <2> QED
    BY <1>3, <1>4, <2>3 DEF Init, LineCount
<1> QED
  BY <1>2, <1>5, <1>6 DEF IInv, Init, DelayedIsRemembered

-----------------------------------------------------------------------------
(***************************************************************************)
(* A request goes to ruby, or finds one that did: by an access, or by      *)
(* Wakeup for a delayed one.                                               *)
(***************************************************************************)

\* The part of the invariant that the outstanding requests have.
Outstanding ==
    /\ pool \in Seq(Requests)
    /\ count \in 0 .. MaxOutstanding
    /\ asked \in [Lines \X AllTypes -> Nat]
    /\ count = InstCount
    /\ Matched
    /\ Waits

Served(w, type, line, then) == Join(w, type, line) \/ Hit(w, type, line, then) \/ Miss(w, type, line)

\* An answer more is owed where a request is made.
LEMMA MissMatched ==
  ASSUME TypeOK, Matched, NEW w \in Waiters, NEW type \in AllTypes, NEW line \in Lines,
         Miss(w, type, line)
  PROVE  Matched' /\ asked' \in [Lines \X AllTypes -> Nat]
<1>1. asked' = [asked EXCEPT ![<<line, type>>] = @ + 1]
  BY DEF Miss
<1>2. asked' \in [Lines \X AllTypes -> Nat]
  BY <1>1 DEF TypeOK
<1>3. ASSUME NEW m \in Lines
      PROVE  IsFiniteSet(Owed(m)') /\ Cardinality(Owed(m)') = LineCount(m)'
  <2>1. IsFiniteSet(Owed(m)) /\ Cardinality(Owed(m)) = LineCount(m)
    BY DEF Matched
  <2>2. LineCount(m)' = IF m = line THEN LineCount(m) + 1 ELSE LineCount(m)
    BY MissCounts
  <2>3. CASE m # line
    BY <1>1, <2>1, <2>2, <2>3, OwedGrows
  <2>4. CASE m = line
    <3>1. PICK x : Owed(m)' = Owed(m) \cup {x} /\ x \notin Owed(m)
      BY <1>1, <2>4, OwedGrows
    <3>2. IsFiniteSet(Owed(m) \cup {x}) /\ Cardinality(Owed(m) \cup {x}) = Cardinality(Owed(m)) + 1
      BY <2>1, <3>1, FS_AddElement
    <3> QED
      BY <2>1, <2>2, <2>4, <3>1, <3>2
  <2> QED
    BY <2>3, <2>4
<1> QED
  BY <1>2, <1>3 DEF Matched

LEMMA ServedKeeps ==
  ASSUME IInv, NEW w \in Waiters, NEW type \in AllTypes, NEW line \in Lines,
         NEW then \in {"done", "queued"}, stage[w] # "waiting", Served(w, type, line, then)
  PROVE  /\ Outstanding'
         /\ \E x \in {"waiting", then} : stage' = [stage EXCEPT ![w] = x]
<1> USE DEF IInv
<1>1. WaitCount(w) = 0 /\ stage \in [Waiters -> Stages]
  BY DEF Waits, TypeOK
<1>2. \A v \in Waiters : WaitCount(v) = IF stage[v] = "waiting" THEN 1 ELSE 0
  BY DEF Waits
<1>3. pool \in Seq(Requests) /\ count \in 0 .. MaxOutstanding /\ asked \in [Lines \X AllTypes -> Nat]
  BY DEF TypeOK
<1>4. CASE Join(w, type, line)
  <2>1. /\ pool' \in Seq(Requests) /\ UNCHANGED InstCount /\ \A m : UNCHANGED LineCount(m)
        /\ \A v \in Waiters : WaitCount(v)' = IF v = w THEN 1 ELSE WaitCount(v)
    BY <1>1, <1>4, JoinCounts
  <2>2. UNCHANGED <<count, asked>> /\ stage' = [stage EXCEPT ![w] = "waiting"]
    BY <1>4 DEF Join
  <2>3. Matched'
    BY <2>1, <2>2, CountsUnchanged DEF Matched
  <2>4. Waits'
    BY <1>1, <1>2, <2>1, <2>2 DEF Waits
  <2> QED
    BY <1>3, <2>1, <2>2, <2>3, <2>4 DEF Outstanding
<1>5. CASE Hit(w, type, line, then)
  <2>1. UNCHANGED <<pool, count, asked>> /\ stage' = [stage EXCEPT ![w] = then]
    BY <1>5 DEF Hit
  <2>2. Matched' /\ count' = InstCount'
    BY <2>1, CountsUnchanged DEF Matched
  <2>3. Waits'
    BY <1>1, <1>2, <2>1, CountsUnchanged DEF Waits
  <2> QED
    BY <1>3, <2>1, <2>2, <2>3 DEF Outstanding
<1>6. CASE Miss(w, type, line)
  <2>1. /\ pool' \in Seq(Requests)
        /\ InstCount' = IF type = "ifetch" THEN InstCount ELSE InstCount + 1
        /\ \A v \in Waiters : WaitCount(v)' = IF v = w THEN WaitCount(v) + 1 ELSE WaitCount(v)
    BY <1>6, MissCounts
  <2>2. /\ count' = IF type = "ifetch" THEN count ELSE count + 1
        /\ stage' = [stage EXCEPT ![w] = "waiting"]
        /\ type = "ifetch" \/ count < MaxOutstanding
    BY <1>3, <1>6, RubyCacheAssumption DEF Miss, Full
  <2>3. Matched' /\ asked' \in [Lines \X AllTypes -> Nat]
    BY <1>6, MissMatched
  <2>4. Waits'
    BY <1>1, <1>2, <2>1, <2>2 DEF Waits
  <2>5. count' = InstCount' /\ count' \in 0 .. MaxOutstanding
    BY <1>3, <2>1, <2>2, RubyCacheAssumption
  <2> QED
    BY <2>1, <2>2, <2>3, <2>4, <2>5 DEF Outstanding
<1> QED
  BY <1>4, <1>5, <1>6 DEF Served

-----------------------------------------------------------------------------
(***************************************************************************)
(* Ruby answers.                                                           *)
(***************************************************************************)

\* One answer and one request of the line go, whatever their types.
LEMMA CompleteMatched ==
  ASSUME TypeOK, Matched, NEW type \in AllTypes, NEW line \in Lines, Complete(line, type)
  PROVE  Matched' /\ asked' \in [Lines \X AllTypes -> Nat]
<1>1. asked' = [asked EXCEPT ![<<line, type>>] = @ - 1] /\ asked[<<line, type>>] > 0
  BY DEF Complete
<1>2. asked' \in [Lines \X AllTypes -> Nat]
  <2>1. asked \in [Lines \X AllTypes -> Nat] /\ asked[<<line, type>>] \in Nat
    BY DEF TypeOK
  <2>2. asked[<<line, type>>] - 1 \in Nat
    BY <1>1, <2>1
  <2> QED
    BY <1>1, <2>1, <2>2
<1>3. ASSUME NEW m \in Lines
      PROVE  IsFiniteSet(Owed(m)') /\ Cardinality(Owed(m)') = LineCount(m)'
  <2>1. IsFiniteSet(Owed(m)) /\ Cardinality(Owed(m)) = LineCount(m)
    BY DEF Matched
  <2>2. LineCount(m) = IF m = line THEN LineCount(m)' + 1 ELSE LineCount(m)'
    BY CompleteCounts
  <2>3. CASE m # line
    BY <1>1, <2>1, <2>2, <2>3, OwedShrinks
  <2>4. CASE m = line
    <3>1. PICK x : Owed(m)' = Owed(m) \ {x} /\ x \in Owed(m)
      BY <1>1, <2>4, OwedShrinks
    <3>2. IsFiniteSet(Owed(m) \ {x}) /\ Cardinality(Owed(m) \ {x}) = Cardinality(Owed(m)) - 1
      BY <2>1, <3>1, FS_RemoveElement
    <3>3. LineCount(m)' \in Nat
      <4>1. pool' \in Seq(Requests)
        BY CompleteCounts
      <4> QED
        BY <4>1, PlacesFinite, CountsNext
    <3> QED
      BY <2>1, <2>2, <2>4, <3>1, <3>2, <3>3
  <2> QED
    BY <2>3, <2>4
<1> QED
  BY <1>2, <1>3 DEF Matched

LEMMA CompleteKeeps ==
  ASSUME IInv, NEW type \in AllTypes, NEW line \in Lines, Complete(line, type)
  PROVE  IInv'
<1> USE DEF IInv
<1>1. PICK n : n = FirstOf(pool, line)
  OBVIOUS
<1>2. /\ n \in 1 .. Len(pool) /\ pool[n] \in Requests /\ pool[n].line = line
      /\ pool' \in Seq(Requests)
      /\ InstCount = IF pool[n].type = "ifetch" THEN InstCount' ELSE InstCount' + 1
      /\ \A v \in Waiters : WaitCount(v) =
             IF v \in pool[n].list THEN WaitCount(v)' + 1 ELSE WaitCount(v)'
  BY <1>1, CompleteCounts
<1>3. Matched' /\ asked' \in [Lines \X AllTypes -> Nat]
  BY CompleteMatched
<1>4. /\ count' = IF pool[n].type = "ifetch" THEN count ELSE count - 1
      /\ scheduled' = (scheduled \/ delayed # <<>>)
      /\ stage' = [w \in Waiters |-> IF w \in pool[n].list THEN "done" ELSE stage[w]]
      /\ UNCHANGED <<now, delayed>>
  BY <1>1 DEF Complete, FirstOf
<1>5. InstCount' \in Nat /\ \A v : WaitCount(v)' \in Nat
  BY <1>2, PlacesFinite, CountsNext
<1>6. count' = InstCount' /\ count' \in 0 .. MaxOutstanding
  <2>1. count \in 0 .. MaxOutstanding /\ count = InstCount /\ MaxOutstanding \in Nat
    BY RubyCacheAssumption DEF TypeOK
  <2>2. CASE pool[n].type = "ifetch"
    <3>1. count' = count /\ InstCount = InstCount'
      BY <1>2, <1>4, <2>2
    <3> QED
      BY <2>1, <3>1
  <2>3. CASE pool[n].type # "ifetch"
    <3>1. count' = count - 1 /\ InstCount = InstCount' + 1 /\ InstCount' \in Nat
      BY <1>2, <1>4, <1>5, <2>3
    <3>2. PICK a, b : a = InstCount /\ b = InstCount'
      OBVIOUS
    <3>3. count = a /\ count' = count - 1 /\ a = b + 1 /\ b \in Nat
      BY <2>1, <3>1, <3>2
    <3>4. count' = b /\ count' \in 0 .. MaxOutstanding
      BY <2>1, <3>3
    <3> QED
      BY <3>2, <3>4
  <2> QED
    BY <2>2, <2>3
<1>7. \A v \in Waiters : stage'[v] = IF v \in pool[n].list THEN "done" ELSE stage[v]
  BY <1>4
<1>8. \A v \in Waiters : v \in pool[n].list => WaitCount(v)' = 0 /\ stage[v] = "waiting"
  BY <1>2, <1>5 DEF Waits
<1>9. Waits'
  BY <1>2, <1>7, <1>8 DEF Waits
<1>10. Delays'
  BY <1>4, <1>7, <1>8, CountsUnchanged DEF Delays
<1>11. stage' \in [Waiters -> Stages]
  BY <1>4 DEF TypeOK, Stages
<1>12. TypeOK'
  BY <1>2, <1>3, <1>4, <1>6, <1>11 DEF TypeOK
<1>13. DelayedIsRemembered'
  BY <1>4 DEF DelayedIsRemembered
<1> QED
  BY <1>3, <1>6, <1>9, <1>10, <1>12, <1>13

-----------------------------------------------------------------------------
(***************************************************************************)
(* The other operations.                                                   *)
(***************************************************************************)

LEMMA AccessKeeps ==
  ASSUME IInv, NEW w \in Waiters, NEW type \in AllTypes, NEW line \in Lines, Access(w, type, line)
  PROVE  IInv'
<1> USE DEF IInv
<1>1. stage[w] = "idle" /\ stage \in [Waiters -> Stages] /\ UNCHANGED <<now, scheduled>>
  BY DEF Access, TypeOK
<1>2. CASE Served(w, type, line, "done") /\ UNCHANGED delayed
  <2>1. Outstanding' /\ \E x \in {"waiting", "done"} : stage' = [stage EXCEPT ![w] = x]
    BY <1>1, <1>2, ServedKeeps
  <2>2. PICK x \in {"waiting", "done"} : stage' = [stage EXCEPT ![w] = x]
    BY <2>1
  <2>3. Delays'
    BY <1>1, <1>2, <2>2, CountsUnchanged DEF Delays
  <2>4. stage' \in [Waiters -> Stages]
    BY <1>1, <2>2 DEF Stages
  <2>5. TypeOK'
    BY <1>1, <1>2, <2>1, <2>4 DEF TypeOK, Outstanding
  <2>6. DelayedIsRemembered'
    <3>1. CASE count' = count
      BY <1>1, <1>2, <3>1 DEF DelayedIsRemembered
    <3>2. CASE count' # count
      <4>1. ~ Full(type) /\ type # "ifetch"
        BY <1>2, <3>2 DEF Served, Join, Hit, Miss
      <4>2. count < MaxOutstanding /\ count \in 0 .. MaxOutstanding
        BY <4>1, RubyCacheAssumption DEF Full, TypeOK
      <4> QED
        BY <1>1, <1>2, <4>2 DEF DelayedIsRemembered
    <3> QED
      BY <3>1, <3>2
  <2> QED
    BY <2>1, <2>3, <2>5, <2>6 DEF Outstanding
<1>3. CASE Delay(w, type, line)
  <2>1. PICK r : r = Request(w, type, line, {})
    OBVIOUS
  <2>2. r \in Requests /\ r.waiter = w
    BY <2>1 DEF Request, Requests, TypeOK
  <2>3. /\ delayed' = Inserted(delayed, r) /\ delayed \in Seq(Requests)
        /\ stage' = [stage EXCEPT ![w] = "delayed"]
        /\ UNCHANGED <<pool, count, asked>>
    BY <1>3, <2>1 DEF Delay, TypeOK
  <2>4. delayed' \in Seq(Requests)
    BY <2>2, <2>3, DelayCounts
  <2>5. \A v \in Waiters : DelayCount(v)' = IF v = w THEN DelayCount(v) + 1 ELSE DelayCount(v)
    BY <2>2, <2>3, DelayCounts, CountsNext DEF DelayCount
  <2>6. Delays'
    BY <1>1, <2>3, <2>5 DEF Delays
  <2>7. Waits'
    BY <1>1, <2>3, CountsUnchanged DEF Waits
  <2>8. Matched' /\ count' = InstCount'
    BY <2>3, CountsUnchanged DEF Matched
  <2>9. stage' \in [Waiters -> Stages]
    BY <1>1, <2>3 DEF Stages
  <2>10. TypeOK'
    BY <1>1, <2>3, <2>4, <2>9 DEF TypeOK
  <2>11. count' = MaxOutstanding
    BY <1>3, <2>3, RubyCacheAssumption DEF Delay, Full, TypeOK
  <2> QED
    BY <2>6, <2>7, <2>8, <2>10, <2>11 DEF DelayedIsRemembered
<1> QED
  BY <1>2, <1>3 DEF Access, Served

LEMMA WakeupKeeps ==
  ASSUME IInv, Wakeup
  PROVE  IInv'
<1> USE DEF IInv
<1>1. /\ stage \in [Waiters -> Stages] /\ delayed \in Seq(Requests) /\ UNCHANGED now
      /\ count \in 0 .. MaxOutstanding
  BY DEF Wakeup, TypeOK
<1>2. CASE count >= MaxOutstanding \/ delayed = <<>>
  <2>1. scheduled' = FALSE /\ UNCHANGED <<pool, delayed, count, asked, stage>>
    BY <1>2 DEF Wakeup
  <2>2. TypeOK'
    BY <1>1, <2>1 DEF TypeOK
  <2>3. Matched' /\ Waits' /\ Delays' /\ count' = InstCount'
    BY <2>1, CountsUnchanged DEF Matched, Waits, Delays
  <2>4. DelayedIsRemembered'
    BY <1>1, <1>2, <2>1, RubyCacheAssumption DEF DelayedIsRemembered
  <2> QED
    BY <2>2, <2>3, <2>4
<1>3. CASE ~ (count >= MaxOutstanding \/ delayed = <<>>)
  <2>1. PICK r : r = Head(delayed)
    OBVIOUS
  <2>2. /\ Served(r.waiter, r.type, r.line, "queued")
        /\ delayed' = Tail(delayed)
        /\ scheduled' = (delayed' # <<>>)
    BY <1>3, <2>1 DEF Wakeup, Served
  <2>3. r \in Requests /\ delayed' \in Seq(Requests)
    BY <1>1, <1>3, <2>1, <2>2, HeadCounts
  <2>4. r.waiter \in Waiters /\ r.type \in AllTypes /\ r.line \in Lines
    BY <2>3 DEF Requests
  <2>5. \A v \in Waiters : DelayCount(v) =
            IF v = r.waiter THEN DelayCount(v)' + 1 ELSE DelayCount(v)'
    BY <1>1, <1>3, <2>1, <2>2, HeadCounts, CountsNext DEF DelayCount
  <2>6. \A v : DelayCount(v)' \in Nat
    BY <2>3, PlacesFinite, CountsNext
  <2>7. stage[r.waiter] = "delayed" /\ DelayCount(r.waiter)' = 0
    BY <2>4, <2>5, <2>6 DEF Delays
  <2>8. Outstanding' /\ \E x \in {"waiting", "queued"} : stage' = [stage EXCEPT ![r.waiter] = x]
    BY <2>2, <2>4, <2>7, ServedKeeps
  <2>9. PICK x \in {"waiting", "queued"} : stage' = [stage EXCEPT ![r.waiter] = x]
    BY <2>8
  <2>10. Delays'
    BY <1>1, <2>4, <2>5, <2>7, <2>9 DEF Delays
  <2>11. stage' \in [Waiters -> Stages]
    BY <1>1, <2>9 DEF Stages
  <2>12. scheduled' \in BOOLEAN /\ DelayedIsRemembered'
    BY <2>2 DEF DelayedIsRemembered
  <2>13. TypeOK'
    BY <1>1, <2>3, <2>8, <2>11, <2>12 DEF TypeOK, Outstanding
  <2> QED
    BY <2>8, <2>10, <2>12, <2>13 DEF Outstanding
<1> QED
  BY <1>2, <1>3

LEMMA NotReadyKeeps ==
  ASSUME IInv, WakeupNotReady
  PROVE  IInv'
<1> USE DEF IInv
<1>1. /\ delayed \in Seq(Requests) /\ delayed # <<>> /\ scheduled
      /\ delayed' = Inserted(Tail(delayed), Head(delayed))
      /\ UNCHANGED <<now, pool, count, scheduled, asked, stage>>
  BY DEF WakeupNotReady, TypeOK
<1>2. Head(delayed) \in Requests /\ Tail(delayed) \in Seq(Requests)
  BY <1>1, HeadCounts
<1>3. delayed' \in Seq(Requests)
  BY <1>1, <1>2, DelayCounts
<1>4. ASSUME NEW v \in Waiters PROVE DelayCount(v)' = DelayCount(v)
  <2>1. Cardinality(Places(delayed, By(v))) =
            IF Head(delayed).waiter = v THEN Cardinality(Places(Tail(delayed), By(v))) + 1
            ELSE Cardinality(Places(Tail(delayed), By(v)))
    BY <1>1, HeadCounts
  <2>2. Cardinality(Places(delayed', By(v))) =
            IF Head(delayed).waiter = v THEN Cardinality(Places(Tail(delayed), By(v))) + 1
            ELSE Cardinality(Places(Tail(delayed), By(v)))
    BY <1>1, <1>2, DelayCounts
  <2> QED
    BY <2>1, <2>2, CountsNext DEF DelayCount
<1>5. TypeOK'
  BY <1>1, <1>3 DEF TypeOK
<1>6. Matched' /\ Waits' /\ count' = InstCount'
  BY <1>1, CountsUnchanged DEF Matched, Waits
<1>7. Delays'
  BY <1>1, <1>4 DEF Delays
<1> QED
  BY <1>1, <1>5, <1>6, <1>7 DEF DelayedIsRemembered

LEMMA SquashKeeps ==
  ASSUME IInv, NEW w \in Waiters, Squash(w)
  PROVE  IInv'
<1> USE DEF IInv
<1>1. stage' = [stage EXCEPT ![w] = "done"] /\ UNCHANGED <<now, count, scheduled, asked>>
  BY DEF Squash
<1>2. /\ pool' \in Seq(Requests) /\ UNCHANGED InstCount /\ \A m : UNCHANGED LineCount(m)
      /\ \A v \in Waiters : WaitCount(v)' = IF v = w THEN 0 ELSE WaitCount(v)
  BY SquashCounts DEF Squash
<1>3. /\ delayed' \in Seq(Requests) /\ (delayed = <<>> => delayed' = <<>>)
      /\ \A v \in Waiters : DelayCount(v)' = IF v = w THEN 0 ELSE DelayCount(v)
  BY SquashDelayCounts DEF Squash
<1>4. stage \in [Waiters -> Stages] /\ stage' \in [Waiters -> Stages]
  BY <1>1 DEF TypeOK, Stages
<1>5. TypeOK'
  BY <1>1, <1>2, <1>3, <1>4 DEF TypeOK
<1>6. Matched' /\ count' = InstCount'
  BY <1>1, <1>2, CountsUnchanged DEF Matched
<1>7. Waits'
  BY <1>1, <1>2, <1>4 DEF Waits
<1>8. Delays'
  BY <1>1, <1>3, <1>4 DEF Delays
<1>9. DelayedIsRemembered'
  BY <1>1, <1>3 DEF DelayedIsRemembered
<1> QED
  BY <1>5, <1>6, <1>7, <1>8, <1>9

\* Steps that leave both pools alone and move no waiter to or from them.
LEMMA AsideKeeps ==
  ASSUME IInv, UNCHANGED <<pool, delayed, count, scheduled, asked>>,
         now' \in 0 .. LastCycle, stage' \in [Waiters -> Stages],
         \A v \in Waiters : stage'[v] = stage[v] \/
                            (stage[v] \notin {"waiting", "delayed"} /\ stage'[v] \notin {"waiting", "delayed"})
  PROVE  IInv'
<1> USE DEF IInv
<1>1. TypeOK'
  BY DEF TypeOK
<1>2. Matched' /\ count' = InstCount'
  BY CountsUnchanged DEF Matched
<1>3. Waits' /\ Delays'
  BY CountsUnchanged DEF Waits, Delays
<1>4. DelayedIsRemembered'
  BY DEF DelayedIsRemembered
<1> QED
  BY <1>1, <1>2, <1>3, <1>4

LEMMA NextIInv == IInv /\ [Next]_vars => IInv'
<1> SUFFICES ASSUME IInv, [Next]_vars PROVE IInv'
  OBVIOUS
<1>0. now \in 0 .. LastCycle /\ stage \in [Waiters -> Stages]
  BY DEF IInv, TypeOK
<1>1. CASE UNCHANGED vars
  BY <1>0, <1>1, AsideKeeps DEF vars
<1>2. ASSUME NEW w \in Waiters, NEW type \in AllTypes, NEW line \in Lines, Access(w, type, line)
      PROVE  IInv'
  BY <1>2, AccessKeeps
<1>3. ASSUME NEW line \in Lines, NEW type \in AllTypes, Complete(line, type)
      PROVE  IInv'
  BY <1>3, CompleteKeeps
<1>4. ASSUME NEW w \in Waiters, Resume(w) PROVE IInv'
  <2>1. /\ stage[w] = "queued" /\ stage' = [stage EXCEPT ![w] = "done"]
        /\ UNCHANGED <<now, pool, count, asked, delayed, scheduled>>
    BY <1>4 DEF Resume
  <2>2. stage' \in [Waiters -> Stages]
    BY <1>0, <2>1 DEF Stages
  <2>3. \A v \in Waiters : stage'[v] = stage[v] \/
            (stage[v] \notin {"waiting", "delayed"} /\ stage'[v] \notin {"waiting", "delayed"})
    BY <1>0, <2>1
  <2> QED
    BY <1>0, <2>1, <2>2, <2>3, AsideKeeps
<1>5. CASE Tick
  <2>1. /\ now' \in 0 .. LastCycle
        /\ stage' = [stage EXCEPT ![Sequencer] = IF @ = "done" THEN "idle" ELSE @]
        /\ UNCHANGED <<pool, delayed, count, scheduled, asked>>
    BY <1>0, <1>5, RubyCacheAssumption DEF Tick
  <2>2. stage' \in [Waiters -> Stages]
    BY <1>0, <2>1 DEF Stages
  <2>3. \A v \in Waiters : stage'[v] = stage[v] \/
            (stage[v] \notin {"waiting", "delayed"} /\ stage'[v] \notin {"waiting", "delayed"})
    BY <1>0, <2>1
  <2> QED
    BY <2>1, <2>2, <2>3, AsideKeeps
<1> QED
  BY <1>1, <1>2, <1>3, <1>4, <1>5, WakeupKeeps, NotReadyKeeps, SquashKeeps DEF Next

-----------------------------------------------------------------------------
(***************************************************************************)
(* The theorems.                                                           *)
(***************************************************************************)

THEOREM Invariance == Spec => []IInv
<1>1. Init => IInv
  BY InitIInv
<1>2. IInv /\ [Next]_vars => IInv'
  BY NextIInv
<1> QED
  BY <1>1, <1>2, PTL DEF Spec

LEMMA OwedIsFound == IInv => AnswersFindRequests
<1> SUFFICES ASSUME IInv, NEW line \in Lines, NEW type \in AllTypes, asked[<<line, type>>] > 0
             PROVE  \E n \in DOMAIN pool : pool[n].line = line
  BY DEF AnswersFindRequests
<1>1. asked[<<line, type>>] \in Nat /\ pool \in Seq(Requests)
  BY DEF IInv, TypeOK
<1>2. <<type, 1>> \in Owed(line)
  <2>1. 1 \in 1 .. asked[<<line, type>>]
    BY <1>1
  <2>2. <<type, 1>> \in {type} \X (1 .. asked[<<line, type>>])
    BY <2>1
  <2> QED
    BY <2>2 DEF Owed
<1>3. Cardinality(Places(pool, OnLine(line))) # 0
  <2>1. IsFiniteSet(Owed(line)) /\ Cardinality(Owed(line)) = LineCount(line)
    BY DEF IInv, Matched
  <2>2. Cardinality(Owed(line)) # 0
    BY <1>2, <2>1, FS_EmptySet
  <2> QED
    BY <2>1, <2>2 DEF LineCount
<1>4. PICK n : n \in Places(pool, OnLine(line))
  BY <1>3, FS_EmptySet
<1> QED
  BY <1>4 DEF Places, OnLine

\* PoolConsistent: the two pools, the lists of waiters and the queued Wakeup agree,
\* so no waiter is held twice, held when it is squashed, or forgotten.
THEOREM PoolsStayConsistent == Spec => []PoolConsistent
<1>1. IInv => PoolConsistent
  BY PropertiesCount DEF IInv, PoolConsistent
<1> QED
  BY <1>1, Invariance, PTL

\* CountIsOutstanding: m_mshr_count is the number of outstanding requests of
\* instructions, whichever request an answer is taken for.
THEOREM CountStaysExact == Spec => []CountIsOutstanding
<1>1. IInv => CountIsOutstanding
  BY PropertiesCount DEF IInv
<1> QED
  BY <1>1, Invariance, PTL

\* AnswersFindRequests: complete finds a request for every answer ruby owes, so it
\* never stops the simulation.
THEOREM EveryAnswerFindsRequest == Spec => []AnswersFindRequests
BY OwedIsFound, Invariance, PTL

=============================================================================
