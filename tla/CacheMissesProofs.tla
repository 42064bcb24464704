-------------------------- MODULE CacheMissesProofs --------------------------
(***************************************************************************)
(* Proofs about CacheMisses, for any instructions, lines, registers and    *)
(* latencies.                                                              *)
(*                                                                         *)
(* Nearly every step replaces a register of one list by another, takes a   *)
(* new one, or drops some.  So a list of registers is treated as the set   *)
(* of the registers on it, with no two of one line.  The first sections    *)
(* say what the operators of the model do to that set; the next ones what  *)
(* each such change does to the counts, the bus and the lists of waiters;  *)
(* the last ones read the changes off the actions.                         *)
(***************************************************************************)
EXTENDS CacheMisses, FiniteSetsExt, SequenceTheorems, FiniteSetTheorems, TLAPS

-----------------------------------------------------------------------------
(***************************************************************************)
(* Sequences that gain or lose one entry.                                  *)
(***************************************************************************)

\* Where the n-th entry is once another has been put at place i.
Moved(i, n) == IF n < i THEN n ELSE n + 1

\* t is s with one more entry, at place i.
Grown(s, t, i, S) ==
    /\ s \in Seq(S) /\ t \in Seq(S)
    /\ i \in 1 .. Len(t) /\ Len(t) = Len(s) + 1
    /\ \A n \in 1 .. Len(s) : t[Moved(i, n)] = s[n]

LEMMA RemoveShrinks ==
  ASSUME NEW S, NEW s \in Seq(S), NEW i \in 1 .. Len(s)
  PROVE  Grown(RemoveAt(s, i), s, i, S)
<1> DEFINE n == Len(s)
           a == SubSeq(s, 1, i - 1)
           b == SubSeq(s, i + 1, n)
           u == a \o b
<1>1. n \in Nat /\ i \in 1 .. n /\ \A k \in 1 .. n : s[k] \in S
  BY LenProperties, ElementOfSeq
<1>2. a \in Seq(S) /\ Len(a) = i - 1 /\ \A k \in 1 .. i - 1 : a[k] = s[k]
  <2>1. 1 \in Int /\ i - 1 \in Int /\ \A k \in 1 .. i - 1 : s[k] \in S
    BY <1>1
  <2>2. /\ a \in Seq(S) /\ Len(a) = IF 1 <= i - 1 THEN (i - 1) - 1 + 1 ELSE 0
        /\ \A k \in 1 .. (i - 1) - 1 + 1 : a[k] = s[1 + k - 1]
    BY <2>1, SubSeqProperties
  <2> HIDE DEF a
  <2>3. Len(a) = i - 1
    BY <1>1, <2>2
  <2>4. ASSUME NEW k \in 1 .. i - 1 PROVE a[k] = s[k]
    <3>1. k \in 1 .. (i - 1) - 1 + 1 /\ 1 + k - 1 = k
      BY <1>1
    <3> QED
      BY <2>2, <3>1
  <2> QED
    BY <2>2, <2>3, <2>4
<1>3. b \in Seq(S) /\ Len(b) = n - i /\ \A k \in 1 .. n - i : b[k] = s[i + k]
  <2>1. i + 1 \in Int /\ n \in Int /\ \A k \in i + 1 .. n : s[k] \in S
    BY <1>1
  <2>2. /\ b \in Seq(S) /\ Len(b) = IF i + 1 <= n THEN n - (i + 1) + 1 ELSE 0
        /\ \A k \in 1 .. n - (i + 1) + 1 : b[k] = s[(i + 1) + k - 1]
    BY <2>1, SubSeqProperties
  <2> HIDE DEF b
  <2>3. Len(b) = n - i
    BY <1>1, <2>2
  <2>4. ASSUME NEW k \in 1 .. n - i PROVE b[k] = s[i + k]
    <3>1. k \in 1 .. n - (i + 1) + 1 /\ (i + 1) + k - 1 = i + k
      BY <1>1
    <3> QED
      BY <2>2, <3>1
  <2> QED
    BY <2>2, <2>3, <2>4
<1> HIDE DEF a, b
<1>4. u \in Seq(S) /\ Len(u) = n - 1
  <2>1. u \in Seq(S) /\ Len(u) = Len(a) + Len(b)
    BY <1>2, <1>3, ConcatProperties
  <2> HIDE DEF u
  <2> QED
    BY <1>1, <1>2, <1>3, <2>1
<1>5. \A k \in 1 .. n - 1 : u[k] = IF k <= i - 1 THEN a[k] ELSE b[k - (i - 1)]
  BY <1>1, <1>2, <1>3, ConcatProperties
<1> HIDE DEF u
<1>6. ASSUME NEW k \in 1 .. n - 1 PROVE s[Moved(i, k)] = u[k]
  <2>1. CASE k < i
    BY <1>1, <1>2, <1>5, <2>1 DEF Moved
  <2>2. CASE k >= i
    <3>1. ~ (k <= i - 1) /\ k - (i - 1) \in 1 .. n - i /\ i + (k - (i - 1)) = k + 1
      BY <1>1, <2>2
    <3>2. u[k] = s[k + 1]
      BY <1>3, <1>5, <3>1
    <3>3. Moved(i, k) = k + 1
      BY <1>1, <2>2 DEF Moved
    <3> QED
      BY <3>2, <3>3
  <2> QED
    BY <1>1, <2>1, <2>2
<1>7. RemoveAt(s, i) = u
  BY DEF RemoveAt, a, b, u
<1>8. \A k \in 1 .. Len(u) : s[Moved(i, k)] = u[k]
  BY <1>4, <1>6
<1>9. Len(s) = Len(u) + 1
  BY <1>1, <1>4
<1>10. Grown(u, s, i, S)
  BY <1>4, <1>8, <1>9 DEF Grown
<1> QED
  BY <1>7, <1>10

-----------------------------------------------------------------------------
(***************************************************************************)
(* Lists of registers, as the sets of the registers on them.               *)
(***************************************************************************)
Register == [line : Lines, state : Outstanding \cup Present, priority : Prefetch .. Store,
             waiters : SUBSET (Waiters \cup Mshrs), due : Nat]

\* No two registers of a list are of one line.
Distinct(q) == \A i, j \in DOMAIN q : q[i].line = q[j].line => i = j

LEMMA ListFacts ==
  ASSUME NEW q \in Seq(Register)
  PROVE  /\ Len(q) \in Nat
         /\ DOMAIN q = 1 .. Len(q)
         /\ \A n \in 1 .. Len(q) : q[n] \in Register /\ q[n] \in ToSet(q)
         /\ \A e \in ToSet(q) : \E n \in 1 .. Len(q) : q[n] = e
         /\ ToSet(q) \subseteq Register
BY LenProperties, ElementOfSeq DEF ToSet

\* The places of the longer list are those of the shorter one and one more.
LEMMA MovedBack ==
  ASSUME NEW S, NEW s, NEW t, NEW i, Grown(s, t, i, S), NEW n \in 1 .. Len(t), n # i
  PROVE  \E k \in 1 .. Len(s) : Moved(i, k) = n /\ t[n] = s[k]
<1>1. /\ s \in Seq(S) /\ t \in Seq(S) /\ Len(s) \in Nat /\ Len(t) = Len(s) + 1 /\ i \in 1 .. Len(t)
      /\ \A k \in 1 .. Len(s) : t[Moved(i, k)] = s[k]
  BY LenProperties DEF Grown
<1>2. PICK k : k = IF n < i THEN n ELSE n - 1
  OBVIOUS
<1>3. k \in 1 .. Len(s) /\ Moved(i, k) = n
  BY <1>1, <1>2 DEF Moved
<1> QED
  BY <1>1, <1>3

LEMMA Shorter ==
  ASSUME NEW s, NEW t, NEW i, Grown(s, t, i, Register), Distinct(t)
  PROVE  /\ Distinct(s)
         /\ ToSet(s) = ToSet(t) \ {t[i]}
         /\ Len(s) = Len(t) - 1
         /\ t[i] \in ToSet(t)
<1>1. /\ s \in Seq(Register) /\ t \in Seq(Register) /\ Len(s) \in Nat /\ Len(t) = Len(s) + 1 /\ i \in 1 .. Len(t)
      /\ DOMAIN s = 1 .. Len(s) /\ DOMAIN t = 1 .. Len(t)
      /\ \A k \in 1 .. Len(s) : t[Moved(i, k)] = s[k]
  BY LenProperties DEF Grown
<1>2. ASSUME NEW k \in 1 .. Len(s) PROVE Moved(i, k) \in 1 .. Len(t) /\ Moved(i, k) # i
  BY <1>1 DEF Moved
<1>3. ASSUME NEW k \in 1 .. Len(s), NEW l \in 1 .. Len(s), s[k].line = s[l].line PROVE k = l
  <2>1. Moved(i, k) = Moved(i, l)
    BY <1>1, <1>2, <1>3 DEF Distinct
  <2> QED
    BY <1>1, <2>1 DEF Moved
<1>4. Distinct(s)
  BY <1>1, <1>3 DEF Distinct
<1>5. ASSUME NEW e \in ToSet(s) PROVE e \in ToSet(t) \ {t[i]}
  <2>1. PICK k \in 1 .. Len(s) : s[k] = e
    BY <1>1, <1>5, ListFacts
  <2>2. t[Moved(i, k)] = e /\ e \in ToSet(t)
    BY <1>1, <1>2, <2>1, ListFacts
  <2>3. t[i] # e
    BY <1>1, <1>2, <2>2 DEF Distinct
  <2> QED
    BY <2>2, <2>3
<1>6. ASSUME NEW e \in ToSet(t), e # t[i] PROVE e \in ToSet(s)
  <2>1. PICK n \in 1 .. Len(t) : t[n] = e
    BY <1>1, ListFacts
  <2>2. n # i
    BY <1>6, <2>1
  <2>3. PICK k \in 1 .. Len(s) : Moved(i, k) = n /\ t[n] = s[k]
    BY <2>2, MovedBack
  <2> QED
    BY <1>1, <2>1, <2>3, ListFacts
<1>7. t[i] \in ToSet(t)
  BY <1>1, ListFacts
<1> QED
  BY <1>1, <1>4, <1>5, <1>6, <1>7

LEMMA Longer ==
  ASSUME NEW s, NEW t, NEW i, Grown(s, t, i, Register), Distinct(s),
         \A f \in ToSet(s) : f.line # t[i].line
  PROVE  /\ Distinct(t)
         /\ ToSet(t) = ToSet(s) \cup {t[i]}
         /\ Len(t) = Len(s) + 1
<1>1. /\ s \in Seq(Register) /\ t \in Seq(Register) /\ Len(s) \in Nat /\ Len(t) = Len(s) + 1 /\ i \in 1 .. Len(t)
      /\ DOMAIN s = 1 .. Len(s) /\ DOMAIN t = 1 .. Len(t)
      /\ \A k \in 1 .. Len(s) : t[Moved(i, k)] = s[k]
  BY LenProperties DEF Grown
<1>2. ASSUME NEW k \in 1 .. Len(s) PROVE Moved(i, k) \in 1 .. Len(t)
  BY <1>1 DEF Moved
<1>3. ASSUME NEW n \in 1 .. Len(t), n # i PROVE t[n] \in ToSet(s)
  <2>1. PICK k \in 1 .. Len(s) : Moved(i, k) = n /\ t[n] = s[k]
    BY <1>3, MovedBack
  <2> QED
    BY <1>1, <2>1, ListFacts
<1>4. ASSUME NEW n \in 1 .. Len(t), NEW l \in 1 .. Len(t), t[n].line = t[l].line PROVE n = l
  <2>1. CASE n # i /\ l # i
    <3>1. PICK k \in 1 .. Len(s) : Moved(i, k) = n /\ t[n] = s[k]
      BY <2>1, MovedBack
    <3>2. PICK j \in 1 .. Len(s) : Moved(i, j) = l /\ t[l] = s[j]
      BY <2>1, MovedBack
    <3>3. k = j
      BY <1>1, <1>4, <3>1, <3>2 DEF Distinct
    <3> QED
      BY <3>1, <3>2, <3>3
  <2> QED
    BY <1>3, <1>4, <2>1
<1>5. Distinct(t)
  BY <1>1, <1>4 DEF Distinct
<1>6. ASSUME NEW e \in ToSet(s) PROVE e \in ToSet(t)
  <2>1. PICK k \in 1 .. Len(s) : s[k] = e
    BY <1>1, ListFacts
  <2> QED
    BY <1>1, <1>2, <2>1, ListFacts
<1>7. ASSUME NEW e \in ToSet(t), e # t[i] PROVE e \in ToSet(s)
  <2>1. PICK n \in 1 .. Len(t) : t[n] = e
    BY <1>1, ListFacts
  <2> QED
    BY <1>3, <1>7, <2>1
<1>8. t[i] \in ToSet(t)
  BY <1>1, ListFacts
<1> QED
  BY <1>1, <1>5, <1>6, <1>7, <1>8

\* There are as many registers on a list as it is long.
LEMMA ListCards ==
  ASSUME NEW q \in Seq(Register), Distinct(q)
  PROVE  IsFiniteSet(ToSet(q)) /\ Cardinality(ToSet(q)) = Len(q)
<1>1. /\ Len(q) \in Nat /\ DOMAIN q = 1 .. Len(q)
      /\ \A n \in 1 .. Len(q) : q[n] \in ToSet(q)
      /\ \A e \in ToSet(q) : \E n \in 1 .. Len(q) : q[n] = e
  BY ListFacts
<1> DEFINE f == [n \in 1 .. Len(q) |-> q[n]]
<1>2. f \in [1 .. Len(q) -> ToSet(q)] /\ (\A a, b \in 1 .. Len(q) : f[a] = f[b] => a = b)
  BY <1>1 DEF Distinct
<1>3. \A e \in ToSet(q) : \E n \in 1 .. Len(q) : f[n] = e
  BY <1>1
<1> HIDE DEF f
<1>4. ExistsBijection(1 .. Len(q), ToSet(q))
  BY <1>2, <1>3 DEF ExistsBijection, Bijection, Injection, IsInjective, Surjection
<1>5. IsFiniteSet(1 .. Len(q)) /\ Cardinality(1 .. Len(q)) = Len(q)
  BY <1>1, FS_Interval
<1> QED
  BY <1>4, <1>5, FS_Bijection

-----------------------------------------------------------------------------
(***************************************************************************)
(* What the operators do to the registers of a level.                      *)
(***************************************************************************)
Level == [cache : SUBSET Lines, misses : Seq(Register), active : Int, queued : Int, busFree : Nat]

Regs(v) == ToSet(v.misses)

Ordered(s) == s \in [Mshrs -> Level] /\ \A m \in Mshrs : Distinct(s[m].misses)

LEMMA OrderedFacts ==
  ASSUME NEW s, Ordered(s), NEW m \in Mshrs
  PROVE  /\ s[m] \in Level /\ s[m].misses \in Seq(Register) /\ Distinct(s[m].misses)
         /\ Len(s[m].misses) \in Nat /\ DOMAIN s[m].misses = 1 .. Len(s[m].misses)
         /\ Regs(s[m]) \subseteq Register
         /\ \A e, f \in Regs(s[m]) : e.line = f.line => e = f
         /\ IsFiniteSet(Regs(s[m])) /\ Cardinality(Regs(s[m])) = Len(s[m].misses)
<1>1. s[m] \in Level /\ s[m].misses \in Seq(Register) /\ Distinct(s[m].misses)
  BY DEF Ordered, Level
<1>2. \A e, f \in Regs(s[m]) : e.line = f.line => e = f
  BY <1>1, ListFacts DEF Distinct, Regs
<1> QED
  BY <1>1, <1>2, ListFacts, ListCards DEF Regs

\* The hash table finds the register of a line.
LEMMA EntryFound ==
  ASSUME NEW s, Ordered(s), NEW m \in Mshrs, NEW e \in Regs(s[m])
  PROVE  /\ HashMatch(s, m, e.line) \in 1 .. Len(s[m].misses)
         /\ Entry(s, m, e.line) = e
         /\ e.line \in Allocated(s, m)
<1>1. /\ s[m].misses \in Seq(Register) /\ Distinct(s[m].misses)
      /\ DOMAIN s[m].misses = 1 .. Len(s[m].misses)
  BY OrderedFacts
<1>2. PICK n \in 1 .. Len(s[m].misses) : s[m].misses[n] = e
  BY <1>1, ListFacts DEF Regs
<1>3. /\ HashMatch(s, m, e.line) \in DOMAIN s[m].misses
      /\ s[m].misses[HashMatch(s, m, e.line)].line = e.line
  BY <1>1, <1>2 DEF HashMatch
<1>4. HashMatch(s, m, e.line) = n
  BY <1>1, <1>2, <1>3 DEF Distinct
<1> QED
  BY <1>2, <1>4 DEF Entry, Allocated, Regs

LEMMA AllocatedEntry ==
  ASSUME NEW s, Ordered(s), NEW m \in Mshrs, NEW line \in Allocated(s, m)
  PROVE  Entry(s, m, line) \in Regs(s[m]) /\ Entry(s, m, line).line = line
BY EntryFound DEF Allocated, Regs

LEMMA OthersFacts ==
  ASSUME NEW s, Ordered(s), NEW m \in Mshrs, NEW e \in Regs(s[m])
  PROVE  /\ Others(s, m, e.line) \in Seq(Register)
         /\ Distinct(Others(s, m, e.line))
         /\ ToSet(Others(s, m, e.line)) = Regs(s[m]) \ {e}
         /\ Len(Others(s, m, e.line)) = Len(s[m].misses) - 1
<1>1. PICK q, n, r : q = s[m].misses /\ n = HashMatch(s, m, e.line) /\ r = Others(s, m, e.line)
  OBVIOUS
<1>2. q \in Seq(Register) /\ Distinct(q)
  BY <1>1, OrderedFacts
<1>3. n \in 1 .. Len(q) /\ q[n] = e
  BY <1>1, EntryFound DEF Entry
<1>4. Grown(r, q, n, Register)
  BY <1>1, <1>2, <1>3, RemoveShrinks DEF Others
<1> QED
  BY <1>1, <1>2, <1>3, <1>4, Shorter DEF Regs, Grown

LEMMA HeadGrows ==
  ASSUME NEW S, NEW s \in Seq(S), NEW e \in S
  PROVE  Grown(s, <<e>> \o s, 1, S) /\ (<<e>> \o s)[1] = e
<1>1. Len(s) \in Nat
  BY LenProperties
<1>2. <<e>> \in Seq(S) /\ Len(<<e>>) = 1 /\ <<e>>[1] = e
  OBVIOUS
<1>3. PICK t : t = <<e>> \o s
  OBVIOUS
<1>4. t \in Seq(S) /\ Len(t) = Len(s) + 1
  BY <1>1, <1>2, <1>3, ConcatProperties
<1>5. \A k \in 1 .. Len(s) + 1 : t[k] = IF k <= 1 THEN <<e>>[k] ELSE s[k - 1]
  BY <1>1, <1>2, <1>3, ConcatProperties
<1>6. ASSUME NEW k \in 1 .. Len(s) PROVE t[Moved(1, k)] = s[k]
  <2>1. Moved(1, k) = k + 1 /\ k + 1 \in 1 .. Len(s) + 1 /\ ~ (k + 1 <= 1) /\ (k + 1) - 1 = k
    BY <1>1 DEF Moved
  <2> QED
    BY <1>5, <2>1
<1>7. t[1] = e
  BY <1>1, <1>2, <1>5
<1>8. Grown(s, t, 1, S)
  BY <1>1, <1>4, <1>6 DEF Grown
<1> QED
  BY <1>3, <1>7, <1>8

LEMMA HeadFacts ==
  ASSUME NEW q \in Seq(Register), Distinct(q), NEW e \in Register,
         \A f \in ToSet(q) : f.line # e.line
  PROVE  /\ <<e>> \o q \in Seq(Register)
         /\ Distinct(<<e>> \o q)
         /\ ToSet(<<e>> \o q) = ToSet(q) \cup {e}
         /\ Len(<<e>> \o q) = Len(q) + 1
<1>1. PICK t : t = <<e>> \o q
  OBVIOUS
<1>2. Grown(q, t, 1, Register) /\ t[1] = e
  BY <1>1, HeadGrows
<1>3. Distinct(t) /\ ToSet(t) = ToSet(q) \cup {t[1]} /\ Len(t) = Len(q) + 1 /\ t \in Seq(Register)
  BY <1>2, Longer DEF Grown
<1> QED
  BY <1>1, <1>2, <1>3

\* Another list in the place of the list of a level.
SameElsewhere(s, t, m) == \A k \in Mshrs : k # m => t[k] = s[k]

SameCounts(s, t, m) ==
    t[m].active = s[m].active /\ t[m].queued = s[m].queued /\ t[m].busFree = s[m].busFree

Relisted(s, t, m, q) ==
    /\ Ordered(t) /\ SameElsewhere(s, t, m) /\ SameCounts(s, t, m)
    /\ t[m].misses = q /\ t[m].cache = s[m].cache

LEMMA WithList ==
  ASSUME NEW s, Ordered(s), NEW m \in Mshrs, NEW q \in Seq(Register), Distinct(q),
         NEW t, t = [s EXCEPT ![m].misses = q]
  PROVE  Relisted(s, t, m, q)
<1>1. s \in [Mshrs -> Level] /\ s[m] \in Level
  BY DEF Ordered
<1>2. t = [s EXCEPT ![m] = [s[m] EXCEPT !.misses = q]]
  OBVIOUS
<1>3. [s[m] EXCEPT !.misses = q] \in Level
  BY <1>1 DEF Level
<1>4. t \in [Mshrs -> Level] /\ t[m] = [s[m] EXCEPT !.misses = q] /\ \A k \in Mshrs : k # m => t[k] = s[k]
  BY <1>1, <1>2, <1>3
<1>5. /\ t[m].misses = q /\ t[m].cache = s[m].cache
      /\ t[m].active = s[m].active /\ t[m].queued = s[m].queued /\ t[m].busFree = s[m].busFree
  BY <1>1, <1>4 DEF Level
<1> QED
  BY <1>4, <1>5 DEF Ordered, Relisted, SameElsewhere, SameCounts

\* A register becomes another of the same line; the order and the counts may change.
TurnedAt(s, t, m, old, new) ==
    /\ Ordered(t)
    /\ Regs(t[m]) = (Regs(s[m]) \ {old}) \cup {new}
    /\ Len(t[m].misses) = Len(s[m].misses)
    /\ t[m].cache = s[m].cache

Turned(s, t, m, old, new) == TurnedAt(s, t, m, old, new) /\ SameElsewhere(s, t, m)

LEMMA SetMRUTurns ==
  ASSUME NEW s, Ordered(s), NEW m \in Mshrs, NEW old \in Regs(s[m]), NEW e \in Register, e.line = old.line
  PROVE  Turned(s, SetMRU(s, m, e), m, old, e) /\ SameCounts(s, SetMRU(s, m, e), m)
<1>1. PICK r, q, t : r = Others(s, m, old.line) /\ q = <<e>> \o r /\ t = SetMRU(s, m, e)
  OBVIOUS
<1>2. /\ r \in Seq(Register) /\ Distinct(r) /\ ToSet(r) = Regs(s[m]) \ {old}
      /\ Len(r) = Len(s[m].misses) - 1 /\ Len(s[m].misses) \in Nat
  BY <1>1, OthersFacts, OrderedFacts
<1>3. \A f \in ToSet(r) : f.line # e.line
  BY <1>2, OrderedFacts
<1>4. q \in Seq(Register) /\ Distinct(q) /\ ToSet(q) = ToSet(r) \cup {e} /\ Len(q) = Len(r) + 1
  BY <1>1, <1>2, <1>3, HeadFacts
<1>5. t = [s EXCEPT ![m].misses = q]
  BY <1>1 DEF SetMRU
<1>6. Relisted(s, t, m, q)
  BY <1>4, <1>5, WithList
<1>7. Regs(t[m]) = (Regs(s[m]) \ {old}) \cup {e} /\ Len(t[m].misses) = Len(s[m].misses)
  BY <1>2, <1>4, <1>6 DEF Regs, Relisted
<1> QED
  BY <1>1, <1>6, <1>7 DEF Turned, TurnedAt, Relisted

LEMMA InPlaceTurns ==
  ASSUME NEW s, Ordered(s), NEW m \in Mshrs, NEW old \in Regs(s[m]), NEW e \in Register, e.line = old.line
  PROVE  Turned(s, InPlace(s, m, e), m, old, e) /\ SameCounts(s, InPlace(s, m, e), m)
<1>1. PICK p, q, t : /\ p = s[m].misses
                     /\ q = [n \in DOMAIN p |-> IF p[n].line = e.line THEN e ELSE p[n]]
                     /\ t = InPlace(s, m, e)
  OBVIOUS
<1>2. /\ p \in Seq(Register) /\ Distinct(p) /\ Len(p) \in Nat /\ DOMAIN p = 1 .. Len(p)
      /\ (\A n \in 1 .. Len(p) : p[n] \in Register)
  BY <1>1, OrderedFacts, ListFacts
<1>3. /\ q \in [1 .. Len(p) -> Register]
      /\ (\A n \in 1 .. Len(p) : q[n] = (IF p[n].line = e.line THEN e ELSE p[n]) /\ q[n].line = p[n].line)
  BY <1>1, <1>2
<1>4. q \in Seq(Register) /\ Len(q) = Len(p) /\ DOMAIN q = 1 .. Len(p)
  <2> HIDE <1>1
  <2>1. q \in Seq(Register)
    BY <1>2, <1>3
  <2> QED
    BY <1>2, <1>3, <2>1, LenProperties
<1>5. Distinct(q)
  BY <1>2, <1>3, <1>4 DEF Distinct
<1>6. PICK i \in 1 .. Len(p) : p[i] = old
  BY <1>1, <1>2, ListFacts DEF Regs
<1>7. \A n \in 1 .. Len(p) : q[n] = IF n = i THEN e ELSE p[n]
  BY <1>2, <1>3, <1>6 DEF Distinct
<1>8. ToSet(q) \subseteq (ToSet(p) \ {old}) \cup {e}
  <2> SUFFICES ASSUME NEW f \in ToSet(q), f # e PROVE f \in ToSet(p) \ {old}
    OBVIOUS
  <2>1. PICK n \in 1 .. Len(p) : q[n] = f
    BY <1>4, ListFacts
  <2>2. n # i /\ f = p[n]
    BY <1>7, <2>1
  <2> QED
    BY <1>2, <1>6, <2>2, ListFacts DEF Distinct
<1>9. e \in ToSet(q)
  BY <1>4, <1>7, ListFacts
<1>10. ASSUME NEW f \in ToSet(p), f # old PROVE f \in ToSet(q)
  <2>1. PICK n \in 1 .. Len(p) : p[n] = f
    BY <1>2, ListFacts
  <2>2. q[n] = f
    BY <1>6, <1>7, <1>10, <2>1
  <2> QED
    BY <1>4, <2>2, ListFacts
<1>11. ToSet(q) = (ToSet(p) \ {old}) \cup {e}
  BY <1>8, <1>9, <1>10
<1>12. t = [s EXCEPT ![m].misses = q]
  BY <1>1 DEF InPlace
<1>13. Relisted(s, t, m, q)
  BY <1>4, <1>5, <1>12, WithList
<1> QED
  BY <1>1, <1>4, <1>11, <1>13 DEF Turned, TurnedAt, Relisted, Regs

\* Counts and times change without the registers.
Recounted(s, t, m) ==
    /\ Ordered(t) /\ SameElsewhere(s, t, m)
    /\ t[m].misses = s[m].misses /\ t[m].cache = s[m].cache

ActiveIs(s, t, m, a) ==
    Recounted(s, t, m) /\ t[m].active = a /\ t[m].queued = s[m].queued /\ t[m].busFree = s[m].busFree
QueuedIs(s, t, m, a) ==
    Recounted(s, t, m) /\ t[m].queued = a /\ t[m].active = s[m].active /\ t[m].busFree = s[m].busFree
BusFreeIs(s, t, m, a) ==
    Recounted(s, t, m) /\ t[m].busFree = a /\ t[m].active = s[m].active /\ t[m].queued = s[m].queued

LEMMA WithActive ==
  ASSUME NEW s, Ordered(s), NEW m \in Mshrs, NEW a \in Int, NEW t, t = [s EXCEPT ![m].active = a]
  PROVE  ActiveIs(s, t, m, a)
<1>1. s \in [Mshrs -> Level] /\ s[m] \in Level /\ t = [s EXCEPT ![m] = [s[m] EXCEPT !.active = a]]
  BY DEF Ordered
<1>2. [s[m] EXCEPT !.active = a] \in Level
  BY <1>1 DEF Level
<1>3. t \in [Mshrs -> Level] /\ t[m] = [s[m] EXCEPT !.active = a] /\ \A k \in Mshrs : k # m => t[k] = s[k]
  BY <1>1, <1>2
<1>4. /\ t[m].misses = s[m].misses /\ t[m].cache = s[m].cache
      /\ t[m].active = a /\ t[m].queued = s[m].queued /\ t[m].busFree = s[m].busFree
  BY <1>1, <1>3 DEF Level
<1> QED
  BY <1>3, <1>4 DEF Ordered, Recounted, SameElsewhere, ActiveIs

LEMMA WithQueued ==
  ASSUME NEW s, Ordered(s), NEW m \in Mshrs, NEW a \in Int, NEW t, t = [s EXCEPT ![m].queued = a]
  PROVE  QueuedIs(s, t, m, a)
<1>1. s \in [Mshrs -> Level] /\ s[m] \in Level /\ t = [s EXCEPT ![m] = [s[m] EXCEPT !.queued = a]]
  BY DEF Ordered
<1>2. [s[m] EXCEPT !.queued = a] \in Level
  BY <1>1 DEF Level
<1>3. t \in [Mshrs -> Level] /\ t[m] = [s[m] EXCEPT !.queued = a] /\ \A k \in Mshrs : k # m => t[k] = s[k]
  BY <1>1, <1>2
<1>4. /\ t[m].misses = s[m].misses /\ t[m].cache = s[m].cache
      /\ t[m].queued = a /\ t[m].active = s[m].active /\ t[m].busFree = s[m].busFree
  BY <1>1, <1>3 DEF Level
<1> QED
  BY <1>3, <1>4 DEF Ordered, Recounted, SameElsewhere, QueuedIs

LEMMA WithBusFree ==
  ASSUME NEW s, Ordered(s), NEW m \in Mshrs, NEW a \in Nat, NEW t, t = [s EXCEPT ![m].busFree = a]
  PROVE  BusFreeIs(s, t, m, a)
<1>1. s \in [Mshrs -> Level] /\ s[m] \in Level /\ t = [s EXCEPT ![m] = [s[m] EXCEPT !.busFree = a]]
  BY DEF Ordered
<1>2. [s[m] EXCEPT !.busFree = a] \in Level
  BY <1>1 DEF Level
<1>3. t \in [Mshrs -> Level] /\ t[m] = [s[m] EXCEPT !.busFree = a] /\ \A k \in Mshrs : k # m => t[k] = s[k]
  BY <1>1, <1>2
<1>4. /\ t[m].misses = s[m].misses /\ t[m].cache = s[m].cache
      /\ t[m].busFree = a /\ t[m].active = s[m].active /\ t[m].queued = s[m].queued
  BY <1>1, <1>3 DEF Level
<1> QED
  BY <1>3, <1>4 DEF Ordered, Recounted, SameElsewhere, BusFreeIs

\* What is in the list is read after a turn as before it.
LEMMA TurnedThenRecounted ==
  ASSUME NEW s, NEW t, NEW u, NEW m \in Mshrs, NEW old, NEW new,
         Turned(s, t, m, old, new), Recounted(t, u, m)
  PROVE  Turned(s, u, m, old, new)
BY DEF Turned, TurnedAt, Recounted, SameElsewhere, Regs

LEMMA TurnedTwice ==
  ASSUME NEW s, NEW t, NEW u, NEW m \in Mshrs, Ordered(s), NEW old \in Regs(s[m]), NEW mid, NEW new,
         mid.line = old.line, Turned(s, t, m, old, mid), Turned(t, u, m, mid, new)
  PROVE  Turned(s, u, m, old, new)
<1>1. \A f \in Regs(s[m]) : f.line = old.line => f = old
  BY OrderedFacts
<1>2. mid \notin Regs(s[m]) \ {old}
  BY <1>1
<1>3. Regs(u[m]) = (((Regs(s[m]) \ {old}) \cup {mid}) \ {mid}) \cup {new}
  BY DEF Turned, TurnedAt
<1>4. Regs(u[m]) = (Regs(s[m]) \ {old}) \cup {new}
  BY <1>2, <1>3
<1> QED
  BY <1>4 DEF Turned, TurnedAt, SameElsewhere

-----------------------------------------------------------------------------
\* When a transfer that starts now ends.
BusEnd(m, v) == BusCycles[m] + (IF v.busFree <= Latency[m] THEN Latency[m] ELSE v.busFree)

Moving(e, time) == [e EXCEPT !.state = "transfer", !.due = time]

LEMMA ConstantTypes ==
  ASSUME NEW m \in Mshrs
  PROVE  Ways[m] \in Nat \ {0} /\ Entries[m] \in Nat \ {0} /\ Latency[m] \in Nat \ {0} /\ BusCycles[m] \in Nat \ {0}
BY MissesAssumption

LEMMA BusEndLater ==
  ASSUME NEW m \in Mshrs, NEW v \in Level
  PROVE  BusEnd(m, v) \in Nat \ {0} /\ BusEnd(m, v) >= v.busFree + BusCycles[m]
<1>1. v.busFree \in Nat
  BY DEF Level
<1> QED
  BY <1>1, ConstantTypes DEF BusEnd

LEMMA MovingType ==
  ASSUME NEW e \in Register, NEW time \in Nat
  PROVE  /\ Moving(e, time) \in Register /\ Moving(e, time).line = e.line
         /\ Moving(e, time).state = "transfer" /\ Moving(e, time).due = time
         /\ Moving(e, time).waiters = e.waiters /\ Moving(e, time).priority = e.priority
BY DEF Moving, Register, Outstanding

LEMMA TransferTurns ==
  ASSUME NEW s, Ordered(s), NEW m \in Mshrs, NEW e \in Regs(s[m]),
         NEW t, t = ScheduleBusTransfer(s, m, e.line)
  PROVE  /\ Turned(s, t, m, e, Moving(e, BusEnd(m, s[m])))
         /\ t[m].active = s[m].active /\ t[m].queued = s[m].queued /\ t[m].busFree = BusEnd(m, s[m])
<1>1. PICK free, new, u : free = BusEnd(m, s[m]) /\ new = Moving(e, free) /\ u = InPlace(s, m, new)
  OBVIOUS
<1>2. e \in Register /\ s[m] \in Level /\ Entry(s, m, e.line) = e
  BY OrderedFacts, EntryFound
<1>3. free \in Nat /\ new \in Register /\ new.line = e.line
  BY <1>1, <1>2, BusEndLater, MovingType
<1>4. Turned(s, u, m, e, new) /\ SameCounts(s, u, m)
  BY <1>1, <1>3, InPlaceTurns
<1>5. t = [u EXCEPT ![m].busFree = free]
  BY <1>1, <1>2 DEF ScheduleBusTransfer, Transferred, Moving, BusEnd
<1>6. Ordered(u)
  BY <1>4 DEF Turned, TurnedAt
<1>7. BusFreeIs(u, t, m, free)
  BY <1>3, <1>5, <1>6, WithBusFree
<1>8. Turned(s, t, m, e, new)
  BY <1>4, <1>7, TurnedThenRecounted DEF BusFreeIs
<1> QED
  BY <1>1, <1>4, <1>7, <1>8 DEF SameCounts, BusFreeIs

\* A set of numbers up to n has a greatest.
LEMMA MaxExists ==
  ASSUME NEW S, NEW n \in Nat, S \subseteq 1 .. n, S # {}
  PROVE  /\ Max(S) \in S
         /\ \A y \in S : y <= Max(S)
<1> DEFINE R == OpToRel(<, Nat)
           T == {m \in Nat : n - m \in S}
<1>1. IsWellFoundedOn(R, Nat)
  BY NatLessThanWellFounded
<1>2. T \subseteq Nat /\ T # {}
  <2>1. PICK s \in S : TRUE
    OBVIOUS
  <2>2. n - s \in Nat /\ n - (n - s) = s
    BY <2>1
  <2> QED BY <2>1, <2>2
<1>3. \A x, y \in Nat : x < y => <<x, y>> \in R
  BY DEF OpToRel
<1>4. PICK x \in T : \A y \in T : ~(<<y, x>> \in R)
  <2> HIDE DEF R, T
  <2> QED BY <1>1, <1>2, WFMin
<1>5. n - x \in S /\ \A y \in S : y <= n - x
  <2> SUFFICES ASSUME NEW y \in S PROVE y <= n - x
    BY <1>4
  <2>1. n - y \in T
    <3>1. n - y \in Nat /\ n - (n - y) = y
      OBVIOUS
    <3> QED BY <3>1
  <2>2. ~(n - y < x)
    BY <2>1, <1>4, <1>3
  <2> QED BY <2>2
<1> QED BY <1>5 DEF Max

-----------------------------------------------------------------------------
\* The line goes to the cache, the victim's register takes the place of the line's.
KeptFor(victim) == IF victim = Nothing THEN {} ELSE {Victim(victim)}

Filling(s, t, m, e, victim) ==
    /\ Ordered(t) /\ SameElsewhere(s, t, m)
    /\ Regs(t[m]) = (Regs(s[m]) \ {e}) \cup KeptFor(victim)
    /\ Len(t[m].misses) <= Len(s[m].misses)
    /\ t[m].cache = (s[m].cache \ {victim}) \cup {e.line}
    /\ t[m].active = s[m].active - (IF e.state \in Outstanding THEN 1 ELSE 0)
    /\ t[m].queued = s[m].queued /\ t[m].busFree = s[m].busFree

LEMMA VictimType ==
  ASSUME NEW line \in Lines
  PROVE  /\ Victim(line) \in Register /\ Victim(line).line = line /\ Victim(line).state = "victim"
         /\ Victim(line).waiters = {}
BY DEF Victim, Register, Present, Prefetch, Store

CachedAndListed(s, t, m, q, c) ==
    /\ Ordered(t) /\ SameElsewhere(s, t, m) /\ SameCounts(s, t, m)
    /\ t[m].misses = q /\ t[m].cache = c

LEMMA WithCacheAndList ==
  ASSUME NEW s, Ordered(s), NEW m \in Mshrs, NEW q \in Seq(Register), Distinct(q), NEW c \in SUBSET Lines,
         NEW t, t = [s EXCEPT ![m].cache = c, ![m].misses = q]
  PROVE  CachedAndListed(s, t, m, q, c)
<1>1. s \in [Mshrs -> Level] /\ s[m] \in Level
  BY DEF Ordered
<1>2. t = [s EXCEPT ![m] = [s[m] EXCEPT !.cache = c, !.misses = q]]
  BY <1>1
<1>3. [s[m] EXCEPT !.cache = c, !.misses = q] \in Level
  BY <1>1 DEF Level
<1>4. t \in [Mshrs -> Level] /\ t[m] = [s[m] EXCEPT !.cache = c, !.misses = q] /\ \A k \in Mshrs : k # m => t[k] = s[k]
  BY <1>1, <1>2, <1>3
<1>5. /\ t[m].misses = q /\ t[m].cache = c
      /\ t[m].active = s[m].active /\ t[m].queued = s[m].queued /\ t[m].busFree = s[m].busFree
  BY <1>1, <1>4 DEF Level
<1> QED
  BY <1>4, <1>5 DEF Ordered, SameElsewhere, SameCounts, CachedAndListed

LEMMA FillFills ==
  ASSUME NEW s, Ordered(s), NEW m \in Mshrs, NEW e \in Regs(s[m]), NEW victim \in s[m].cache \cup {Nothing},
         \A f \in Regs(s[m]) : f.line \notin s[m].cache,
         NEW t, t = FillAndSwapOutVictim(s, m, e.line, victim)
  PROVE  Filling(s, t, m, e, victim)
<1>1. PICK r, q, c, u, a : /\ r = Others(s, m, e.line)
                           /\ q = (IF victim = Nothing THEN <<>> ELSE <<Victim(victim)>>) \o r
                           /\ c = (s[m].cache \ {victim}) \cup {e.line}
                           /\ u = Swapped(s, m, e.line, victim)
                           /\ a = s[m].active - (IF e.state \in Outstanding THEN 1 ELSE 0)
  OBVIOUS
<1>2. /\ e \in Register /\ s[m] \in Level /\ Entry(s, m, e.line) = e
      /\ Len(s[m].misses) \in Nat
  BY OrderedFacts, EntryFound
<1>3. e.line \in Lines /\ s[m].cache \subseteq Lines /\ s[m].active \in Int
  BY <1>2 DEF Register, Level
<1>4. /\ r \in Seq(Register) /\ Distinct(r) /\ ToSet(r) = Regs(s[m]) \ {e}
      /\ Len(r) = Len(s[m].misses) - 1
  BY <1>1, OthersFacts
<1>5. q \in Seq(Register) /\ Distinct(q) /\ ToSet(q) = ToSet(r) \cup KeptFor(victim) /\ Len(q) <= Len(s[m].misses)
  <2>1. CASE victim = Nothing
    <3>1. q = r
      BY <1>1, <1>4, <2>1
    <3>2. KeptFor(victim) = {}
      BY <2>1 DEF KeptFor
    <3> QED
      BY <1>2, <1>4, <3>1, <3>2
  <2>2. CASE victim # Nothing
    <3>1. PICK x : x = Victim(victim)
      OBVIOUS
    <3>2. victim \in s[m].cache
      BY <2>2
    <3>3. x \in Register /\ x.line = victim
      BY <1>3, <3>1, <3>2, VictimType
    <3>4. \A f \in ToSet(r) : f.line # x.line
      BY <1>4, <3>2, <3>3
    <3>5. q = <<x>> \o r
      BY <1>1, <2>2, <3>1
    <3>6. q \in Seq(Register) /\ Distinct(q) /\ ToSet(q) = ToSet(r) \cup {x} /\ Len(q) = Len(r) + 1
      BY <1>4, <3>3, <3>4, <3>5, HeadFacts
    <3>7. KeptFor(victim) = {x}
      BY <2>2, <3>1 DEF KeptFor
    <3> QED
      BY <1>2, <1>4, <3>6, <3>7
  <2> QED
    BY <2>1, <2>2
<1>6. c \in SUBSET Lines
  BY <1>1, <1>3
<1>7. u = [s EXCEPT ![m].cache = c, ![m].misses = q]
  BY <1>1 DEF Swapped
<1>8. /\ Ordered(u) /\ SameElsewhere(s, u, m) /\ SameCounts(s, u, m)
      /\ u[m].misses = q /\ u[m].cache = c
  <2>1. CachedAndListed(s, u, m, q, c)
    BY <1>5, <1>6, <1>7, WithCacheAndList
  <2> QED
    BY <2>1 DEF CachedAndListed
<1>9. t = [u EXCEPT ![m].active = a]
  <2>1. t = [u EXCEPT ![m].active = u[m].active - (IF Entry(s, m, e.line).state \in Outstanding THEN 1 ELSE 0)]
    BY <1>1 DEF FillAndSwapOutVictim
  <2> QED
    BY <1>1, <1>2, <1>8, <2>1 DEF SameCounts
<1>10. a \in Int
  BY <1>1, <1>3
<1>11. ActiveIs(u, t, m, a)
  BY <1>8, <1>9, <1>10, WithActive
<1>12. Regs(t[m]) = (Regs(s[m]) \ {e}) \cup KeptFor(victim) /\ Len(t[m].misses) <= Len(s[m].misses)
  BY <1>4, <1>5, <1>8, <1>11 DEF ActiveIs, Recounted, Regs
<1> QED
  BY <1>1, <1>8, <1>11, <1>12 DEF Filling, ActiveIs, Recounted, SameElsewhere, SameCounts

-----------------------------------------------------------------------------
(***************************************************************************)
(* The registers of a level, counted.                                      *)
(***************************************************************************)
Those(R, S) == {e \in R : e.state \in S}

One(e, S) == IF e.state \in S THEN 1 ELSE 0

LEMMA ThoseLess ==
  ASSUME NEW R, IsFiniteSet(R), NEW e \in R, NEW S
  PROVE  Cardinality(Those(R \ {e}, S)) = Cardinality(Those(R, S)) - One(e, S)
<1>1. IsFiniteSet(Those(R, S))
  BY FS_Subset DEF Those
<1>2. CASE e.state \in S
  <2>1. Those(R \ {e}, S) = Those(R, S) \ {e} /\ e \in Those(R, S)
    BY <1>2 DEF Those
  <2>2. Cardinality(Those(R, S) \ {e}) = Cardinality(Those(R, S)) - 1
    BY <1>1, <2>1, FS_RemoveElement
  <2> QED
    BY <1>2, <2>1, <2>2 DEF One
<1>3. CASE e.state \notin S
  <2>1. Those(R \ {e}, S) = Those(R, S)
    BY <1>3 DEF Those
  <2>2. Cardinality(Those(R, S)) \in Nat
    BY <1>1, FS_CardinalityType
  <2> QED
    BY <1>3, <2>1, <2>2 DEF One
<1> QED
  BY <1>2, <1>3

LEMMA ThoseMore ==
  ASSUME NEW R, IsFiniteSet(R), NEW e, e \notin R, NEW S
  PROVE  Cardinality(Those(R \cup {e}, S)) = Cardinality(Those(R, S)) + One(e, S)
<1>1. IsFiniteSet(Those(R, S))
  BY FS_Subset DEF Those
<1>2. Cardinality(Those(R, S)) \in Nat
  BY <1>1, FS_CardinalityType
<1>3. CASE e.state \in S
  <2>1. Those(R \cup {e}, S) = Those(R, S) \cup {e} /\ e \notin Those(R, S)
    BY <1>3 DEF Those
  <2>2. Cardinality(Those(R, S) \cup {e}) = Cardinality(Those(R, S)) + 1
    BY <1>1, <2>1, FS_AddElement
  <2> QED
    BY <1>3, <2>1, <2>2 DEF One
<1>4. CASE e.state \notin S
  <2>1. Those(R \cup {e}, S) = Those(R, S)
    BY <1>4 DEF Those
  <2> QED
    BY <1>2, <1>4, <2>1 DEF One
<1> QED
  BY <1>3, <1>4

LEMMA ThoseType ==
  ASSUME NEW R, IsFiniteSet(R), NEW S
  PROVE  Cardinality(Those(R, S)) \in Nat
<1>1. IsFiniteSet(Those(R, S))
  BY FS_Subset DEF Those
<1> QED
  BY <1>1, FS_CardinalityType

\* A level is in order when its counts are those of its registers, its lines in one
\* place and its bus carries one line at a time.
OneBus(m, v) ==
    /\ \A e \in Regs(v) : e.state = "transfer" => e.due <= v.busFree
    /\ \A e, f \in Regs(v) : e.state = "transfer" /\ f.state = "transfer" /\ e.line # f.line =>
           e.due >= f.due + BusCycles[m] \/ f.due >= e.due + BusCycles[m]

Counted(m, v) ==
    /\ v.active = Cardinality(Those(Regs(v), Outstanding))
    /\ v.queued = Cardinality(Those(Regs(v), {"queued"}))
    /\ Len(v.misses) <= Entries[m]

InOnePlace(m, v) ==
    /\ IsFiniteSet(v.cache) /\ Cardinality(v.cache) <= Ways[m]
    /\ \A e \in Regs(v) : e.line \notin v.cache

LevelOK(m, v) == Counted(m, v) /\ InOnePlace(m, v) /\ OneBus(m, v)

LEMMA TurnKeepsCounts ==
  ASSUME NEW s, Ordered(s), NEW m \in Mshrs, NEW old \in Regs(s[m]), NEW new \in Register, new.line = old.line,
         NEW t, TurnedAt(s, t, m, old, new), Counted(m, s[m]),
         t[m].active = s[m].active + One(new, Outstanding) - One(old, Outstanding),
         t[m].queued = s[m].queued + One(new, {"queued"}) - One(old, {"queued"})
  PROVE  Counted(m, t[m])
<1>1. PICK R, r : R = Regs(s[m]) /\ r = R \ {old}
  OBVIOUS
<1>2. IsFiniteSet(R) /\ \A f \in R : f.line = old.line => f = old
  BY <1>1, OrderedFacts
<1>3. IsFiniteSet(r) /\ new \notin r
  BY <1>1, <1>2, FS_Subset
<1>4. \A S : Cardinality(Those(r, S)) = Cardinality(Those(R, S)) - One(old, S)
  BY <1>1, <1>2, ThoseLess
<1>5. \A S : Cardinality(Those(r \cup {new}, S)) = Cardinality(Those(r, S)) + One(new, S)
  BY <1>3, ThoseMore
<1>6. \A S : Cardinality(Those(R, S)) \in Nat /\ Cardinality(Those(r, S)) \in Nat
  BY <1>2, <1>3, ThoseType
<1>7. Regs(t[m]) = r \cup {new} /\ Len(t[m].misses) = Len(s[m].misses)
  BY <1>1 DEF TurnedAt
<1>8. \A S : One(old, S) \in Int /\ One(new, S) \in Int
  BY DEF One
<1>9. ASSUME NEW S
      PROVE  Cardinality(Those(r \cup {new}, S)) = Cardinality(Those(R, S)) + One(new, S) - One(old, S)
  <2>1. Cardinality(Those(r, S)) = Cardinality(Those(R, S)) - One(old, S)
    BY <1>4
  <2>2. Cardinality(Those(r \cup {new}, S)) = Cardinality(Those(r, S)) + One(new, S)
    BY <1>5
  <2>3. Cardinality(Those(R, S)) \in Nat /\ One(old, S) \in Int /\ One(new, S) \in Int
    BY <1>6, <1>8
  <2> QED
    BY <2>1, <2>2, <2>3
<1>10. t[m].active = Cardinality(Those(Regs(t[m]), Outstanding))
  <2>1. s[m].active = Cardinality(Those(R, Outstanding))
    BY <1>1 DEF Counted
  <2> QED
    BY <1>7, <1>9, <2>1
<1>11. t[m].queued = Cardinality(Those(Regs(t[m]), {"queued"}))
  <2>1. s[m].queued = Cardinality(Those(R, {"queued"}))
    BY <1>1 DEF Counted
  <2> QED
    BY <1>7, <1>9, <2>1
<1> QED
  BY <1>7, <1>10, <1>11 DEF Counted

LEMMA TurnKeepsPlaces ==
  ASSUME NEW s, NEW m \in Mshrs, NEW old \in Regs(s[m]), NEW new, new.line = old.line,
         NEW t, TurnedAt(s, t, m, old, new), InOnePlace(m, s[m])
  PROVE  InOnePlace(m, t[m])
BY DEF InOnePlace, TurnedAt

\* A transfer that starts now ends after those that have started.
LEMMA TurnKeepsBus ==
  ASSUME NEW s, Ordered(s), NEW m \in Mshrs, NEW old \in Regs(s[m]), NEW new \in Register, new.line = old.line,
         NEW t, TurnedAt(s, t, m, old, new), OneBus(m, s[m]),
         t[m].busFree >= s[m].busFree,
         new.state = "transfer" =>
             \/ old.state = "transfer" /\ new.due = old.due
             \/ new.due = t[m].busFree /\ t[m].busFree >= s[m].busFree + BusCycles[m]
  PROVE  OneBus(m, t[m])
<1>1. Regs(t[m]) = (Regs(s[m]) \ {old}) \cup {new} /\ Ordered(t)
  BY DEF TurnedAt
<1>2. /\ s[m].busFree \in Nat /\ t[m].busFree \in Nat /\ BusCycles[m] \in Nat
      /\ \A e \in Regs(s[m]) : e.due \in Nat
  BY <1>1, OrderedFacts, ConstantTypes DEF Level, Register
<1>3. new.due \in Nat
  BY DEF Register
<1>4. ASSUME NEW e \in Regs(t[m]), e.state = "transfer" PROVE e.due <= t[m].busFree
  <2>1. CASE e \in Regs(s[m])
    BY <1>2, <1>4, <2>1 DEF OneBus
  <2>2. CASE e = new
    BY <1>2, <1>3, <1>4, <2>2 DEF OneBus
  <2> QED
    BY <1>1, <2>1, <2>2
<1>5. ASSUME NEW e \in Regs(s[m]), e.state = "transfer", e.line # new.line, new.state = "transfer"
      PROVE  e.due >= new.due + BusCycles[m] \/ new.due >= e.due + BusCycles[m]
  <2>1. CASE old.state = "transfer" /\ new.due = old.due
    BY <1>5, <2>1 DEF OneBus
  <2>2. CASE new.due = t[m].busFree /\ t[m].busFree >= s[m].busFree + BusCycles[m]
    <3>1. e.due <= s[m].busFree
      BY <1>5 DEF OneBus
    <3> QED
      BY <1>2, <2>2, <3>1
  <2> QED
    BY <1>5, <2>1, <2>2
<1>6. ASSUME NEW e \in Regs(t[m]), NEW f \in Regs(t[m]), e.state = "transfer", f.state = "transfer", e.line # f.line
      PROVE  e.due >= f.due + BusCycles[m] \/ f.due >= e.due + BusCycles[m]
  <2>1. CASE e = new /\ f # new
    BY <1>1, <1>5, <1>6, <2>1
  <2>2. CASE e # new /\ f = new
    BY <1>1, <1>5, <1>6, <2>2
  <2>3. CASE e # new /\ f # new
    BY <1>1, <1>6, <2>3 DEF OneBus
  <2> QED
    BY <1>6, <2>1, <2>2, <2>3
<1> QED
  BY <1>4, <1>6 DEF OneBus

\* A fill: as many registers at most, one outstanding miss less if it was one.
LEMMA FillKeepsLevel ==
  ASSUME NEW s, Ordered(s), NEW m \in Mshrs, NEW e \in Regs(s[m]), e.state # "queued",
         NEW victim \in Victims(s, m),
         NEW t, Filling(s, t, m, e, victim), LevelOK(m, s[m])
  PROVE  LevelOK(m, t[m])
<1>1. PICK R, r, c : R = Regs(s[m]) /\ r = R \ {e} /\ c = s[m].cache
  OBVIOUS
<1>2. IsFiniteSet(R) /\ e \in Register /\ s[m] \in Level /\ \A f \in R : f.line = e.line => f = e
  BY <1>1, OrderedFacts
<1>3. IsFiniteSet(r)
  BY <1>1, <1>2, FS_Subset
<1>4. IsFiniteSet(c) /\ Cardinality(c) \in Nat /\ Cardinality(c) <= Ways[m] /\ Ways[m] \in Nat \ {0}
  BY <1>1, FS_CardinalityType, ConstantTypes DEF LevelOK, InOnePlace
<1>5. /\ Regs(t[m]) = r \cup KeptFor(victim) /\ t[m].cache = (c \ {victim}) \cup {e.line}
      /\ Len(t[m].misses) <= Len(s[m].misses) /\ Ordered(t)
  BY <1>1 DEF Filling
<1>6. (victim = Nothing /\ Cardinality(c) < Ways[m]) \/ victim \in c
  BY <1>1 DEF Victims
<1>7. e.line \notin c /\ (\A f \in r : f.line \notin c /\ f.line # e.line)
  BY <1>1, <1>2 DEF LevelOK, InOnePlace
<1>8. c \subseteq Lines /\ e.line \in Lines /\ Nothing \notin Lines
  BY <1>1, <1>2, MissesAssumption DEF Level, Register
<1>9. ASSUME NEW S, "victim" \notin S
      PROVE  Cardinality(Those(Regs(t[m]), S)) = Cardinality(Those(R, S)) - One(e, S)
  <2>1. Those(Regs(t[m]), S) = Those(r, S)
    BY <1>5, <1>9 DEF Those, KeptFor, Victim
  <2> QED
    BY <1>1, <1>2, <2>1, ThoseLess
<1>10. Counted(m, t[m])
  <2>1. t[m].active = Cardinality(Those(Regs(t[m]), Outstanding))
    <3>1. Cardinality(Those(Regs(t[m]), Outstanding)) = Cardinality(Those(R, Outstanding)) - One(e, Outstanding)
      <4>1. "victim" \notin Outstanding
        BY DEF Outstanding
      <4> QED
        BY <1>9, <4>1
    <3> QED
      BY <1>1, <3>1 DEF LevelOK, Counted, Filling, One
  <2>2. t[m].queued = Cardinality(Those(Regs(t[m]), {"queued"}))
    <3>1. Cardinality(Those(Regs(t[m]), {"queued"})) = Cardinality(Those(R, {"queued"})) - One(e, {"queued"})
      <4>1. "victim" \notin {"queued"}
        OBVIOUS
      <4> QED
        BY <1>9, <4>1
    <3>2. One(e, {"queued"}) = 0 /\ Cardinality(Those(R, {"queued"})) \in Nat
      BY <1>2, ThoseType DEF One
    <3>3. s[m].queued = Cardinality(Those(R, {"queued"})) /\ t[m].queued = s[m].queued
      BY <1>1 DEF LevelOK, Counted, Filling
    <3> QED
      BY <3>1, <3>2, <3>3
  <2>3. Len(t[m].misses) <= Entries[m]
    BY <1>5, OrderedFacts, ConstantTypes DEF LevelOK, Counted
  <2> QED
    BY <2>1, <2>2, <2>3 DEF Counted
<1>11. IsFiniteSet(t[m].cache) /\ Cardinality(t[m].cache) <= Ways[m]
  <2>1. PICK d : d = c \ {victim}
    OBVIOUS
  <2>2. IsFiniteSet(d) /\ e.line \notin d
    BY <1>4, <1>7, <2>1, FS_Subset
  <2>3. IsFiniteSet(d \cup {e.line}) /\ Cardinality(d \cup {e.line}) = Cardinality(d) + 1
    BY <2>2, FS_AddElement
  <2>4. CASE victim = Nothing /\ Cardinality(c) < Ways[m]
    <3>1. d = c
      BY <1>8, <2>1, <2>4
    <3>2. Cardinality(d \cup {e.line}) = Cardinality(c) + 1 /\ t[m].cache = d \cup {e.line}
      BY <1>5, <2>1, <2>3, <3>1
    <3> QED
      BY <1>4, <2>3, <2>4, <3>2
  <2>5. CASE victim \in c
    <3>1. Cardinality(d) = Cardinality(c) - 1
      BY <1>4, <2>1, <2>5, FS_RemoveElement
    <3> QED
      BY <1>4, <1>5, <2>1, <2>3, <3>1
  <2> QED
    BY <1>6, <2>4, <2>5
<1>12. \A f \in Regs(t[m]) : f.line \notin t[m].cache
  <2>1. ASSUME NEW f \in r PROVE f.line \notin t[m].cache
    BY <1>5, <1>7
  <2>2. ASSUME NEW f \in KeptFor(victim) PROVE f.line \notin t[m].cache
    <3>1. f.line = victim /\ victim # Nothing
      BY <2>2 DEF KeptFor, Victim
    <3> QED
      BY <1>5, <1>6, <1>7, <3>1
  <2> QED
    BY <1>5, <2>1, <2>2
<1>13. OneBus(m, t[m])
  <2>1. \A f \in Regs(t[m]) : f.state = "transfer" => f \in R
    BY <1>1, <1>5 DEF KeptFor, Victim
  <2>2. t[m].busFree = s[m].busFree
    BY DEF Filling
  <2> QED
    BY <1>1, <2>1, <2>2 DEF LevelOK, OneBus
<1> QED
  BY <1>10, <1>11, <1>12, <1>13 DEF LevelOK, InOnePlace

-----------------------------------------------------------------------------
(***************************************************************************)
(* A new miss.                                                             *)
(***************************************************************************)
\* q is what is left of the registers of a level when one is taken that is not
\* outstanding.
Freed(s, m, q, X) ==
    /\ q \in Seq(Register) /\ Distinct(q)
    /\ X \subseteq Those(Regs(s[m]), Present)
    /\ ToSet(q) = Regs(s[m]) \ X
    /\ Len(q) < Entries[m]

LEMMA LastPresent ==
  ASSUME NEW q \in Seq(Register), NEW x \in ToSet(q), x.state \in Present
  PROVE  \E n \in 1 .. Len(q) : /\ q[n].state \in Present
                                /\ \A k \in n + 1 .. Len(q) : q[k].state \in Outstanding
<1>1. /\ Len(q) \in Nat /\ \A n \in 1 .. Len(q) : q[n] \in Register
  BY ListFacts
<1>2. PICK S : S = {n \in 1 .. Len(q) : q[n].state \in Present}
  OBVIOUS
<1>3. S \subseteq 1 .. Len(q) /\ S # {}
  BY <1>2, ListFacts
<1>4. Max(S) \in S /\ \A y \in S : y <= Max(S)
  BY <1>1, <1>3, MaxExists
<1>5. PICK n : n = Max(S)
  OBVIOUS
<1>6. n \in 1 .. Len(q) /\ q[n].state \in Present
  BY <1>2, <1>4, <1>5
<1>7. ASSUME NEW k \in n + 1 .. Len(q) PROVE q[k].state \in Outstanding
  <2>1. k \in 1 .. Len(q) /\ ~ (k <= n)
    BY <1>1, <1>6
  <2>2. k \notin S
    BY <1>4, <1>5, <2>1
  <2> QED
    BY <1>1, <1>2, <2>1, <2>2 DEF Register
<1> QED
  BY <1>6, <1>7

LEMMA IdleFrees ==
  ASSUME NEW s, Ordered(s), NEW m \in Mshrs, Counted(m, s[m]), s[m].active < Entries[m]
  PROVE  \E X : Freed(s, m, Idle(s, m), X)
<1>1. PICK p : p = s[m].misses
  OBVIOUS
<1>2. /\ p \in Seq(Register) /\ Distinct(p) /\ Len(p) \in Nat /\ Len(p) <= Entries[m] /\ Entries[m] \in Nat
      /\ Regs(s[m]) = ToSet(p) /\ IsFiniteSet(ToSet(p)) /\ Cardinality(ToSet(p)) = Len(p) /\ DOMAIN p = 1 .. Len(p)
  BY <1>1, OrderedFacts, ConstantTypes DEF Counted, Regs
<1>3. CASE Len(p) < Entries[m]
  <2>1. Idle(s, m) = p
    BY <1>1, <1>3 DEF Idle
  <2>2. Freed(s, m, Idle(s, m), {})
    BY <1>2, <1>3, <2>1 DEF Freed
  <2> QED
    BY <2>2
<1>4. CASE ~ (Len(p) < Entries[m])
  <2>1. Cardinality(Those(ToSet(p), Outstanding)) # Len(p)
    BY <1>2, <1>4 DEF Counted
  <2>2. Those(ToSet(p), Outstanding) # ToSet(p)
    BY <1>2, <2>1
  <2>3. PICK x \in ToSet(p) : x.state \in Present
    <3>1. PICK x \in ToSet(p) : x.state \notin Outstanding
      BY <2>2 DEF Those
    <3>2. x \in Register
      BY <1>2, ListFacts
    <3>3. x.state \in Present
      BY <3>1, <3>2 DEF Register
    <3> QED
      BY <3>3
  <2>4. \E n \in 1 .. Len(p) : /\ p[n].state \in Present
                               /\ \A k \in n + 1 .. Len(p) : p[k].state \in Outstanding
    BY <1>2, <2>3, LastPresent
  <2>5. PICK last : last = CHOOSE n \in DOMAIN p : /\ p[n].state \in Present
                                                    /\ \A k \in n + 1 .. Len(p) : p[k].state \in Outstanding
    OBVIOUS
  <2>6. last \in 1 .. Len(p) /\ p[last].state \in Present
    BY <1>2, <2>4, <2>5
  <2>7. PICK q : q = RemoveAt(p, last)
    OBVIOUS
  <2>8. Idle(s, m) = q
    BY <1>1, <1>4, <2>5, <2>7 DEF Idle
  <2>9. Grown(q, p, last, Register)
    BY <1>2, <2>6, <2>7, RemoveShrinks
  <2>10. /\ Distinct(q) /\ ToSet(q) = ToSet(p) \ {p[last]} /\ Len(q) = Len(p) - 1 /\ p[last] \in ToSet(p)
         /\ q \in Seq(Register)
    <3>1. Distinct(p)
      BY <1>2
    <3>2. Distinct(q) /\ ToSet(q) = ToSet(p) \ {p[last]} /\ Len(q) = Len(p) - 1 /\ p[last] \in ToSet(p)
      BY ONLY <2>9, <3>1, Shorter
    <3> QED
      BY <2>9, <3>2 DEF Grown
  <2>11. {p[last]} \subseteq Those(Regs(s[m]), Present)
    BY <1>2, <2>6, <2>10 DEF Those
  <2>12. Freed(s, m, q, {p[last]})
    BY <1>2, <2>10, <2>11 DEF Freed
  <2> QED
    BY <2>8, <2>12
<1> QED
  BY <1>3, <1>4

\* A new register at the head of the list.
Entering(s, t, m, X, new) ==
    /\ Ordered(t) /\ SameElsewhere(s, t, m)
    /\ X \subseteq Those(Regs(s[m]), Present)
    /\ Regs(t[m]) = (Regs(s[m]) \ X) \cup {new}
    /\ Len(t[m].misses) <= Entries[m]
    /\ t[m].cache = s[m].cache
    /\ t[m].active = s[m].active + 1 /\ t[m].queued = s[m].queued + 1
    /\ t[m].busFree = s[m].busFree

New(line, p, waiters) == [line |-> line, state |-> "queued", priority |-> p, waiters |-> waiters, due |-> 0]

LEMMA MissEnters ==
  ASSUME NEW s, Ordered(s), NEW m \in Mshrs, Counted(m, s[m]), NEW line \in Lines, CanMiss(s, m, line),
         line \notin Allocated(s, m), NEW p \in Prefetch .. Store, NEW waiters \in SUBSET (Waiters \cup Mshrs),
         NEW t, t = Missed(s, m, line, p, waiters)
  PROVE  \E X : Entering(s, t, m, X, New(line, p, waiters))
<1>1. PICK new, r, q : new = New(line, p, waiters) /\ r = Idle(s, m) /\ q = <<new>> \o r
  OBVIOUS
<1>2. s[m].active < Entries[m]
  BY DEF CanMiss
<1>3. PICK X : Freed(s, m, r, X)
  BY <1>1, <1>2, IdleFrees
<1>4. r \in Seq(Register) /\ Distinct(r) /\ ToSet(r) = Regs(s[m]) \ X /\ Len(r) < Entries[m] /\ Len(r) \in Nat
  BY <1>3, LenProperties DEF Freed
<1>5. new \in Register /\ new.line = line
  BY <1>1 DEF New, Register, Outstanding
<1>6. \A f \in ToSet(r) : f.line # new.line
  BY <1>4, <1>5 DEF Allocated, Regs
<1>7. q \in Seq(Register) /\ Distinct(q) /\ ToSet(q) = ToSet(r) \cup {new} /\ Len(q) = Len(r) + 1
  BY <1>1, <1>4, <1>5, <1>6, HeadFacts
<1>8. t = [s EXCEPT ![m].misses = q, ![m].active = @ + 1, ![m].queued = @ + 1]
  BY <1>1 DEF Missed, New
<1>9. s \in [Mshrs -> Level] /\ s[m] \in Level
  BY DEF Ordered
<1>10. PICK v : v = [s[m] EXCEPT !.misses = q, !.active = s[m].active + 1, !.queued = s[m].queued + 1]
  OBVIOUS
<1>11. /\ v \in Level /\ v.misses = q /\ v.cache = s[m].cache /\ v.active = s[m].active + 1
       /\ v.queued = s[m].queued + 1 /\ v.busFree = s[m].busFree
  <2>1. s[m].active \in Int /\ s[m].queued \in Int
    BY <1>9 DEF Level
  <2>2. s[m].active + 1 \in Int /\ s[m].queued + 1 \in Int
    BY <2>1
  <2>3. v \in Level
    BY <1>7, <1>9, <1>10, <2>2 DEF Level
  <2>4. v.misses = q
    BY <1>9, <1>10 DEF Level
  <2> QED
    BY <1>9, <1>10, <2>3, <2>4 DEF Level
<1>12. t = [s EXCEPT ![m] = v]
  BY <1>8, <1>9, <1>10
<1>13. t \in [Mshrs -> Level] /\ t[m] = v /\ \A k \in Mshrs : k # m => t[k] = s[k]
  BY <1>9, <1>11, <1>12
<1>14. Ordered(t) /\ SameElsewhere(s, t, m)
  BY <1>7, <1>11, <1>13 DEF Ordered, SameElsewhere
<1>15. Regs(t[m]) = (Regs(s[m]) \ X) \cup {new} /\ Len(t[m].misses) <= Entries[m]
  BY <1>4, <1>7, <1>11, <1>13, ConstantTypes DEF Regs
<1>16. X \subseteq Those(Regs(s[m]), Present)
  BY <1>3 DEF Freed
<1>17. Entering(s, t, m, X, new)
  BY <1>11, <1>13, <1>14, <1>15, <1>16 DEF Entering
<1> QED
  BY <1>1, <1>17

LEMMA EnterKeepsLevel ==
  ASSUME NEW s, Ordered(s), NEW m \in Mshrs, LevelOK(m, s[m]), NEW new \in Register, new.state = "queued",
         new.line \notin s[m].cache, \A f \in Regs(s[m]) : f.line # new.line,
         NEW t, NEW X, Entering(s, t, m, X, new)
  PROVE  LevelOK(m, t[m])
<1>1. PICK R, r : R = Regs(s[m]) /\ r = R \ X
  OBVIOUS
<1>2. IsFiniteSet(R) /\ IsFiniteSet(r) /\ new \notin r
  BY <1>1, OrderedFacts, FS_Subset
<1>3. Regs(t[m]) = r \cup {new}
  BY <1>1 DEF Entering
<1>4. ASSUME NEW S, S \cap Present = {}
      PROVE  Cardinality(Those(Regs(t[m]), S)) = Cardinality(Those(R, S)) + One(new, S)
  <2>1. Those(r, S) = Those(R, S)
    BY <1>1, <1>4 DEF Those, Entering
  <2> QED
    BY <1>2, <1>3, <2>1, ThoseMore
<1>5. Counted(m, t[m])
  <2>1. Outstanding \cap Present = {} /\ {"queued"} \cap Present = {} /\ "queued" \in Outstanding
    BY DEF Outstanding, Present
  <2>2. One(new, Outstanding) = 1 /\ One(new, {"queued"}) = 1
    BY <2>1 DEF One
  <2>3. Cardinality(Those(Regs(t[m]), Outstanding)) = Cardinality(Those(R, Outstanding)) + One(new, Outstanding)
    BY <1>4, <2>1
  <2>4. Cardinality(Those(Regs(t[m]), {"queued"})) = Cardinality(Those(R, {"queued"})) + One(new, {"queued"})
    BY <1>4, <2>1
  <2> QED
    BY <1>1, <2>2, <2>3, <2>4 DEF LevelOK, Counted, Entering
<1>6. InOnePlace(m, t[m])
  BY <1>1, <1>3 DEF LevelOK, InOnePlace, Entering
<1>7. OneBus(m, t[m])
  <2>1. \A f \in Regs(t[m]) : f.state = "transfer" => f \in R
    BY <1>1, <1>3
  <2> QED
    BY <1>1, <2>1 DEF LevelOK, OneBus, Entering
<1> QED
  BY <1>5, <1>6, <1>7 DEF LevelOK

-----------------------------------------------------------------------------
(***************************************************************************)
(* Changes that leave the counts and the bus as they are.                  *)
(***************************************************************************)
LevelsOK(s) == \A m \in Mshrs : LevelOK(m, s[m])

Alike(a, b) == b \in Register /\ b.line = a.line /\ b.state = a.state /\ b.due = a.due

LEMMA AlikeKeeps ==
  ASSUME NEW s, Ordered(s), LevelsOK(s), NEW m \in Mshrs, NEW a \in Regs(s[m]), NEW b, Alike(a, b),
         NEW t, Turned(s, t, m, a, b), SameCounts(s, t, m)
  PROVE  Ordered(t) /\ LevelsOK(t)
<1>1. Ordered(t) /\ SameElsewhere(s, t, m)
  BY DEF Turned, TurnedAt
<1>2. b \in Register /\ b.line = a.line /\ b.state = a.state /\ b.due = a.due
  BY DEF Alike
<1>3. s[m] \in Level /\ LevelOK(m, s[m])
  BY OrderedFacts DEF LevelsOK
<1>4. Counted(m, t[m])
  <2>1. One(b, Outstanding) = One(a, Outstanding) /\ One(b, {"queued"}) = One(a, {"queued"})
    BY <1>2 DEF One
  <2>2. One(a, Outstanding) \in Int /\ One(a, {"queued"}) \in Int
    BY DEF One
  <2>3. s[m].active \in Int /\ s[m].queued \in Int
    BY <1>3 DEF Level
  <2>4. t[m].active = s[m].active + One(b, Outstanding) - One(a, Outstanding)
    BY <2>1, <2>2, <2>3 DEF SameCounts
  <2>5. t[m].queued = s[m].queued + One(b, {"queued"}) - One(a, {"queued"})
    BY <2>1, <2>2, <2>3 DEF SameCounts
  <2>6. Counted(m, s[m])
    BY <1>3 DEF LevelOK
  <2> QED
    BY <1>2, <2>4, <2>5, <2>6, TurnKeepsCounts DEF Turned
<1>5. InOnePlace(m, t[m])
  BY <1>2, <1>3, TurnKeepsPlaces DEF LevelOK, Turned
<1>6. OneBus(m, t[m])
  <2>1. t[m].busFree >= s[m].busFree
    BY <1>3 DEF Level, SameCounts
  <2>2. b.state = "transfer" => a.state = "transfer" /\ b.due = a.due
    BY <1>2
  <2>3. OneBus(m, s[m])
    BY <1>3 DEF LevelOK
  <2> QED
    BY <1>2, <2>1, <2>2, <2>3, TurnKeepsBus DEF Turned
<1> QED
  BY <1>1, <1>4, <1>5, <1>6 DEF LevelsOK, LevelOK, SameElsewhere

\* A register with another priority and more waiters.
Joined(e, p, waiters) ==
    [e EXCEPT !.priority = IF e.priority >= p THEN e.priority ELSE p, !.waiters = e.waiters \cup waiters]

LEMMA JoinedType ==
  ASSUME NEW e \in Register, NEW p \in Prefetch .. Store, NEW waiters \in SUBSET (Waiters \cup Mshrs)
  PROVE  /\ Alike(e, Joined(e, p, waiters))
         /\ Joined(e, p, waiters) \in Register /\ Joined(e, p, waiters).line = e.line
         /\ Joined(e, p, waiters).waiters = e.waiters \cup waiters
         /\ Joined(e, p, waiters).priority = IF e.priority >= p THEN e.priority ELSE p
BY DEF Joined, Register, Alike

LEMMA RaiseTurns ==
  ASSUME NEW s, Ordered(s), NEW m \in Mshrs, NEW e \in Regs(s[m]), NEW p \in Prefetch .. Store,
         NEW t, t = Raised(s, m, e.line, p)
  PROVE  Turned(s, t, m, e, Joined(e, p, {})) /\ SameCounts(s, t, m)
<1>1. e \in Register /\ Entry(s, m, e.line) = e
  BY OrderedFacts, EntryFound
<1>2. PICK new : new = Joined(e, p, {})
  OBVIOUS
<1>3. e.waiters \cup {} = e.waiters
  OBVIOUS
<1>4. CASE e.priority >= p
  <2>1. t = s
    BY <1>1, <1>4 DEF Raised
  <2>2. new = e
    BY <1>1, <1>2, <1>3, <1>4 DEF Joined, Register
  <2>3. Regs(s[m]) = (Regs(s[m]) \ {e}) \cup {e}
    OBVIOUS
  <2> QED
    BY <1>2, <2>1, <2>2, <2>3 DEF Turned, TurnedAt, SameElsewhere, SameCounts
<1>5. CASE ~ (e.priority >= p)
  <2>1. new = [e EXCEPT !.priority = p]
    BY <1>1, <1>2, <1>3, <1>5 DEF Joined, Register
  <2>2. new \in Register /\ new.line = e.line
    BY <1>1, <1>2, JoinedType
  <2>3. t = SetMRU(s, m, new) \/ t = InPlace(s, m, new)
    BY <1>1, <1>5, <2>1 DEF Raised
  <2> QED
    BY <1>2, <2>2, <2>3, SetMRUTurns, InPlaceTurns
<1> QED
  BY <1>4, <1>5

LEMMA JoinTurns ==
  ASSUME NEW s, Ordered(s), NEW m \in Mshrs, NEW e \in Regs(s[m]), NEW p \in Prefetch .. Store,
         NEW u, Ordered(u), NEW mid \in Regs(u[m]), mid = Joined(e, p, {}), NEW waiters \in SUBSET (Waiters \cup Mshrs),
         NEW t, t = InPlace(u, m, [Entry(u, m, e.line) EXCEPT !.waiters = @ \cup waiters])
  PROVE  Turned(u, t, m, mid, Joined(e, p, waiters)) /\ SameCounts(u, t, m)
<1>1. e \in Register
  BY OrderedFacts
<1>2. mid.line = e.line
  BY <1>1, JoinedType
<1>3. Entry(u, m, e.line) = mid
  BY <1>2, EntryFound
<1>4. PICK new : new = Joined(e, p, waiters)
  OBVIOUS
<1>5. new \in Register /\ new.line = mid.line
  BY <1>1, <1>2, <1>4, JoinedType
<1>6. [mid EXCEPT !.waiters = mid.waiters \cup waiters] = new
  <2>1. mid.waiters = e.waiters
    <3>1. mid.waiters = e.waiters \cup {}
      BY <1>1 DEF Joined, Register
    <3> QED
      BY <3>1
  <2> QED
    BY <1>1, <1>4, <2>1 DEF Joined, Register
<1>7. t = InPlace(u, m, new)
  BY <1>3, <1>6
<1> QED
  BY <1>4, <1>5, <1>7, InPlaceTurns

\* A miss of a line whose own miss does not wait below with less priority.
LEMMA MissJoins ==
  ASSUME NEW s, Ordered(s), LevelsOK(s), NEW m \in Mshrs, NEW e \in Regs(s[m]), NEW p \in Prefetch .. Store,
         NEW waiters \in SUBSET (Waiters \cup Mshrs), ~ (e.state = "wait" /\ e.priority < p),
         NEW t, t = Missed(s, m, e.line, p, waiters)
  PROVE  Turned(s, t, m, e, Joined(e, p, waiters)) /\ LevelsOK(t)
<1>1. e \in Register /\ Entry(s, m, e.line) = e /\ e.line \in Allocated(s, m)
  BY OrderedFacts, EntryFound
<1>2. PICK u, mid : u = Raised(s, m, e.line, p) /\ mid = Joined(e, p, {})
  OBVIOUS
<1>3. Turned(s, u, m, e, mid) /\ SameCounts(s, u, m)
  BY <1>2, RaiseTurns
<1>4. Alike(e, mid) /\ mid.line = e.line
  BY <1>1, <1>2, JoinedType
<1>5. Ordered(u) /\ mid \in Regs(u[m]) /\ LevelsOK(u)
  BY <1>3, <1>4, AlikeKeeps DEF Turned, TurnedAt
<1>6. t = InPlace(u, m, [Entry(u, m, e.line) EXCEPT !.waiters = @ \cup waiters])
  BY <1>1, <1>2 DEF Missed, UpgradePriorityIfNecessary
<1>7. PICK new : new = Joined(e, p, waiters)
  OBVIOUS
<1>8. Turned(u, t, m, mid, new) /\ SameCounts(u, t, m)
  BY <1>2, <1>5, <1>6, <1>7, JoinTurns
<1>9. Turned(s, t, m, e, new)
  BY <1>3, <1>4, <1>8, TurnedTwice
<1>10. Alike(mid, new)
  BY <1>1, <1>2, <1>7, JoinedType DEF Alike
<1>11. LevelsOK(t)
  BY <1>5, <1>8, <1>10, AlikeKeeps
<1> QED
  BY <1>7, <1>9, <1>11

\* One of a line whose miss waits below: the miss below hears of the priority.
JoinedBelow(s, t, m, e, new, f, below) ==
    /\ Ordered(t)
    /\ \A k \in Mshrs : k # m /\ k # "L2" => t[k] = s[k]
    /\ t[m].cache = s[m].cache /\ t["L2"].cache = s["L2"].cache
    /\ Regs(t[m]) = (Regs(s[m]) \ {e}) \cup {new}
    /\ Regs(t["L2"]) = (Regs(s["L2"]) \ {f}) \cup {below}

LEMMA MissJoinsBelow ==
  ASSUME NEW s, Ordered(s), LevelsOK(s), NEW m \in Mshrs, m # "L2", NEW e \in Regs(s[m]), NEW p \in Prefetch .. Store,
         NEW waiters \in SUBSET (Waiters \cup Mshrs), e.state = "wait", e.priority < p,
         NEW f \in Regs(s["L2"]), f.line = e.line,
         NEW t, t = Missed(s, m, e.line, p, waiters)
  PROVE  JoinedBelow(s, t, m, e, Joined(e, p, waiters), f, Joined(f, p, {})) /\ LevelsOK(t)
<1>0. "L2" \in Mshrs
  BY DEF Mshrs
<1>1. e \in Register /\ Entry(s, m, e.line) = e /\ e.line \in Allocated(s, m) /\ f \in Register
  BY <1>0, OrderedFacts, EntryFound
<1>2. PICK r, u, mid, below, new :
          /\ r = Raised(s, m, e.line, p) /\ u = Raised(r, "L2", f.line, p)
          /\ mid = Joined(e, p, {}) /\ below = Joined(f, p, {}) /\ new = Joined(e, p, waiters)
  OBVIOUS
<1>3. Turned(s, r, m, e, mid) /\ SameCounts(s, r, m)
  BY <1>2, RaiseTurns
<1>4. Alike(e, mid) /\ mid.line = e.line /\ Alike(f, below) /\ Alike(mid, new)
  BY <1>1, <1>2, JoinedType DEF Alike
<1>5. Ordered(r) /\ LevelsOK(r)
  BY <1>3, <1>4, AlikeKeeps
<1>6. r["L2"] = s["L2"] /\ mid \in Regs(r[m])
  BY <1>0, <1>3 DEF Turned, TurnedAt, SameElsewhere
<1>7. Turned(r, u, "L2", f, below) /\ SameCounts(r, u, "L2")
  BY <1>0, <1>2, <1>5, <1>6, RaiseTurns
<1>8. Ordered(u) /\ LevelsOK(u)
  BY <1>0, <1>4, <1>5, <1>6, <1>7, AlikeKeeps
<1>9. u[m] = r[m] /\ mid \in Regs(u[m])
  BY <1>6, <1>7 DEF Turned, TurnedAt, SameElsewhere
<1>10. t = InPlace(u, m, [Entry(u, m, e.line) EXCEPT !.waiters = @ \cup waiters])
  BY <1>1, <1>2 DEF Missed, UpgradePriorityIfNecessary
<1>11. Turned(u, t, m, mid, new) /\ SameCounts(u, t, m)
  BY <1>2, <1>8, <1>9, <1>10, JoinTurns
<1>12. LevelsOK(t)
  BY <1>4, <1>8, <1>9, <1>11, AlikeKeeps
<1>13. mid \notin Regs(s[m]) \ {e}
  BY <1>4, OrderedFacts
<1>14. Regs(t[m]) = (((Regs(s[m]) \ {e}) \cup {mid}) \ {mid}) \cup {new}
  BY <1>3, <1>9, <1>11 DEF Turned, TurnedAt
<1>15. Regs(t[m]) = (Regs(s[m]) \ {e}) \cup {new}
  BY <1>13, <1>14
<1>16. t["L2"] = u["L2"] /\ Ordered(t) /\ \A k \in Mshrs : k # m /\ k # "L2" => t[k] = s[k]
  BY <1>0, <1>3, <1>7, <1>11 DEF Turned, TurnedAt, SameElsewhere
<1>17. Regs(t["L2"]) = (Regs(s["L2"]) \ {f}) \cup {below}
  BY <1>6, <1>7, <1>16 DEF Turned, TurnedAt
<1>18. t[m].cache = s[m].cache /\ t["L2"].cache = s["L2"].cache
  BY <1>3, <1>6, <1>7, <1>9, <1>11, <1>16 DEF Turned, TurnedAt
<1>19. JoinedBelow(s, t, m, e, new, f, below)
  BY <1>15, <1>16, <1>17, <1>18 DEF JoinedBelow
<1> QED
  BY <1>2, <1>12, <1>19

-----------------------------------------------------------------------------
(***************************************************************************)
(* Who waits for whom: the accesses of the processor in the lists of the   *)
(* first level, its registers in those of the second.                      *)
(***************************************************************************)
FirstLevel == {"IL1", "DL1"}

Users(m) == IF m = "IL1" THEN {Sequencer} ELSE Insts

OnLists(m, R, st, tg) ==
    /\ \A e \in R : e.waiters = {w \in Users(m) : st[w] = "waiting" /\ tg[w] = e.line}
    /\ \A e \in R : e.waiters # {} => e.state \in Outstanding /\ e.priority > ToCache
    /\ \A w \in Users(m) : st[w] = "waiting" => \E e \in R : e.line = tg[w]

Listed(s, st, tg) == \A m \in FirstLevel : OnLists(m, Regs(s[m]), st, tg)

\* B: the registers of the second level.  Nothing is prefetched into it, and none of
\* its own waits.
SecondOK(B) ==
    \A f \in B : /\ f.state \in {"queued", "transfer", "victim"}
                 /\ f.state \in Outstanding => f.priority >= ToCache
                 /\ f.waiters \subseteq FirstLevel
                 /\ f.waiters # {} => f.state \in Outstanding

Below(R, B, m) ==
    \A e \in R : e.state = "wait" => \E f \in B : f.line = e.line /\ m \in f.waiters /\ f.priority >= e.priority

Above(R, B, m) ==
    \A f \in B : m \in f.waiters => \E e \in R : e.line = f.line /\ e.state = "wait"

Linked(s) ==
    /\ SecondOK(Regs(s["L2"]))
    /\ \A m \in FirstLevel : Below(Regs(s[m]), Regs(s["L2"]), m) /\ Above(Regs(s[m]), Regs(s["L2"]), m)

LEMMA MshrsAre == Mshrs = {"L2"} \cup FirstLevel /\ "L2" \notin FirstLevel /\ "L2" \in Mshrs
BY DEF Mshrs, FirstLevel

\* As long as the same registers of the first level wait, nothing changes.
LEMMA FirstLinked ==
  ASSUME NEW s, NEW t, NEW m \in FirstLevel, Linked(s), SameElsewhere(s, t, m),
         Those(Regs(t[m]), {"wait"}) = Those(Regs(s[m]), {"wait"})
  PROVE  Linked(t)
<1>1. t["L2"] = s["L2"]
  BY MshrsAre DEF SameElsewhere
<1>2. ASSUME NEW k \in FirstLevel PROVE Those(Regs(t[k]), {"wait"}) = Those(Regs(s[k]), {"wait"})
  BY MshrsAre DEF SameElsewhere
<1>3. ASSUME NEW k \in FirstLevel PROVE Below(Regs(t[k]), Regs(t["L2"]), k)
  <2>1. \A e \in Regs(t[k]) : e.state = "wait" => e \in Regs(s[k])
    BY <1>2 DEF Those
  <2> QED
    BY <1>1, <2>1 DEF Linked, Below
<1>4. ASSUME NEW k \in FirstLevel PROVE Above(Regs(t[k]), Regs(t["L2"]), k)
  <2>1. \A e \in Regs(s[k]) : e.state = "wait" => e \in Regs(t[k])
    BY <1>2 DEF Those
  <2> QED
    BY <1>1, <2>1 DEF Linked, Above
<1> QED
  BY <1>1, <1>3, <1>4 DEF Linked

LEMMA FirstLinkedTurn ==
  ASSUME NEW s, Ordered(s), NEW t, NEW m \in FirstLevel, Linked(s), NEW a \in Regs(s[m]), NEW b, Turned(s, t, m, a, b),
         b.line = a.line, b.state = "wait" <=> a.state = "wait", a.state = "wait" => b.priority = a.priority
  PROVE  Linked(t)
<1>0. SameElsewhere(s, t, m) /\ Regs(t[m]) = (Regs(s[m]) \ {a}) \cup {b} /\ a \in Regs(s[m])
  BY DEF Turned, TurnedAt
<1>1. t["L2"] = s["L2"] /\ \A k \in FirstLevel : k # m => t[k] = s[k]
  BY <1>0, MshrsAre DEF SameElsewhere
<1>2. ASSUME NEW k \in FirstLevel PROVE Below(Regs(t[k]), Regs(t["L2"]), k)
  <2>1. ASSUME NEW e \in Regs(t[k]), e.state = "wait"
        PROVE  \E d \in Regs(s[k]) : d.state = "wait" /\ d.line = e.line /\ d.priority = e.priority
    BY <1>0, <1>1, <2>1
  <2> QED
    BY <1>1, <2>1 DEF Linked, Below
<1>3. ASSUME NEW k \in FirstLevel PROVE Above(Regs(t[k]), Regs(t["L2"]), k)
  <2>1. ASSUME NEW e \in Regs(s[k]), e.state = "wait"
        PROVE  \E d \in Regs(t[k]) : d.state = "wait" /\ d.line = e.line
    BY <1>0, <1>1, <2>1
  <2> QED
    BY <1>1, <2>1 DEF Linked, Above
<1> QED
  BY <1>1, <1>2, <1>3 DEF Linked

\* Registers of the second level that nobody waits for come and go.
LEMMA SecondLinked ==
  ASSUME NEW s, NEW t, Linked(s), SameElsewhere(s, t, "L2"), NEW X, NEW N, SecondOK(N),
         Regs(t["L2"]) = (Regs(s["L2"]) \ X) \cup N,
         \A f \in X : f.waiters = {}, \A f \in N : f.waiters = {}
  PROVE  Linked(t)
<1>1. \A k \in FirstLevel : t[k] = s[k]
  BY MshrsAre DEF SameElsewhere
<1>2. SecondOK(Regs(t["L2"]))
  BY DEF Linked, SecondOK
<1>3. ASSUME NEW k \in FirstLevel PROVE Below(Regs(t[k]), Regs(t["L2"]), k)
  BY <1>1 DEF Linked, Below
<1>4. ASSUME NEW k \in FirstLevel PROVE Above(Regs(t[k]), Regs(t["L2"]), k)
  BY <1>1 DEF Linked, Above
<1> QED
  BY <1>2, <1>3, <1>4 DEF Linked

LEMMA SecondLinkedTurn ==
  ASSUME NEW s, NEW t, Linked(s), NEW a \in Regs(s["L2"]), NEW b, Turned(s, t, "L2", a, b), SecondOK({b}),
         a \in Register, b \in Register,
         b.line = a.line, b.waiters = a.waiters, b.priority = a.priority
  PROVE  Linked(t)
<1>0. SameElsewhere(s, t, "L2") /\ Regs(t["L2"]) = (Regs(s["L2"]) \ {a}) \cup {b}
  BY DEF Turned, TurnedAt
<1>1. \A k \in FirstLevel : t[k] = s[k]
  BY <1>0, MshrsAre DEF SameElsewhere
<1>2. SecondOK(Regs(t["L2"]))
  BY <1>0 DEF Linked, SecondOK
<1>3. ASSUME NEW k \in FirstLevel PROVE Below(Regs(t[k]), Regs(t["L2"]), k)
  BY <1>0, <1>1 DEF Linked, Below
<1>4. ASSUME NEW k \in FirstLevel PROVE Above(Regs(t[k]), Regs(t["L2"]), k)
  BY <1>0, <1>1 DEF Linked, Above
<1> QED
  BY <1>2, <1>3, <1>4 DEF Linked

\* f2 takes over from the registers X, of which at most the one of its line has waiters.
Succeeds(B, X, f2, m) ==
    /\ X \subseteq B
    /\ \A f \in X : f.waiters = {} \/ (f.line = f2.line /\ f.waiters \subseteq f2.waiters /\ f.priority <= f2.priority)
    /\ \A k \in f2.waiters : k = m \/ \E f \in X : f.line = f2.line /\ k \in f.waiters

\* A register of the first level waits for one of the second.
LEMMA BothLinked ==
  ASSUME NEW s, NEW t, Linked(s), NEW m \in FirstLevel, \A k \in Mshrs : k # m /\ k # "L2" => t[k] = s[k],
         NEW e \in Regs(s[m]), NEW new, new.line = e.line, new.state = "wait",
         Regs(t[m]) = (Regs(s[m]) \ {e}) \cup {new},
         NEW X, NEW f2, f2.line = e.line, m \in f2.waiters, f2.priority >= new.priority, SecondOK({f2}),
         f2.priority \in Int, \A f \in Regs(s["L2"]) : f.priority \in Int,
         \A k \in FirstLevel : \A d \in Regs(s[k]) : d.priority \in Int,
         Regs(t["L2"]) = (Regs(s["L2"]) \ X) \cup {f2},
         Succeeds(Regs(s["L2"]), X, f2, m)
  PROVE  Linked(t)
<1>0. /\ X \subseteq Regs(s["L2"])
      /\ \A f \in X : f.waiters = {} \/ (f.line = f2.line /\ f.waiters \subseteq f2.waiters /\ f.priority <= f2.priority)
      /\ \A k \in f2.waiters : k = m \/ \E f \in X : f.line = f2.line /\ k \in f.waiters
  BY DEF Succeeds
<1>1. \A k \in FirstLevel : k # m => t[k] = s[k]
  BY MshrsAre
<1>2. SecondOK(Regs(t["L2"]))
  BY DEF Linked, SecondOK
<1>3. ASSUME NEW k \in FirstLevel, NEW f \in Regs(s["L2"]), k \in f.waiters
      PROVE  \E g \in Regs(t["L2"]) : g.line = f.line /\ k \in g.waiters /\ g.priority >= f.priority
  <2>1. CASE f \in X
    BY <1>0, <1>3, <2>1
  <2>2. CASE f \notin X
    BY <1>3, <2>2
  <2> QED
    BY <2>1, <2>2
<1>4. ASSUME NEW k \in FirstLevel, NEW d \in Regs(s[k]), d.state = "wait", d.priority \in Int
      PROVE  \E g \in Regs(t["L2"]) : g.line = d.line /\ k \in g.waiters /\ g.priority >= d.priority
  <2>1. PICK f \in Regs(s["L2"]) : f.line = d.line /\ k \in f.waiters /\ f.priority >= d.priority
    BY <1>4 DEF Linked, Below
  <2>2. PICK g \in Regs(t["L2"]) : g.line = f.line /\ k \in g.waiters /\ g.priority >= f.priority
    BY <1>3, <2>1
  <2>3. g.priority \in Int /\ f.priority \in Int
    BY <2>1, <2>2
  <2> QED
    BY <1>4, <2>1, <2>2, <2>3
<1>5. Below(Regs(t[m]), Regs(t["L2"]), m)
  BY <1>4 DEF Below
<1>6. Above(Regs(t[m]), Regs(t["L2"]), m)
  <2> SUFFICES ASSUME NEW f \in Regs(t["L2"]), m \in f.waiters
               PROVE  \E d \in Regs(t[m]) : d.line = f.line /\ d.state = "wait"
    BY DEF Above
  <2>1. CASE f = f2
    BY <2>1
  <2>2. CASE f \in Regs(s["L2"])
    <3>1. PICK d \in Regs(s[m]) : d.line = f.line /\ d.state = "wait"
      BY <2>2 DEF Linked, Above
    <3> QED
      BY <3>1
  <2> QED
    BY <2>1, <2>2
<1>7. ASSUME NEW k \in FirstLevel, k # m PROVE Above(Regs(t[k]), Regs(t["L2"]), k)
  <2> SUFFICES ASSUME NEW f \in Regs(t["L2"]), k \in f.waiters
               PROVE  \E d \in Regs(s[k]) : d.line = f.line /\ d.state = "wait"
    BY <1>1, <1>7 DEF Above
  <2>1. CASE f = f2
    <3>1. PICK g \in X : g.line = f2.line /\ k \in g.waiters
      BY <1>0, <1>7, <2>1
    <3> QED
      BY <1>0, <2>1, <3>1 DEF Linked, Above
  <2>2. CASE f \in Regs(s["L2"])
    BY <2>2 DEF Linked, Above
  <2> QED
    BY <2>1, <2>2
<1>8. ASSUME NEW k \in FirstLevel, k # m PROVE Below(Regs(t[k]), Regs(t["L2"]), k)
  <2> SUFFICES ASSUME NEW d \in Regs(s[k]), d.state = "wait"
               PROVE  \E g \in Regs(t["L2"]) : g.line = d.line /\ k \in g.waiters /\ g.priority >= d.priority
    BY <1>1, <1>8 DEF Below
  <2> QED
    BY <1>4
<1> QED
  BY <1>2, <1>5, <1>6, <1>7, <1>8 DEF Linked

-----------------------------------------------------------------------------
(***************************************************************************)
(* The lists of the first level when a register comes, goes or changes.    *)
(***************************************************************************)
\* No user of m begins or stops to wait.
SameWaiting(m, st, st2, tg, tg2) ==
    \A w \in Users(m) : /\ st2[w] = "waiting" <=> st[w] = "waiting"
                        /\ st[w] = "waiting" => tg2[w] = tg[w]

LEMMA UsersAre ==
  ASSUME NEW m
  PROVE  Users(m) \subseteq Waiters
BY DEF Users, Waiters

LEMMA QuietLists ==
  ASSUME NEW m, NEW R, NEW st, NEW tg, NEW st2, NEW tg2, OnLists(m, R, st, tg), SameWaiting(m, st, st2, tg, tg2)
  PROVE  OnLists(m, R, st2, tg2)
<1>1. \A w \in Users(m) : /\ st2[w] = "waiting" <=> st[w] = "waiting"
                          /\ st[w] = "waiting" => tg2[w] = tg[w]
  BY DEF SameWaiting
<1>2. ASSUME NEW e
      PROVE  {w \in Users(m) : st2[w] = "waiting" /\ tg2[w] = e.line} = {w \in Users(m) : st[w] = "waiting" /\ tg[w] = e.line}
  BY <1>1
<1>3. \A w \in Users(m) : st2[w] = "waiting" => \E e \in R : e.line = tg2[w]
  BY <1>1 DEF OnLists
<1> QED
  BY <1>2, <1>3 DEF OnLists

LEMMA TurnLists ==
  ASSUME NEW m, NEW R, NEW st, NEW tg, OnLists(m, R, st, tg), NEW a \in R, NEW b, b.line = a.line, b.waiters = a.waiters,
         b.waiters # {} => b.state \in Outstanding /\ b.priority > ToCache
  PROVE  OnLists(m, (R \ {a}) \cup {b}, st, tg)
<1>1. \A e \in (R \ {a}) \cup {b} : e.waiters = {w \in Users(m) : st[w] = "waiting" /\ tg[w] = e.line}
  BY DEF OnLists
<1>2. \A e \in (R \ {a}) \cup {b} : e.waiters # {} => e.state \in Outstanding /\ e.priority > ToCache
  BY DEF OnLists
<1>3. \A w \in Users(m) : st[w] = "waiting" => \E e \in (R \ {a}) \cup {b} : e.line = tg[w]
  BY DEF OnLists
<1> QED
  BY <1>1, <1>2, <1>3 DEF OnLists

\* Registers without waiters come and go.
LEMMA EmptyLists ==
  ASSUME NEW m, NEW R, NEW st, NEW tg, OnLists(m, R, st, tg), NEW X, NEW N, \A f \in X : f \in R /\ f.waiters = {},
         \A f \in N : f.waiters = {} /\ \A w \in Users(m) : st[w] = "waiting" => tg[w] # f.line
  PROVE  OnLists(m, (R \ X) \cup N, st, tg)
<1>1. \A e \in (R \ X) \cup N : e.waiters = {w \in Users(m) : st[w] = "waiting" /\ tg[w] = e.line}
  BY DEF OnLists
<1>2. \A e \in (R \ X) \cup N : e.waiters # {} => e.state \in Outstanding /\ e.priority > ToCache
  BY DEF OnLists
<1>3. ASSUME NEW w \in Users(m), st[w] = "waiting" PROVE \E e \in (R \ X) \cup N : e.line = tg[w]
  <2>1. PICK e \in R : e.line = tg[w]
    BY <1>3 DEF OnLists
  <2>2. w \in e.waiters
    BY <1>3, <2>1 DEF OnLists
  <2> QED
    BY <2>1, <2>2
<1> QED
  BY <1>1, <1>2, <1>3 DEF OnLists

\* b takes w, beside whoever waits for its line, over from the registers X.
Enlists(m, R, st, tg, w, line, X, b) ==
    /\ \A f \in X : f \in R /\ (f.waiters = {} \/ f.line = line)
    /\ \A f \in R \ X : f.line # line
    /\ b.line = line /\ b.waiters = {w} \cup {v \in Users(m) : st[v] = "waiting" /\ tg[v] = line}
    /\ b.state \in Outstanding /\ b.priority > ToCache

\* w begins to wait, in the list of b.
LEMMA JoinLists ==
  ASSUME NEW m, NEW R, NEW st, NEW tg, OnLists(m, R, st, tg), NEW w \in Users(m), st[w] # "waiting", NEW line,
         st \in [Waiters -> Stages], tg \in [Waiters -> Lines \cup {Nothing}],
         NEW st2, st2 = [st EXCEPT ![w] = "waiting"], NEW tg2, tg2 = [tg EXCEPT ![w] = line],
         NEW X, NEW b, Enlists(m, R, st, tg, w, line, X, b)
  PROVE  OnLists(m, (R \ X) \cup {b}, st2, tg2)
<1> USE DEF Enlists
<1>0. Users(m) \subseteq Waiters
  BY UsersAre
<1>1. \A v \in Users(m) : /\ st2[v] = (IF v = w THEN "waiting" ELSE st[v])
                          /\ tg2[v] = (IF v = w THEN line ELSE tg[v])
  BY <1>0
<1>2. ASSUME NEW e \in R \ X PROVE e.waiters = {v \in Users(m) : st2[v] = "waiting" /\ tg2[v] = e.line}
  <2>1. e.line # line /\ e.waiters = {v \in Users(m) : st[v] = "waiting" /\ tg[v] = e.line}
    BY DEF OnLists
  <2> QED
    BY <1>1, <2>1
<1>3. b.waiters = {v \in Users(m) : st2[v] = "waiting" /\ tg2[v] = b.line}
  BY <1>1
<1>4. \A e \in (R \ X) \cup {b} : e.waiters # {} => e.state \in Outstanding /\ e.priority > ToCache
  BY DEF OnLists
<1>5. ASSUME NEW v \in Users(m), st2[v] = "waiting" PROVE \E e \in (R \ X) \cup {b} : e.line = tg2[v]
  <2>1. CASE tg2[v] = line
    BY <2>1
  <2>2. CASE tg2[v] # line
    <3>1. v # w /\ st[v] = "waiting" /\ tg[v] = tg2[v]
      BY <1>1, <1>5, <2>2
    <3>2. PICK e \in R : e.line = tg[v]
      BY <3>1 DEF OnLists
    <3>3. v \in e.waiters
      BY <3>1, <3>2 DEF OnLists
    <3>4. e \notin X
      BY <2>2, <3>1, <3>2, <3>3
    <3> QED
      BY <3>1, <3>2, <3>4
  <2> QED
    BY <2>1, <2>2
<1> QED
  BY <1>2, <1>3, <1>4, <1>5 DEF OnLists

\* Those in gone leave the list of a, which stays with the rest, or goes when all leave.
Leaves(m, st, st2, a, gone, N) ==
    /\ gone \subseteq a.waiters
    /\ \A v \in Users(m) : st2[v] = "waiting" <=> st[v] = "waiting" /\ v \notin gone
    /\ \/ N = {} /\ gone = a.waiters
       \/ \E b : /\ N = {b} /\ b.line = a.line /\ b.waiters = a.waiters \ gone
                 /\ b.state = a.state /\ b.priority = a.priority

\* Who is on a is so no more, and stops to wait or waits elsewhere; the others stay.
LEMMA LeaveLists ==
  ASSUME NEW m, NEW R, NEW st, NEW tg, OnLists(m, R, st, tg), NEW a \in R, \A f \in R : f.line = a.line => f = a,
         NEW gone, NEW st2, NEW N, Leaves(m, st, st2, a, gone, N)
  PROVE  OnLists(m, (R \ {a}) \cup N, st2, tg)
<1> USE DEF Leaves
<1>1. a.waiters = {w \in Users(m) : st[w] = "waiting" /\ tg[w] = a.line}
  BY DEF OnLists
<1>2. ASSUME NEW e \in R \ {a} PROVE e.waiters = {v \in Users(m) : st2[v] = "waiting" /\ tg[v] = e.line}
  <2>1. e.line # a.line /\ e.waiters = {v \in Users(m) : st[v] = "waiting" /\ tg[v] = e.line}
    BY DEF OnLists
  <2> QED
    BY <1>1, <2>1
<1>3. ASSUME NEW e \in N PROVE e.waiters = {v \in Users(m) : st2[v] = "waiting" /\ tg[v] = e.line}
  <2>1. e.line = a.line /\ e.waiters = a.waiters \ gone
    OBVIOUS
  <2> QED
    BY <1>1, <2>1
<1>4. \A e \in (R \ {a}) \cup N : e.waiters # {} => e.state \in Outstanding /\ e.priority > ToCache
  BY DEF OnLists
<1>5. ASSUME NEW v \in Users(m), st2[v] = "waiting" PROVE \E e \in (R \ {a}) \cup N : e.line = tg[v]
  <2>1. st[v] = "waiting" /\ v \notin gone
    BY <1>5
  <2>2. PICK e \in R : e.line = tg[v]
    BY <2>1 DEF OnLists
  <2>3. CASE e = a
    <3>1. v \in a.waiters
      BY <1>1, <2>1, <2>2, <2>3
    <3> QED
      BY <2>1, <2>2, <2>3, <3>1
  <2> QED
    BY <2>2, <2>3
<1> QED
  BY <1>2, <1>3, <1>4, <1>5 DEF OnLists

-----------------------------------------------------------------------------
(***************************************************************************)
(* The inductive invariant.  The levels are in order and so are the lists; *)
(* once the cycle's work is done no transfer is due that has not ended;    *)
(* the line buffer is what the sequencer has last asked for.               *)
(***************************************************************************)
ScalarsOK ==
    /\ stage \in [Waiters -> Stages]
    /\ target \in [Waiters -> Lines \cup {Nothing}]
    /\ lineBuffer \in Lines \cup {Nothing}
    /\ turn \in DOMAIN After
    /\ accesses \in 0 .. LastAccess

Started(s) == \A m \in Mshrs : \A e \in Regs(s[m]) : e.state = "transfer" => e.due > 0

IInv ==
    /\ Ordered(mshr) /\ LevelsOK(mshr)
    /\ Listed(mshr, stage, target) /\ Linked(mshr)
    /\ ScalarsOK
    /\ turn # "run" => Started(mshr)
    /\ lineBuffer = target[Sequencer]

LEMMA InitIInv == Init => IInv
<1> SUFFICES ASSUME Init PROVE IInv
  OBVIOUS
<1> DEFINE v == [cache |-> {}, misses |-> <<>>, active |-> 0, queued |-> 0, busFree |-> 0]
<1>1. \A m \in Mshrs : mshr[m] = v
  BY DEF Init
<1>2. v \in Level /\ v.misses = <<>> /\ v.cache = {} /\ v.active = 0 /\ v.queued = 0
  BY DEF Level
<1>3. Distinct(<<>>) /\ Regs(v) = {}
  BY <1>2 DEF Distinct, Regs, ToSet
<1>4. Ordered(mshr)
  BY <1>1, <1>2, <1>3 DEF Ordered, Init
<1>5. ASSUME NEW m \in Mshrs PROVE LevelOK(m, mshr[m])
  <2>1. Counted(m, v)
    <3>1. Those({}, Outstanding) = {} /\ Those({}, {"queued"}) = {}
      BY DEF Those
    <3>2. Cardinality({}) = 0 /\ Len(<<>>) = 0
      BY FS_EmptySet
    <3>3. Entries[m] \in Nat
      BY ConstantTypes
    <3>4. Cardinality(Those(Regs(v), Outstanding)) = 0 /\ Cardinality(Those(Regs(v), {"queued"})) = 0
      BY <1>3, <3>1, <3>2
    <3>5. Len(v.misses) <= Entries[m]
      BY <1>2, <3>2, <3>3
    <3> QED
      BY <1>2, <3>4, <3>5 DEF Counted
  <2>2. InOnePlace(m, v)
    BY <1>2, <1>3, FS_EmptySet, ConstantTypes DEF InOnePlace
  <2>3. OneBus(m, v)
    BY <1>3 DEF OneBus
  <2> QED
    BY <1>1, <2>1, <2>2, <2>3 DEF LevelOK
<1>6. \A m \in Mshrs : Regs(mshr[m]) = {}
  BY <1>1, <1>3
<1>7. Listed(mshr, stage, target)
  <2>1. ASSUME NEW m \in FirstLevel PROVE OnLists(m, {}, stage, target)
    BY UsersAre DEF OnLists, Init
  <2> QED
    BY <1>6, <2>1, MshrsAre DEF Listed
<1>8. Linked(mshr)
  <2>1. SecondOK({})
    BY DEF SecondOK
  <2>2. ASSUME NEW m \in FirstLevel PROVE Below({}, {}, m) /\ Above({}, {}, m)
    BY DEF Below, Above
  <2> QED
    BY <1>6, <2>1, <2>2, MshrsAre DEF Linked
<1>9. ScalarsOK /\ lineBuffer = target[Sequencer] /\ turn = "run"
  BY MissesAssumption DEF ScalarsOK, Init, Stages, After, Waiters
<1> QED
  BY <1>4, <1>5, <1>7, <1>8, <1>9 DEF IInv, LevelsOK

LEMMA LevelsElsewhere ==
  ASSUME NEW s, LevelsOK(s), NEW m \in Mshrs, NEW t, SameElsewhere(s, t, m), LevelOK(m, t[m])
  PROVE  LevelsOK(t)
BY DEF LevelsOK, SameElsewhere

\* What a miss does to its level: it joins that of its line or takes a register.
Missing(s, t, m, line, p, waiters, X, b) ==
    /\ \A k \in FirstLevel : k # m => t[k] = s[k]
    /\ t[m].cache = s[m].cache
    /\ Regs(t[m]) = (Regs(s[m]) \ X) \cup {b}
    /\ X \subseteq Regs(s[m])
    /\ \/ \E e \in Regs(s[m]) : /\ X = {e} /\ e.line = line /\ e.state \in Outstanding
                                /\ b = Joined(e, p, waiters)
       \/ /\ X \subseteq Those(Regs(s[m]), Present) /\ line \notin Allocated(s, m)
          /\ b = New(line, p, waiters)

LEMMA MissShape ==
  ASSUME NEW s, Ordered(s), LevelsOK(s), Linked(s), NEW m \in FirstLevel, NEW line \in Lines,
         ~ Kept(s, m, line), line \notin s[m].cache, CanMiss(s, m, line),
         NEW p \in Prefetch .. Store, NEW waiters \in SUBSET (Waiters \cup Mshrs),
         NEW t, t = Missed(s, m, line, p, waiters)
  PROVE  /\ Ordered(t) /\ LevelsOK(t) /\ Linked(t)
         /\ \E X, b : Missing(s, t, m, line, p, waiters, X, b)
<1>0. m \in Mshrs /\ m # "L2" /\ "L2" \in Mshrs
  BY MshrsAre
<1>1. CASE line \in Allocated(s, m)
  <2>1. PICK e \in Regs(s[m]) : e = Entry(s, m, line) /\ e.line = line
    BY <1>0, <1>1, AllocatedEntry
  <2>2. e \in Register
    BY <1>0, OrderedFacts
  <2>3. e.state \in Outstanding
    BY <1>1, <2>1, <2>2 DEF Kept, Register
  <2>4. PICK b : b = Joined(e, p, waiters)
    OBVIOUS
  <2>5. /\ b \in Register /\ b.line = e.line /\ b.state = e.state
        /\ b.priority = IF e.priority >= p THEN e.priority ELSE p
    BY <2>2, <2>4, JoinedType DEF Alike
  <2>6. e.priority \in Int /\ p \in Int
    BY <2>2 DEF Register, Prefetch, Store
  <2>7. CASE e.state = "wait" /\ e.priority < p
    <3>1. PICK f \in Regs(s["L2"]) : f.line = e.line /\ m \in f.waiters /\ f.priority >= e.priority
      BY <2>7 DEF Linked, Below
    <3>2. f \in Register /\ (\A g \in Regs(s["L2"]) : g.priority \in Int)
          /\ (\A k \in FirstLevel : \A d \in Regs(s[k]) : d.priority \in Int)
      <4>1. \A k \in Mshrs : \A d \in Regs(s[k]) : d \in Register
        BY OrderedFacts
      <4> QED
        BY <1>0, <4>1, MshrsAre DEF Register
    <3>3. PICK f2 : f2 = Joined(f, p, {})
      OBVIOUS
    <3>4. JoinedBelow(s, t, m, e, b, f, f2) /\ LevelsOK(t)
      BY <1>0, <2>1, <2>4, <2>7, <3>1, <3>3, MissJoinsBelow
    <3>5. /\ f2 \in Register /\ f2.line = f.line /\ f2.state = f.state
          /\ f2.priority = IF f.priority >= p THEN f.priority ELSE p
          /\ f2.waiters = f.waiters
      <4>1. f2.waiters = f.waiters \cup {}
        BY <3>2, <3>3 DEF Joined, Register
      <4>2. Alike(f, f2) /\ f2.priority = IF f.priority >= p THEN f.priority ELSE p
        BY <3>2, <3>3, JoinedType
      <4> QED
        BY <4>1, <4>2 DEF Alike
    <3>6. f.priority \in Int /\ f2.priority \in Int /\ f2.priority >= f.priority /\ f2.priority >= b.priority
      BY <2>5, <2>6, <2>7, <3>2, <3>5
    <3>7. SecondOK({f2})
      <4>1. SecondOK({f})
        BY DEF Linked, SecondOK
      <4> QED
        BY <3>5, <3>6, <4>1 DEF SecondOK, ToCache
    <3>8. /\ Ordered(t) /\ (\A k \in Mshrs : k # m /\ k # "L2" => t[k] = s[k])
          /\ Regs(t[m]) = (Regs(s[m]) \ {e}) \cup {b}
          /\ Regs(t["L2"]) = (Regs(s["L2"]) \ {f}) \cup {f2}
          /\ t[m].cache = s[m].cache
      BY <3>4 DEF JoinedBelow
    <3>9. Linked(t)
      <4>1. Succeeds(Regs(s["L2"]), {f}, f2, m)
        BY <3>5, <3>6 DEF Succeeds
      <4>2. b.line = e.line /\ b.state = "wait" /\ f2.line = e.line /\ m \in f2.waiters
        BY <2>5, <2>7, <3>1, <3>5
      <4> QED
        BY <3>2, <3>6, <3>7, <3>8, <4>1, <4>2, BothLinked
    <3>10. Missing(s, t, m, line, p, waiters, {e}, b)
      BY <1>0, <2>1, <2>3, <2>4, <3>8, MshrsAre DEF Missing
    <3> QED
      BY <3>4, <3>8, <3>9, <3>10
  <2>8. CASE ~ (e.state = "wait" /\ e.priority < p)
    <3>1. Turned(s, t, m, e, b) /\ LevelsOK(t)
      BY <1>0, <2>1, <2>4, <2>8, MissJoins
    <3>2. Linked(t)
      <4>1. e.state = "wait" => b.priority = e.priority
        BY <2>5, <2>6, <2>8
      <4> QED
        BY <2>5, <3>1, <4>1, FirstLinkedTurn
    <3>3. Missing(s, t, m, line, p, waiters, {e}, b)
      BY <1>0, <2>1, <2>3, <2>4, <3>1, MshrsAre DEF Missing, Turned, TurnedAt, SameElsewhere
    <3> QED
      BY <3>1, <3>2, <3>3 DEF Turned, TurnedAt
  <2> QED
    BY <2>7, <2>8
<1>2. CASE line \notin Allocated(s, m)
  <2>1. PICK b : b = New(line, p, waiters)
    OBVIOUS
  <2>2. b \in Register /\ b.line = line /\ b.state = "queued"
    BY <2>1 DEF New, Register, Outstanding
  <2>3. LevelOK(m, s[m]) /\ Counted(m, s[m])
    BY <1>0 DEF LevelsOK, LevelOK
  <2>4. PICK X : Entering(s, t, m, X, b)
    BY <1>0, <1>2, <2>1, <2>3, MissEnters
  <2>5. \A f \in Regs(s[m]) : f.line # b.line
    BY <1>2, <2>2 DEF Allocated, Regs
  <2>6. LevelOK(m, t[m])
    BY <1>0, <2>2, <2>3, <2>4, <2>5, EnterKeepsLevel
  <2>7. /\ Ordered(t) /\ SameElsewhere(s, t, m) /\ X \subseteq Those(Regs(s[m]), Present)
        /\ Regs(t[m]) = (Regs(s[m]) \ X) \cup {b} /\ t[m].cache = s[m].cache
    BY <2>4 DEF Entering
  <2>8. Those(Regs(t[m]), {"wait"}) = Those(Regs(s[m]), {"wait"})
    BY <2>2, <2>7 DEF Those, Present
  <2>9. Linked(t)
    BY <2>7, <2>8, FirstLinked
  <2>10. Missing(s, t, m, line, p, waiters, X, b)
    BY <1>2, <2>1, <2>7, MshrsAre DEF Missing, SameElsewhere, Those
  <2> QED
    BY <1>0, <2>6, <2>7, <2>9, <2>10, LevelsElsewhere
<1> QED
  BY <1>1, <1>2

-----------------------------------------------------------------------------
(***************************************************************************)
(* The actions.  Structure: what a step must keep of the registers; the    *)
(* rest is read off the action.                                            *)
(***************************************************************************)
Structure(s, st, tg) == Ordered(s) /\ LevelsOK(s) /\ Listed(s, st, tg) /\ Linked(s)

\* A kept line has no waiters and does not wait.
LEMMA KeptIsIdle ==
  ASSUME NEW s, Structure(s, stage, target), NEW m \in FirstLevel, NEW e \in Regs(s[m]), e.state \in Present
  PROVE  e.waiters = {} /\ e.state \notin Outstanding /\ e.state # "wait" /\ e.state # "queued"
<1>1. e.state \notin Outstanding /\ e.state # "wait" /\ e.state # "queued"
  BY DEF Present, Outstanding
<1>2. OnLists(m, Regs(s[m]), stage, target)
  BY DEF Structure, Listed
<1>3. e.waiters # {} => e.state \in Outstanding
  BY <1>2 DEF OnLists
<1> QED
  BY <1>1, <1>3

LEMMA KeptEntry ==
  ASSUME NEW s, Ordered(s), NEW m \in Mshrs, NEW line, Kept(s, m, line)
  PROVE  \E e \in Regs(s[m]) : e.line = line /\ e.state \in Present /\ Entry(s, m, line) = e
BY AllocatedEntry DEF Kept

\* Who waits does not wait for a line of the cache.
LEMMA NoWaitForCached ==
  ASSUME NEW s, Structure(s, stage, target), NEW m \in FirstLevel, NEW w \in Users(m), stage[w] = "waiting"
  PROVE  target[w] \notin s[m].cache
<1>1. OnLists(m, Regs(s[m]), stage, target)
  BY DEF Structure, Listed
<1>2. PICK e \in Regs(s[m]) : e.line = target[w]
  BY <1>1 DEF OnLists
<1>3. LevelOK(m, s[m])
  BY MshrsAre DEF Structure, LevelsOK
<1> QED
  BY <1>2, <1>3 DEF LevelOK, InOnePlace

\* A line goes back from its register to a cache of the first level.
LEMMA RestoreKeeps ==
  ASSUME NEW s, Structure(s, stage, target), NEW m \in FirstLevel, NEW line, Kept(s, m, line),
         NEW victim \in Victims(s, m), NEW t, t = FillAndSwapOutVictim(s, m, line, victim)
  PROVE  Structure(t, stage, target) /\ SameElsewhere(s, t, m) /\ line \in t[m].cache
<1>0. m \in Mshrs /\ m # "L2" /\ Ordered(s) /\ LevelsOK(s) /\ LevelOK(m, s[m])
  BY MshrsAre DEF Structure, LevelsOK
<1>1. PICK e \in Regs(s[m]) : e.line = line /\ e.state \in Present
  BY <1>0, KeptEntry
<1>2. e.waiters = {} /\ e.state # "wait" /\ e.state # "queued"
  BY <1>1, KeptIsIdle
<1>3. victim \in s[m].cache \cup {Nothing}
  BY DEF Victims
<1>4. \A f \in Regs(s[m]) : f.line \notin s[m].cache
  BY <1>0 DEF LevelOK, InOnePlace
<1>5. Filling(s, t, m, e, victim)
  BY <1>0, <1>1, <1>3, <1>4, FillFills
<1>6. LevelOK(m, t[m])
  BY <1>0, <1>2, <1>5, FillKeepsLevel
<1>7. /\ Ordered(t) /\ SameElsewhere(s, t, m) /\ Regs(t[m]) = (Regs(s[m]) \ {e}) \cup KeptFor(victim)
      /\ t[m].cache = (s[m].cache \ {victim}) \cup {e.line}
  BY <1>5 DEF Filling
<1>8. LevelsOK(t)
  BY <1>0, <1>6, <1>7, LevelsElsewhere
<1>9. Those(Regs(t[m]), {"wait"}) = Those(Regs(s[m]), {"wait"})
  BY <1>2, <1>7 DEF Those, KeptFor, Victim
<1>10. Linked(t)
  BY <1>7, <1>9, FirstLinked DEF Structure
<1>11. OnLists(m, Regs(t[m]), stage, target)
  <2>1. OnLists(m, Regs(s[m]), stage, target)
    BY DEF Structure, Listed
  <2>2. \A f \in {e} : f \in Regs(s[m]) /\ f.waiters = {}
    BY <1>2
  <2>3. ASSUME NEW f \in KeptFor(victim), NEW w \in Users(m), stage[w] = "waiting" PROVE target[w] # f.line
    <3>1. f.line = victim /\ victim \in s[m].cache
      BY <1>3, <2>3 DEF KeptFor, Victim
    <3> QED
      BY <2>3, <3>1, NoWaitForCached
  <2>4. \A f \in KeptFor(victim) : f.waiters = {}
    BY DEF KeptFor, Victim
  <2>5. PICK X, N : X = {e} /\ N = KeptFor(victim)
    OBVIOUS
  <2>6. OnLists(m, (Regs(s[m]) \ X) \cup N, stage, target)
    BY <2>1, <2>2, <2>3, <2>4, <2>5, EmptyLists
  <2> QED
    BY <1>7, <2>5, <2>6
<1>12. Listed(t, stage, target)
  BY <1>7, <1>11, MshrsAre DEF Structure, Listed, SameElsewhere
<1> QED
  BY <1>1, <1>7, <1>8, <1>10, <1>12 DEF Structure

\* The lists of m after a miss of w, and the others.
LEMMA MissListed ==
  ASSUME NEW s, Structure(s, stage, target), ScalarsOK, NEW m \in FirstLevel, NEW w \in Users(m), stage[w] # "waiting",
         NEW line \in Lines, NEW p \in InstDemand .. Store,
         NEW t, NEW X, NEW b, Missing(s, t, m, line, p, {w}, X, b),
         NEW st2, st2 = [stage EXCEPT ![w] = "waiting"], NEW tg2, tg2 = [target EXCEPT ![w] = line]
  PROVE  Listed(t, st2, tg2)
<1>0. m \in Mshrs /\ Ordered(s) /\ w \in Waiters
  BY MshrsAre, UsersAre DEF Structure
<1>1. OnLists(m, Regs(s[m]), stage, target)
  BY DEF Structure, Listed
<1>2. PICK R : R = Regs(s[m])
  OBVIOUS
<1>3. \A e, f \in R : e.line = f.line => e = f
  BY <1>0, <1>2, OrderedFacts
<1>4. R \subseteq Register /\ p \in Int /\ p > ToCache
  BY <1>0, <1>2, OrderedFacts DEF InstDemand, Store, ToCache
<1>5. Enlists(m, R, stage, target, w, line, X, b)
  <2> USE DEF Enlists
  <2>1. CASE \E e \in R : /\ X = {e} /\ e.line = line /\ e.state \in Outstanding
                          /\ b = Joined(e, p, {w})
    <3>1. PICK e \in R : X = {e} /\ e.line = line /\ e.state \in Outstanding /\ b = Joined(e, p, {w})
      BY <2>1
    <3>2. e \in Register /\ p \in Prefetch .. Store /\ {w} \in SUBSET (Waiters \cup Mshrs)
      BY <1>0, <1>4 DEF InstDemand, Prefetch, Store
    <3>3. /\ b.line = e.line /\ b.state = e.state /\ b.waiters = e.waiters \cup {w}
          /\ b.priority = IF e.priority >= p THEN e.priority ELSE p
      BY <3>1, <3>2, JoinedType DEF Alike
    <3>4. e.waiters = {v \in Users(m) : stage[v] = "waiting" /\ target[v] = line}
      BY <1>1, <1>2, <3>1 DEF OnLists
    <3>5. b.priority > ToCache
      BY <1>4, <3>2, <3>3 DEF Register, Prefetch, Store, ToCache
    <3>6. \A f \in R \ X : f.line # line
      BY <1>3, <3>1
    <3> QED
      BY <3>1, <3>3, <3>4, <3>5, <3>6
  <2>2. CASE X \subseteq Those(R, Present) /\ line \notin Allocated(s, m) /\ b = New(line, p, {w})
    <3>1. \A f \in R : f.line # line
      BY <1>2, <2>2 DEF Allocated, Regs
    <3>2. {v \in Users(m) : stage[v] = "waiting" /\ target[v] = line} = {}
      BY <1>1, <1>2, <3>1 DEF OnLists
    <3>3. ASSUME NEW f \in X PROVE f \in R /\ f.waiters = {}
      BY <1>2, <2>2, KeptIsIdle DEF Those
    <3>4. b.line = line /\ b.waiters = {w} /\ b.state \in Outstanding /\ b.priority = p
      BY <2>2 DEF New, Outstanding
    <3> QED
      BY <1>4, <3>1, <3>2, <3>3, <3>4
  <2> QED
    BY <1>2, <2>1, <2>2 DEF Missing
<1>6. OnLists(m, Regs(t[m]), st2, tg2)
  <2>1. Regs(t[m]) = (R \ X) \cup {b}
    BY <1>2 DEF Missing
  <2>2. stage \in [Waiters -> Stages] /\ target \in [Waiters -> Lines \cup {Nothing}]
    BY DEF ScalarsOK
  <2>3. OnLists(m, R, stage, target)
    BY <1>1, <1>2
  <2>4. OnLists(m, (R \ X) \cup {b}, st2, tg2)
    BY <1>5, <2>2, <2>3, JoinLists
  <2> QED
    BY <2>1, <2>4
<1>7. ASSUME NEW k \in FirstLevel, k # m PROVE OnLists(k, Regs(t[k]), st2, tg2)
  <2>1. t[k] = s[k]
    BY <1>7 DEF Missing
  <2>2. w \notin Users(k)
    BY <1>7, MissesAssumption DEF Users, FirstLevel
  <2>3. SameWaiting(k, stage, st2, target, tg2)
    BY <1>0, <2>2, UsersAre DEF SameWaiting, ScalarsOK
  <2>4. OnLists(k, Regs(s[k]), stage, target)
    BY DEF Structure, Listed
  <2> QED
    BY <2>1, <2>3, <2>4, QuietLists
<1> QED
  BY <1>6, <1>7 DEF Listed

LEMMA AccessedKeeps ==
  ASSUME IInv, NEW m \in FirstLevel, NEW w \in Users(m), NEW line \in Lines, NEW p \in InstDemand .. Store,
         Accessed(m, w, line, p)
  PROVE  Structure(mshr', stage', target')
<1>0. /\ Structure(mshr, stage, target) /\ ScalarsOK /\ stage[w] # "waiting" /\ w \in Waiters
      /\ target' = [target EXCEPT ![w] = line] /\ m \in Mshrs
  BY UsersAre, MshrsAre DEF IInv, Structure, Accessed
<1>1. ASSUME Structure(mshr', stage, target), stage' = [stage EXCEPT ![w] = "served"]
      PROVE  Structure(mshr', stage', target')
  <2>1. ASSUME NEW k \in FirstLevel PROVE OnLists(k, Regs(mshr'[k]), stage', target')
    <3>1. SameWaiting(k, stage, stage', target, target')
      BY <1>0, <1>1, UsersAre DEF SameWaiting, ScalarsOK
    <3>2. OnLists(k, Regs(mshr'[k]), stage, target)
      BY <1>1 DEF Structure, Listed
    <3> QED
      BY <3>1, <3>2, QuietLists
  <2>2. Listed(mshr', stage', target')
    BY <2>1 DEF Listed
  <2> QED
    BY <1>1, <2>2 DEF Structure
<1>2. CASE line \in mshr[m].cache /\ stage' = [stage EXCEPT ![w] = "served"] /\ UNCHANGED mshr
  BY <1>0, <1>1, <1>2
<1>3. CASE /\ line \notin mshr[m].cache /\ Kept(mshr, m, line)
           /\ \E victim \in Victims(mshr, m) : mshr' = FillAndSwapOutVictim(mshr, m, line, victim)
           /\ stage' = [stage EXCEPT ![w] = "served"]
  <2>1. PICK victim \in Victims(mshr, m) : mshr' = FillAndSwapOutVictim(mshr, m, line, victim)
    BY <1>3
  <2>2. PICK t : t = mshr'
    OBVIOUS
  <2>3. Structure(t, stage, target)
    BY <1>0, <1>3, <2>1, <2>2, RestoreKeeps
  <2> QED
    BY <1>1, <1>3, <2>2, <2>3
<1>4. CASE /\ line \notin mshr[m].cache /\ ~ Kept(mshr, m, line) /\ CanMiss(mshr, m, line)
           /\ mshr' = Missed(mshr, m, line, p, {w})
           /\ stage' = [stage EXCEPT ![w] = "waiting"]
  <2>1. PICK t, st2, tg2 : t = mshr' /\ st2 = stage' /\ tg2 = target'
    OBVIOUS
  <2>2. Ordered(mshr) /\ LevelsOK(mshr) /\ Linked(mshr)
    BY <1>0 DEF Structure
  <2>3. p \in Prefetch .. Store /\ {w} \in SUBSET (Waiters \cup Mshrs)
    BY <1>0 DEF InstDemand, Prefetch, Store
  <2>4. t = Missed(mshr, m, line, p, {w})
    BY <1>4, <2>1
  <2>5. /\ Ordered(t) /\ LevelsOK(t) /\ Linked(t)
        /\ \E X, b : Missing(mshr, t, m, line, p, {w}, X, b)
    BY <1>4, <2>2, <2>3, <2>4, MissShape
  <2>6. Listed(t, st2, tg2)
    BY <1>0, <1>4, <2>1, <2>5, MissListed
  <2>7. Structure(t, st2, tg2)
    BY <2>5, <2>6 DEF Structure
  <2> QED
    BY <2>1, <2>7
<1> QED
  BY <1>2, <1>3, <1>4 DEF Accessed

\* The lists when nobody's waiting changes and one level of the first does.
LEMMA OneListed ==
  ASSUME NEW s, NEW st, NEW tg, Listed(s, st, tg), NEW m \in FirstLevel, NEW t, \A k \in FirstLevel : k # m => t[k] = s[k],
         OnLists(m, Regs(t[m]), st, tg)
  PROVE  Listed(t, st, tg)
BY DEF Listed

LEMMA PrefetchKeeps ==
  ASSUME IInv, NEW line \in DataLines, PrefetchForStore(line)
  PROVE  Structure(mshr', stage, target)
<1>0. PICK m, t : m = "DL1" /\ t = mshr'
  OBVIOUS
<1>1. /\ m \in FirstLevel /\ m \in Mshrs /\ line \in Lines
      /\ Structure(mshr, stage, target) /\ Ordered(mshr) /\ LevelsOK(mshr) /\ Linked(mshr) /\ Listed(mshr, stage, target)
  BY <1>0, MshrsAre DEF FirstLevel, Lines, IInv, Structure
<1>2. OnLists(m, Regs(mshr[m]), stage, target)
  BY <1>1 DEF Listed
<1>3. line \notin mshr[m].cache
  BY <1>0 DEF PrefetchForStore
<1>4. CASE Kept(mshr, m, line) /\ t = SetMRU(mshr, m, Entry(mshr, m, line))
  <2>1. PICK e \in Regs(mshr[m]) : e.line = line /\ Entry(mshr, m, line) = e
    BY <1>1, <1>4, KeptEntry
  <2>2. e \in Register /\ Alike(e, e)
    BY <1>1, OrderedFacts DEF Alike
  <2>3. Turned(mshr, t, m, e, e) /\ SameCounts(mshr, t, m)
    BY <1>1, <1>4, <2>1, <2>2, SetMRUTurns
  <2>4. Ordered(t) /\ LevelsOK(t)
    BY <1>1, <2>2, <2>3, AlikeKeeps
  <2>5. Linked(t)
    BY <1>1, <2>3, FirstLinkedTurn
  <2>6. Regs(t[m]) = Regs(mshr[m]) /\ \A k \in FirstLevel : k # m => t[k] = mshr[k]
    BY <2>3, MshrsAre DEF Turned, TurnedAt, SameElsewhere
  <2>7. Listed(t, stage, target)
    BY <1>1, <1>2, <2>6, OneListed
  <2> QED
    BY <1>0, <2>4, <2>5, <2>7 DEF Structure
<1>5. CASE ~ Kept(mshr, m, line) /\ CanMiss(mshr, m, line) /\ t = Missed(mshr, m, line, Prefetch, {})
  <2>1. Prefetch \in Prefetch .. Store /\ {} \in SUBSET (Waiters \cup Mshrs)
    BY DEF Prefetch, Store
  <2>2. /\ Ordered(t) /\ LevelsOK(t) /\ Linked(t)
        /\ \E X, b : Missing(mshr, t, m, line, Prefetch, {}, X, b)
    BY <1>1, <1>3, <1>5, <2>1, MissShape
  <2>3. PICK X, b : Missing(mshr, t, m, line, Prefetch, {}, X, b)
    BY <2>2
  <2>4. Regs(t[m]) = (Regs(mshr[m]) \ X) \cup {b} /\ \A k \in FirstLevel : k # m => t[k] = mshr[k]
    BY <2>3 DEF Missing
  <2>5. OnLists(m, (Regs(mshr[m]) \ X) \cup {b}, stage, target)
    <3>1. CASE \E e \in Regs(mshr[m]) : /\ X = {e} /\ e.line = line /\ e.state \in Outstanding
                                        /\ b = Joined(e, Prefetch, {})
      <4>1. PICK e \in Regs(mshr[m]) : X = {e} /\ b = Joined(e, Prefetch, {})
        BY <3>1
      <4>2. e \in Register
        BY <1>1, OrderedFacts
      <4>3. e.priority >= Prefetch /\ e.waiters \cup {} = e.waiters
        BY <4>2 DEF Register, Prefetch, Store
      <4>4. b.line = e.line /\ b.waiters = e.waiters /\ b.state = e.state /\ b.priority = e.priority
        BY <4>1, <4>2, <4>3 DEF Joined, Register
      <4>5. b.waiters # {} => b.state \in Outstanding /\ b.priority > ToCache
        BY <1>2, <4>4 DEF OnLists
      <4>6. OnLists(m, (Regs(mshr[m]) \ {e}) \cup {b}, stage, target)
        BY <1>2, <4>4, <4>5, TurnLists
      <4> QED
        BY <4>1, <4>6
    <3>2. CASE /\ X \subseteq Those(Regs(mshr[m]), Present) /\ line \notin Allocated(mshr, m)
               /\ b = New(line, Prefetch, {})
      <4>1. \A f \in X : f \in Regs(mshr[m]) /\ f.waiters = {}
        BY <1>1, <3>2, KeptIsIdle DEF Those
      <4>2. b.waiters = {} /\ b.line = line
        BY <3>2 DEF New
      <4>3. \A w \in Users(m) : stage[w] = "waiting" => target[w] # line
        BY <1>2, <3>2 DEF OnLists, Allocated, Regs
      <4>4. PICK N : N = {b}
        OBVIOUS
      <4>5. \A f \in N : f.waiters = {} /\ \A w \in Users(m) : stage[w] = "waiting" => target[w] # f.line
        BY <4>2, <4>3, <4>4
      <4>6. OnLists(m, (Regs(mshr[m]) \ X) \cup N, stage, target)
        BY <1>2, <4>1, <4>5, EmptyLists
      <4> QED
        BY <4>4, <4>6
    <3> QED
      BY <2>3, <3>1, <3>2 DEF Missing
  <2>6. Listed(t, stage, target)
    BY <1>1, <2>4, <2>5, OneListed
  <2> QED
    BY <1>0, <2>2, <2>6 DEF Structure
<1> QED
  BY <1>0, <1>4, <1>5 DEF PrefetchForStore

LEMMA SquashKeeps ==
  ASSUME IInv, NEW w \in Waiters, Squash(w)
  PROVE  Structure(mshr', stage', target)
<1>0. PICK m, t, st2 : m = (IF w = Sequencer THEN "IL1" ELSE "DL1") /\ t = mshr' /\ st2 = stage'
  OBVIOUS
<1>1. /\ m \in FirstLevel /\ m \in Mshrs /\ w \in Users(m)
      /\ Ordered(mshr) /\ LevelsOK(mshr) /\ Linked(mshr) /\ Listed(mshr, stage, target)
      /\ stage \in [Waiters -> Stages]
  BY <1>0, MshrsAre DEF FirstLevel, Users, Waiters, IInv, ScalarsOK
<1>2. stage[w] = "waiting" /\ st2 = [stage EXCEPT ![w] = "idle"]
  BY <1>0 DEF Squash
<1>3. OnLists(m, Regs(mshr[m]), stage, target)
  BY <1>1 DEF Listed
<1>4. PICK e \in Regs(mshr[m]) : e.line = target[w]
  BY <1>1, <1>2, <1>3 DEF OnLists
<1>5. e \in Register /\ Entry(mshr, m, target[w]) = e /\ \A f \in Regs(mshr[m]) : f.line = e.line => f = e
  BY <1>1, <1>4, OrderedFacts, EntryFound
<1>6. PICK b : b = [e EXCEPT !.waiters = e.waiters \ {w}]
  OBVIOUS
<1>7. /\ b \in Register /\ Alike(e, b) /\ b.line = e.line /\ b.state = e.state /\ b.priority = e.priority
      /\ b.waiters = e.waiters \ {w}
  BY <1>5, <1>6 DEF Alike, Register
<1>8. t = InPlace(mshr, m, b)
  <2>1. t = Left(w, m)
    BY <1>0 DEF Squash
  <2> QED
    BY <1>5, <1>6, <2>1 DEF Left
<1>9. Turned(mshr, t, m, e, b) /\ SameCounts(mshr, t, m)
  BY <1>1, <1>7, <1>8, InPlaceTurns
<1>10. Ordered(t) /\ LevelsOK(t)
  BY <1>1, <1>7, <1>9, AlikeKeeps
<1>11. Linked(t)
  BY <1>1, <1>7, <1>9, FirstLinkedTurn
<1>12. Regs(t[m]) = (Regs(mshr[m]) \ {e}) \cup {b} /\ \A k \in FirstLevel : k # m => t[k] = mshr[k]
  BY <1>9, MshrsAre DEF Turned, TurnedAt, SameElsewhere
<1>13. OnLists(m, Regs(t[m]), st2, target)
  <2>1. \A v \in Users(m) : st2[v] = "waiting" <=> stage[v] = "waiting" /\ v \notin {w}
    BY <1>1, <1>2, UsersAre
  <2>2. {w} \subseteq e.waiters
    BY <1>1, <1>2, <1>3, <1>4 DEF OnLists
  <2>3. PICK gone, N : gone = {w} /\ N = {b}
    OBVIOUS
  <2>4. \E c : /\ N = {c} /\ c.line = e.line /\ c.waiters = e.waiters \ gone
               /\ c.state = e.state /\ c.priority = e.priority
    BY <1>7, <2>3
  <2>5. Leaves(m, stage, st2, e, gone, N)
    BY <2>1, <2>2, <2>3, <2>4 DEF Leaves
  <2>6. OnLists(m, (Regs(mshr[m]) \ {e}) \cup N, st2, target)
    BY <1>3, <1>5, <2>5, LeaveLists
  <2> QED
    BY <1>12, <2>3, <2>6
<1>14. ASSUME NEW k \in FirstLevel, k # m PROVE OnLists(k, Regs(t[k]), st2, target)
  <2>1. w \notin Users(k)
    BY <1>1, <1>14, MissesAssumption DEF Users, FirstLevel
  <2>2. SameWaiting(k, stage, st2, target, target)
    BY <1>1, <1>2, <2>1, UsersAre DEF SameWaiting
  <2>3. OnLists(k, Regs(mshr[k]), stage, target)
    BY <1>1 DEF Listed
  <2> QED
    BY <1>12, <1>14, <2>2, <2>3, QuietLists
<1>15. Listed(t, st2, target)
  BY <1>13, <1>14 DEF Listed
<1> QED
  BY <1>0, <1>10, <1>11, <1>15 DEF Structure

-----------------------------------------------------------------------------
(***************************************************************************)
(* The end of a transfer.                                                  *)
(***************************************************************************)
\* The waiters of the list unhooked wait no more, one of them is woken; the others'
\* stages stay.
Unhooked(st2, waiters) ==
    /\ st2 \in [Waiters -> Stages]
    /\ \A w \in Waiters : IF w \in waiters THEN st2[w] \in {"woken", "served"} ELSE st2[w] = stage[w]

LEMMA FirstFillKeeps ==
  ASSUME Structure(mshr, stage, target), NEW m \in FirstLevel, NEW e \in Regs(mshr[m]), e.state = "transfer",
         NEW victim \in Victims(mshr, m), NEW t, t = FillAndSwapOutVictim(mshr, m, e.line, victim),
         NEW st2, Unhooked(st2, e.waiters)
  PROVE  Structure(t, st2, target) /\ e.line \in t[m].cache
<1>0. /\ m \in Mshrs /\ Ordered(mshr) /\ LevelsOK(mshr) /\ LevelOK(m, mshr[m]) /\ Linked(mshr)
      /\ Listed(mshr, stage, target) /\ OnLists(m, Regs(mshr[m]), stage, target)
  BY MshrsAre DEF Structure, LevelsOK, Listed
<1>1. victim \in mshr[m].cache \cup {Nothing}
  BY DEF Victims
<1>2. \A f \in Regs(mshr[m]) : f.line \notin mshr[m].cache
  BY <1>0 DEF LevelOK, InOnePlace
<1>3. Filling(mshr, t, m, e, victim)
  BY <1>0, <1>1, <1>2, FillFills
<1>4. LevelOK(m, t[m])
  BY <1>0, <1>3, FillKeepsLevel
<1>5. /\ Ordered(t) /\ SameElsewhere(mshr, t, m) /\ Regs(t[m]) = (Regs(mshr[m]) \ {e}) \cup KeptFor(victim)
      /\ e.line \in t[m].cache
  BY <1>3 DEF Filling
<1>6. LevelsOK(t)
  BY <1>0, <1>4, <1>5, LevelsElsewhere
<1>7. Linked(t)
  <2>1. Those(Regs(t[m]), {"wait"}) = Those(Regs(mshr[m]), {"wait"})
    BY <1>5 DEF Those, KeptFor, Victim
  <2> QED
    BY <1>0, <1>5, <2>1, FirstLinked
<1>8. e.waiters \subseteq Users(m) /\ Users(m) \subseteq Waiters
  BY <1>0, UsersAre DEF OnLists
<1>9. OnLists(m, Regs(t[m]), st2, target)
  <2>1. PICK R, X, N, none : R = Regs(mshr[m]) \ {e} /\ X = {} /\ N = KeptFor(victim) /\ none = {}
    OBVIOUS
  <2>2. Leaves(m, stage, st2, e, e.waiters, none)
    BY <1>8, <2>1 DEF Leaves, Unhooked
  <2>3. \A f \in Regs(mshr[m]) : f.line = e.line => f = e
    BY <1>0, OrderedFacts
  <2>4. OnLists(m, R \cup none, st2, target)
    BY <1>0, <2>1, <2>2, <2>3, LeaveLists
  <2>5. OnLists(m, R, st2, target)
    BY <2>1, <2>4
  <2>6. ASSUME NEW f \in N PROVE f.waiters = {} /\ \A w \in Users(m) : st2[w] = "waiting" => target[w] # f.line
    <3>1. f.waiters = {} /\ f.line = victim /\ victim \in mshr[m].cache
      BY <1>1, <2>1, <2>6 DEF KeptFor, Victim
    <3>2. ASSUME NEW w \in Users(m), st2[w] = "waiting" PROVE target[w] # victim
      <4>1. stage[w] = "waiting"
        BY <1>8, <3>2 DEF Unhooked
      <4> QED
        BY <3>1, <4>1, NoWaitForCached
    <3> QED
      BY <3>1, <3>2
  <2>7. OnLists(m, (R \ X) \cup N, st2, target)
    BY <2>1, <2>5, <2>6, EmptyLists
  <2> QED
    BY <1>5, <2>1, <2>7
<1>10. ASSUME NEW k \in FirstLevel, k # m PROVE OnLists(k, Regs(t[k]), st2, target)
  <2>1. \A w \in Users(k) : w \notin e.waiters
    BY <1>8, <1>10, MissesAssumption DEF Users, FirstLevel
  <2>2. SameWaiting(k, stage, st2, target, target)
    BY <2>1, UsersAre DEF SameWaiting, Unhooked
  <2>3. OnLists(k, Regs(mshr[k]), stage, target)
    BY <1>0 DEF Listed
  <2>4. t[k] = mshr[k]
    BY <1>5, <1>10, MshrsAre DEF SameElsewhere
  <2> QED
    BY <2>2, <2>3, <2>4, QuietLists
<1>11. Listed(t, st2, target)
  BY <1>9, <1>10 DEF Listed
<1> QED
  BY <1>5, <1>6, <1>7, <1>11 DEF Structure

\* The register b of a prefetch that has arrived takes the place of e.
Prefetched(s, t, m, e, b) ==
    /\ Turned(s, t, m, e, b)
    /\ t[m].active = s[m].active - 1 /\ t[m].queued = s[m].queued /\ t[m].busFree = s[m].busFree

LEMMA PrefetchedTurns ==
  ASSUME NEW s, Ordered(s), NEW m \in Mshrs, NEW e \in Regs(s[m]), NEW b, b = [e EXCEPT !.state = "prefetch"],
         NEW t, t = [SetMRU(s, m, b) EXCEPT ![m].active = @ - 1]
  PROVE  Prefetched(s, t, m, e, b)
<1>1. e \in Register /\ s[m] \in Level
  BY OrderedFacts
<1>2. b \in Register /\ b.line = e.line
  BY <1>1 DEF Register, Present
<1>3. PICK u, a : u = SetMRU(s, m, b) /\ a = s[m].active - 1
  OBVIOUS
<1>4. Turned(s, u, m, e, b) /\ SameCounts(s, u, m)
  BY <1>2, <1>3, SetMRUTurns
<1>5. a \in Int /\ Ordered(u)
  BY <1>1, <1>3, <1>4 DEF Level, Turned, TurnedAt
<1>6. t = [u EXCEPT ![m].active = a]
  BY <1>3, <1>4 DEF SameCounts
<1>7. ActiveIs(u, t, m, a)
  BY <1>5, <1>6, WithActive
<1>8. Turned(s, t, m, e, b)
  BY <1>4, <1>7, TurnedThenRecounted DEF ActiveIs
<1> QED
  BY <1>3, <1>4, <1>7, <1>8 DEF ActiveIs, SameCounts, Prefetched

\* A prefetch that has arrived is kept; nobody waits for it.
LEMMA PrefetchedKeeps ==
  ASSUME Structure(mshr, stage, target), NEW m \in Mshrs, NEW e \in Regs(mshr[m]), e.state = "transfer",
         e.priority = Prefetch,
         NEW t, NEW b, b = [e EXCEPT !.state = "prefetch"], Turned(mshr, t, m, e, b),
         t[m].active = mshr[m].active - 1, t[m].queued = mshr[m].queued, t[m].busFree = mshr[m].busFree
  PROVE  Structure(t, stage, target)
<1>0. /\ Ordered(mshr) /\ LevelsOK(mshr) /\ LevelOK(m, mshr[m]) /\ Linked(mshr) /\ Listed(mshr, stage, target)
      /\ mshr[m] \in Level
  BY OrderedFacts DEF Structure, LevelsOK
<1>1. m \in FirstLevel
  <2>1. m # "L2"
    BY <1>0 DEF Linked, SecondOK, Outstanding, Prefetch, ToCache
  <2> QED
    BY <2>1, MshrsAre
<1>2. OnLists(m, Regs(mshr[m]), stage, target)
  BY <1>0, <1>1 DEF Listed
<1>3. e \in Register /\ e.waiters = {}
  BY <1>0, <1>2, OrderedFacts DEF OnLists, Prefetch, ToCache
<1>5. b \in Register /\ b.line = e.line /\ b.state = "prefetch" /\ b.waiters = {} /\ b.due = e.due
  BY <1>3 DEF Register, Present
<1>13. LevelOK(m, t[m])
  <2>1. TurnedAt(mshr, t, m, e, b) /\ Counted(m, mshr[m]) /\ InOnePlace(m, mshr[m]) /\ OneBus(m, mshr[m])
    BY <1>0 DEF Turned, LevelOK
  <2>2. One(b, Outstanding) = 0 /\ One(e, Outstanding) = 1 /\ One(b, {"queued"}) = 0 /\ One(e, {"queued"}) = 0
    BY <1>5 DEF One, Outstanding
  <2>3. mshr[m].active \in Int /\ mshr[m].queued \in Int /\ mshr[m].busFree \in Nat
    BY <1>0 DEF Level
  <2>4. /\ t[m].active = mshr[m].active + One(b, Outstanding) - One(e, Outstanding)
        /\ t[m].queued = mshr[m].queued + One(b, {"queued"}) - One(e, {"queued"})
    BY <2>2, <2>3
  <2>5. Counted(m, t[m])
    BY <1>0, <1>5, <2>1, <2>4, TurnKeepsCounts
  <2>6. InOnePlace(m, t[m])
    BY <1>5, <2>1, TurnKeepsPlaces
  <2>7. t[m].busFree >= mshr[m].busFree /\ b.state # "transfer"
    BY <1>5, <2>3
  <2>8. OneBus(m, t[m])
    BY <1>0, <1>5, <2>1, <2>7, TurnKeepsBus
  <2> QED
    BY <2>5, <2>6, <2>8 DEF LevelOK
<1>14. Ordered(t) /\ SameElsewhere(mshr, t, m) /\ Regs(t[m]) = (Regs(mshr[m]) \ {e}) \cup {b}
  BY DEF Turned, TurnedAt
<1>15. LevelsOK(t)
  BY <1>0, <1>13, <1>14, LevelsElsewhere
<1>16. Linked(t)
  BY <1>0, <1>1, <1>5, FirstLinkedTurn
<1>17. OnLists(m, Regs(t[m]), stage, target)
  <2>1. b.waiters = e.waiters
    BY <1>3, <1>5
  <2>2. b.waiters # {} => b.state \in Outstanding /\ b.priority > ToCache
    BY <1>5
  <2>3. OnLists(m, (Regs(mshr[m]) \ {e}) \cup {b}, stage, target)
    BY <1>2, <1>5, <2>1, <2>2, TurnLists
  <2> QED
    BY <1>14, <2>3
<1>18. \A k \in FirstLevel : k # m => t[k] = mshr[k]
  BY <1>14, MshrsAre DEF SameElsewhere
<1>19. Listed(t, stage, target)
  BY <1>0, <1>1, <1>17, <1>18, OneListed
<1> QED
  BY <1>14, <1>15, <1>16, <1>19 DEF Structure

\* A transfer that starts keeps its level in order.
LEMMA TransferKeepsLevel ==
  ASSUME NEW s, Ordered(s), NEW m \in Mshrs, LevelOK(m, s[m]), NEW e \in Regs(s[m]), e.state \in {"wait", "queued"},
         NEW b, b = Moving(e, BusEnd(m, s[m])), NEW t, TurnedAt(s, t, m, e, b),
         t[m].active = s[m].active, t[m].queued = s[m].queued - One(e, {"queued"}), t[m].busFree = BusEnd(m, s[m])
  PROVE  LevelOK(m, t[m])
<1>1. e \in Register /\ s[m] \in Level /\ Counted(m, s[m]) /\ InOnePlace(m, s[m]) /\ OneBus(m, s[m])
  BY OrderedFacts DEF LevelOK
<1>2. BusEnd(m, s[m]) \in Nat \ {0} /\ BusEnd(m, s[m]) >= s[m].busFree + BusCycles[m]
  BY <1>1, BusEndLater
<1>3. b \in Register /\ b.line = e.line /\ b.state = "transfer" /\ b.due = BusEnd(m, s[m])
  BY <1>1, <1>2, MovingType
<1>4. s[m].active \in Int /\ s[m].queued \in Int /\ s[m].busFree \in Nat /\ BusCycles[m] \in Nat
  BY <1>1, ConstantTypes DEF Level
<1>5. One(b, Outstanding) = 1 /\ One(e, Outstanding) = 1 /\ One(b, {"queued"}) = 0 /\ One(e, {"queued"}) \in Int
  BY <1>3 DEF One, Outstanding
<1>6. /\ t[m].active = s[m].active + One(b, Outstanding) - One(e, Outstanding)
      /\ t[m].queued = s[m].queued + One(b, {"queued"}) - One(e, {"queued"})
  BY <1>4, <1>5
<1>7. Counted(m, t[m])
  BY <1>1, <1>3, <1>6, TurnKeepsCounts
<1>8. InOnePlace(m, t[m])
  BY <1>1, <1>3, TurnKeepsPlaces
<1>9. t[m].busFree >= s[m].busFree /\ b.due = t[m].busFree /\ t[m].busFree >= s[m].busFree + BusCycles[m]
  BY <1>2, <1>3, <1>4
<1>10. OneBus(m, t[m])
  BY <1>1, <1>3, <1>9, TurnKeepsBus
<1> QED
  BY <1>7, <1>8, <1>10 DEF LevelOK

LEMMA TransferListed ==
  ASSUME NEW s, Ordered(s), Listed(s, stage, target), NEW m \in FirstLevel,
         NEW e \in Regs(s[m]), e.state \in {"wait", "queued"}, NEW time \in Nat,
         NEW t, Turned(s, t, m, e, Moving(e, time))
  PROVE  Listed(t, stage, target)
<1>1. PICK b : b = Moving(e, time)
  OBVIOUS
<1>2. e \in Register /\ OnLists(m, Regs(s[m]), stage, target)
  BY OrderedFacts, MshrsAre DEF Listed
<1>3. b.line = e.line /\ b.waiters = e.waiters /\ b.state = "transfer" /\ b.priority = e.priority
  BY <1>1, <1>2, MovingType
<1>4. b.waiters # {} => b.state \in Outstanding /\ b.priority > ToCache
  BY <1>2, <1>3 DEF OnLists, Outstanding
<1>5. OnLists(m, (Regs(s[m]) \ {e}) \cup {b}, stage, target)
  BY <1>2, <1>3, <1>4, TurnLists
<1>6. Regs(t[m]) = (Regs(s[m]) \ {e}) \cup {b} /\ \A k \in FirstLevel : k # m => t[k] = s[k]
  BY <1>1, MshrsAre DEF Turned, TurnedAt, SameElsewhere
<1> QED
  BY <1>5, <1>6, OneListed

LEMMA AccessDoneOne ==
  ASSUME NEW s, Ordered(s), LevelsOK(s), Listed(s, stage, target), NEW m \in FirstLevel,
         NEW d \in Regs(s[m]), d.state = "wait", NEW t, t = ScheduleBusTransfer(s, m, d.line)
  PROVE  /\ Ordered(t) /\ LevelsOK(t) /\ Listed(t, stage, target)
         /\ Turned(s, t, m, d, Moving(d, BusEnd(m, s[m])))
<1>0. m \in Mshrs
  BY MshrsAre
<1>1. PICK b : b = Moving(d, BusEnd(m, s[m]))
  OBVIOUS
<1>2. /\ Turned(s, t, m, d, b)
      /\ t[m].active = s[m].active /\ t[m].queued = s[m].queued /\ t[m].busFree = BusEnd(m, s[m])
  BY <1>0, <1>1, TransferTurns
<1>3. Ordered(t) /\ SameElsewhere(s, t, m) /\ TurnedAt(s, t, m, d, b)
  BY <1>2 DEF Turned, TurnedAt
<1>4. s[m] \in Level /\ LevelOK(m, s[m])
  BY <1>0, OrderedFacts DEF LevelsOK
<1>5. t[m].queued = s[m].queued - One(d, {"queued"})
  BY <1>2, <1>4 DEF One, Level
<1>6. LevelOK(m, t[m])
  BY <1>0, <1>1, <1>2, <1>3, <1>4, <1>5, TransferKeepsLevel
<1>7. LevelsOK(t)
  BY <1>0, <1>3, <1>6, LevelsElsewhere
<1>8. BusEnd(m, s[m]) \in Nat
  BY <1>0, <1>4, BusEndLater
<1>9. Listed(t, stage, target)
  BY <1>1, <1>2, <1>8, TransferListed
<1> QED
  BY <1>1, <1>2, <1>3, <1>7, <1>9

\* The register of the line goes on to its bus in the levels that have waited.
GoesOn(s, t, m, line, waiters) ==
    IF m \in waiters
    THEN \E d \in Regs(s[m]) : /\ d.line = line /\ d.state = "wait"
                               /\ \E b : b.state = "transfer" /\ Regs(t[m]) = (Regs(s[m]) \ {d}) \cup {b}
    ELSE Regs(t[m]) = Regs(s[m])

AccessDoneStep(s, m, line, waiters) == IF m \in waiters THEN ScheduleBusTransfer(s, m, line) ELSE s

LEMMA AccessDoneAt ==
  ASSUME NEW s, Ordered(s), LevelsOK(s), Listed(s, stage, target), NEW m \in FirstLevel, NEW line, NEW waiters,
         m \in waiters => \E d \in Regs(s[m]) : d.line = line /\ d.state = "wait",
         NEW t, t = AccessDoneStep(s, m, line, waiters)
  PROVE  /\ Ordered(t) /\ LevelsOK(t) /\ Listed(t, stage, target)
         /\ GoesOn(s, t, m, line, waiters) /\ SameElsewhere(s, t, m)
<1>1. CASE m \in waiters
  <2>1. PICK d \in Regs(s[m]) : d.line = line /\ d.state = "wait"
    BY <1>1
  <2>2. t = ScheduleBusTransfer(s, m, d.line)
    BY <1>1, <2>1 DEF AccessDoneStep
  <2>3. PICK b : b = Moving(d, BusEnd(m, s[m]))
    OBVIOUS
  <2>4. /\ Ordered(t) /\ LevelsOK(t) /\ Listed(t, stage, target)
        /\ Turned(s, t, m, d, b)
    BY <2>1, <2>2, <2>3, AccessDoneOne
  <2>5. b.state = "transfer"
    BY <2>3, OrderedFacts, MshrsAre DEF Moving, Register
  <2>6. GoesOn(s, t, m, line, waiters)
    BY <1>1, <2>1, <2>4, <2>5 DEF GoesOn, Turned, TurnedAt
  <2> QED
    BY <2>4, <2>6 DEF Turned
<1>2. CASE m \notin waiters
  BY <1>2 DEF AccessDoneStep, GoesOn, SameElsewhere
<1> QED
  BY <1>1, <1>2

LEMMA SecondFillKeeps ==
  ASSUME Structure(mshr, stage, target), NEW e \in Regs(mshr["L2"]), e.state = "transfer",
         NEW victim \in Victims(mshr, "L2"), NEW s, s = FillAndSwapOutVictim(mshr, "L2", e.line, victim),
         NEW t, t = CacheAccessDone(s, e.line, e.waiters)
  PROVE  Structure(t, stage, target)
<1> DEFINE B == Regs(mshr["L2"])
<1>0. /\ "L2" \in Mshrs /\ "IL1" \in FirstLevel /\ "DL1" \in FirstLevel /\ FirstLevel = {"IL1", "DL1"}
      /\ Ordered(mshr) /\ LevelsOK(mshr) /\ LevelOK("L2", mshr["L2"]) /\ Linked(mshr)
      /\ Listed(mshr, stage, target)
  BY MshrsAre DEF Structure, LevelsOK, FirstLevel
<1>1. victim \in mshr["L2"].cache \cup {Nothing}
  BY DEF Victims
<1>2. \A f \in B : f.line \notin mshr["L2"].cache
  BY <1>0 DEF LevelOK, InOnePlace
<1>3. Filling(mshr, s, "L2", e, victim)
  BY <1>0, <1>1, <1>2, FillFills
<1>4. LevelOK("L2", s["L2"])
  BY <1>0, <1>3, FillKeepsLevel
<1>5. Ordered(s) /\ SameElsewhere(mshr, s, "L2") /\ Regs(s["L2"]) = (B \ {e}) \cup KeptFor(victim)
  BY <1>3 DEF Filling
<1>6. LevelsOK(s)
  BY <1>0, <1>4, <1>5, LevelsElsewhere
<1>7. \A k \in FirstLevel : s[k] = mshr[k]
  BY <1>5, MshrsAre DEF SameElsewhere
<1>8. Listed(s, stage, target)
  BY <1>0, <1>7 DEF Listed
<1>9. ASSUME NEW k \in FirstLevel, k \in e.waiters PROVE \E d \in Regs(mshr[k]) : d.line = e.line /\ d.state = "wait"
  BY <1>0, <1>9 DEF Linked, Above
<1>10. PICK u : u = AccessDoneStep(s, "IL1", e.line, e.waiters)
  OBVIOUS
<1>11. t = AccessDoneStep(u, "DL1", e.line, e.waiters)
  BY <1>10 DEF CacheAccessDone, AccessDoneStep
<1>12. /\ Ordered(u) /\ LevelsOK(u) /\ Listed(u, stage, target)
       /\ GoesOn(s, u, "IL1", e.line, e.waiters) /\ SameElsewhere(s, u, "IL1")
  <2>1. "IL1" \in e.waiters => \E d \in Regs(s["IL1"]) : d.line = e.line /\ d.state = "wait"
    BY <1>0, <1>7, <1>9
  <2> QED
    BY <1>0, <1>5, <1>6, <1>8, <1>10, <2>1, AccessDoneAt
<1>13. u["DL1"] = mshr["DL1"] /\ u["L2"] = s["L2"]
  BY <1>0, <1>7, <1>12 DEF SameElsewhere, Mshrs
<1>14. /\ Ordered(t) /\ LevelsOK(t) /\ Listed(t, stage, target)
       /\ GoesOn(u, t, "DL1", e.line, e.waiters) /\ SameElsewhere(u, t, "DL1")
  <2>1. "DL1" \in e.waiters => \E d \in Regs(u["DL1"]) : d.line = e.line /\ d.state = "wait"
    BY <1>0, <1>9, <1>13
  <2> QED
    BY <1>0, <1>11, <1>12, <2>1, AccessDoneAt
<1>15. t["IL1"] = u["IL1"] /\ t["L2"] = s["L2"]
  BY <1>0, <1>13, <1>14 DEF SameElsewhere, Mshrs
<1>16. ASSUME NEW k \in FirstLevel PROVE GoesOn(mshr, t, k, e.line, e.waiters)
  <2>1. CASE k = "IL1"
    BY <1>0, <1>7, <1>12, <1>15, <2>1 DEF GoesOn
  <2>2. CASE k = "DL1"
    BY <1>0, <1>13, <1>14, <2>2 DEF GoesOn
  <2> QED
    BY <1>0, <2>1, <2>2
<1>17. \A f, g \in B : f.line = g.line => f = g
  BY <1>0, OrderedFacts
<1>18. Regs(t["L2"]) = (B \ {e}) \cup KeptFor(victim)
  BY <1>5, <1>15
<1>19. SecondOK(Regs(t["L2"]))
  <2>1. \A f \in KeptFor(victim) : f.waiters = {} /\ f.state = "victim"
    BY DEF KeptFor, Victim
  <2> QED
    BY <1>0, <1>18, <2>1 DEF Linked, SecondOK, Outstanding
<1>20. ASSUME NEW k \in FirstLevel PROVE Below(Regs(t[k]), Regs(t["L2"]), k)
  <2> SUFFICES ASSUME NEW d \in Regs(t[k]), d.state = "wait"
               PROVE  \E f \in Regs(t["L2"]) : f.line = d.line /\ k \in f.waiters /\ f.priority >= d.priority
    BY DEF Below
  <2>1. d \in Regs(mshr[k]) /\ (k \in e.waiters => d.line # e.line)
    <3>1. CASE k \in e.waiters
      <4>1. PICK c \in Regs(mshr[k]) :
                 /\ c.line = e.line /\ c.state = "wait"
                 /\ \E b : b.state = "transfer" /\ Regs(t[k]) = (Regs(mshr[k]) \ {c}) \cup {b}
        BY <1>16, <3>1 DEF GoesOn
      <4>2. d \in Regs(mshr[k]) /\ d # c
        BY <4>1
      <4>3. k \in Mshrs
        BY MshrsAre
      <4> QED
        BY <1>0, <4>1, <4>2, <4>3, OrderedFacts
    <3>2. CASE k \notin e.waiters
      BY <1>16, <3>2 DEF GoesOn
    <3> QED
      BY <3>1, <3>2
  <2>2. PICK f \in B : f.line = d.line /\ k \in f.waiters /\ f.priority >= d.priority
    BY <1>0, <2>1 DEF Linked, Below
  <2>3. f # e
    BY <2>1, <2>2
  <2> QED
    BY <1>18, <2>2, <2>3
<1>21. ASSUME NEW k \in FirstLevel PROVE Above(Regs(t[k]), Regs(t["L2"]), k)
  <2> SUFFICES ASSUME NEW f \in Regs(t["L2"]), k \in f.waiters
               PROVE  \E d \in Regs(t[k]) : d.line = f.line /\ d.state = "wait"
    BY DEF Above
  <2>1. f \in B /\ f # e
    BY <1>18 DEF KeptFor, Victim
  <2>2. f.line # e.line
    BY <1>17, <2>1
  <2>3. PICK d \in Regs(mshr[k]) : d.line = f.line /\ d.state = "wait"
    BY <1>0, <2>1 DEF Linked, Above
  <2>4. d \in Regs(t[k])
    BY <1>16, <2>2, <2>3 DEF GoesOn
  <2> QED
    BY <2>3, <2>4
<1>22. Linked(t)
  BY <1>19, <1>20, <1>21 DEF Linked
<1> QED
  BY <1>14, <1>22 DEF Structure

\* The list of a miss of the first level is unhooked when its line has come.
LEMMA FilledUnhooks ==
  ASSUME NEW m \in FirstLevel, NEW line, NEW victim, Filled(m, line, victim), stage \in [Waiters -> Stages]
  PROVE  /\ mshr' = FillAndSwapOutVictim(mshr, m, line, victim)
         /\ Unhooked(stage', Entry(mshr, m, line).waiters)
<1>1. PICK ws, st2 : ws = Entry(mshr, m, line).waiters /\ st2 = stage'
  OBVIOUS
<1>2. m # "L2"
  BY MshrsAre
<1>3. /\ mshr' = FillAndSwapOutVictim(mshr, m, line, victim)
      /\ \/ ws = {} /\ st2 = stage
         \/ \E first \in ws : st2 = Waking(ws, first)
  BY <1>1, <1>2 DEF Filled
<1>4. CASE ws = {} /\ st2 = stage
  BY <1>1, <1>3, <1>4 DEF Unhooked
<1>5. CASE \E first \in ws : st2 = Waking(ws, first)
  <2>1. PICK first \in ws : st2 = Waking(ws, first)
    BY <1>5
  <2>2. st2 \in [Waiters -> Stages]
    BY <2>1 DEF Waking, Stages
  <2>3. ASSUME NEW w \in Waiters PROVE IF w \in ws THEN st2[w] \in {"woken", "served"} ELSE st2[w] = stage[w]
    BY <2>1 DEF Waking
  <2>4. Unhooked(st2, ws)
    BY <2>2, <2>3 DEF Unhooked
  <2> QED
    BY <1>1, <1>3, <2>4
<1> QED
  BY <1>3, <1>4, <1>5

LEMMA BusTransferDoneKeeps ==
  ASSUME IInv, NEW m \in Mshrs, BusTransferDone(m)
  PROVE  Structure(mshr', stage', target')
<1>0. /\ Structure(mshr, stage, target) /\ Ordered(mshr) /\ stage \in [Waiters -> Stages] /\ target' = target
  BY DEF IInv, Structure, ScalarsOK, BusTransferDone
<1>1. PICK e \in Regs(mshr[m]) :
           /\ e.state = "transfer" /\ e.due = 0
           /\ \/ e.priority # Prefetch
                 /\ \E victim \in Victims(mshr, m) : Filled(m, e.line, victim)
              \/ e.priority = Prefetch
                 /\ mshr' = [SetMRU(mshr, m, [e EXCEPT !.state = "prefetch"]) EXCEPT ![m].active = @ - 1]
                 /\ UNCHANGED stage
  BY DEF BusTransferDone, Regs
<1>2. Entry(mshr, m, e.line) = e
  BY <1>0, EntryFound
<1>3. PICK t, st2 : t = mshr' /\ st2 = stage'
  OBVIOUS
<1>4. CASE e.priority # Prefetch /\ \E victim \in Victims(mshr, m) : Filled(m, e.line, victim)
  <2>1. PICK victim \in Victims(mshr, m) : Filled(m, e.line, victim)
    BY <1>4
  <2>2. PICK s : s = FillAndSwapOutVictim(mshr, m, e.line, victim)
    OBVIOUS
  <2>3. CASE m = "L2"
    <3>1. t = CacheAccessDone(s, e.line, e.waiters) /\ st2 = stage
      BY <1>2, <1>3, <2>1, <2>2, <2>3 DEF Filled
    <3>2. Structure(t, stage, target)
      BY <1>0, <1>1, <2>2, <2>3, <3>1, SecondFillKeeps
    <3> QED
      BY <1>0, <1>3, <3>1, <3>2
  <2>4. CASE m # "L2"
    <3>1. m \in FirstLevel
      BY <2>4, MshrsAre
    <3>2. /\ mshr' = FillAndSwapOutVictim(mshr, m, e.line, victim)
          /\ Unhooked(stage', Entry(mshr, m, e.line).waiters)
      BY <1>0, <2>1, <3>1, FilledUnhooks
    <3>3. t = FillAndSwapOutVictim(mshr, m, e.line, victim) /\ Unhooked(st2, e.waiters)
      BY <1>2, <1>3, <3>2
    <3>4. Structure(t, st2, target)
      BY <1>0, <1>1, <3>1, <3>3, FirstFillKeeps
    <3> QED
      BY <1>0, <1>3, <3>4
  <2> QED
    BY <2>3, <2>4
<1>5. CASE /\ e.priority = Prefetch
           /\ mshr' = [SetMRU(mshr, m, [e EXCEPT !.state = "prefetch"]) EXCEPT ![m].active = @ - 1]
           /\ UNCHANGED stage
  <2>1. PICK b : b = [e EXCEPT !.state = "prefetch"]
    OBVIOUS
  <2>2. t = [SetMRU(mshr, m, b) EXCEPT ![m].active = @ - 1]
    BY <1>3, <1>5, <2>1
  <2>3. Prefetched(mshr, t, m, e, b)
    BY ONLY <1>0, <1>1, <2>1, <2>2, PrefetchedTurns
  <2>4. Structure(t, stage, target)
    BY <1>0, <1>1, <1>5, <2>1, <2>3, PrefetchedKeeps DEF Prefetched
  <2> QED
    BY <1>0, <1>3, <1>5, <2>4
<1> QED
  BY <1>1, <1>4, <1>5

-----------------------------------------------------------------------------
(***************************************************************************)
(* The tick of an mshr.                                                    *)
(***************************************************************************)
LEMMA ChosenQueued ==
  ASSUME Ordered(mshr), NEW m \in Mshrs, LevelOK(m, mshr[m]), mshr[m].queued > 0
  PROVE  Chosen(m) \in Regs(mshr[m]) /\ Chosen(m).state = "queued"
<1>1. PICK q : q = mshr[m].misses
  OBVIOUS
<1>2. /\ q \in Seq(Register) /\ Regs(mshr[m]) = ToSet(q) /\ Len(q) \in Nat /\ DOMAIN q = 1 .. Len(q)
      /\ \A n \in 1 .. Len(q) : q[n] \in Register /\ q[n] \in ToSet(q)
  BY <1>1, OrderedFacts, ListFacts DEF Regs
<1> DEFINE queue(p) == {n \in DOMAIN q : q[n].state = "queued" /\ q[n].priority = p}
           P == {p \in Prefetch .. Store : queue(p) # {}}
           best(p) == queue(p) # {} /\ \A r \in p + 1 .. Store : queue(r) = {}
           last(p, n) == n \in queue(p) /\ \A k \in queue(p) : k <= n
<1>3. \E x \in ToSet(q) : x.state = "queued"
  <2>1. Cardinality(Those(ToSet(q), {"queued"})) > 0
    BY <1>2 DEF LevelOK, Counted
  <2>2. Those(ToSet(q), {"queued"}) # {}
    BY <2>1, FS_EmptySet
  <2> QED
    BY <2>2 DEF Those
<1>4. P # {}
  <2>1. PICK n \in 1 .. Len(q) : q[n].state = "queued"
    BY <1>2, <1>3, ListFacts
  <2>2. q[n].priority \in Prefetch .. Store
    BY <1>2 DEF Register
  <2>3. n \in queue(q[n].priority)
    BY <1>2, <2>1
  <2> QED
    BY <2>2, <2>3
<1>5. PICK top : top = CHOOSE p \in Prefetch .. Store : best(p)
  OBVIOUS
<1>6. \E p \in Prefetch .. Store : best(p)
  <2>1. P \subseteq 1 .. 5 /\ 5 \in Nat
    BY DEF Prefetch, Store
  <2>2. PICK x : x = Max(P)
    OBVIOUS
  <2>3. x \in P /\ \A y \in P : y <= x
    <3> HIDE DEF P
    <3> QED
      BY <1>4, <2>1, <2>2, MaxExists
  <2>4. ASSUME NEW r \in x + 1 .. Store PROVE queue(r) = {}
    <3>1. r \in Prefetch .. Store /\ ~ (r <= x)
      BY <2>1, <2>3 DEF Prefetch, Store
    <3> QED
      BY <2>3, <3>1
  <2> QED
    BY <2>3, <2>4
<1>7. best(top)
  <2> HIDE DEF best
  <2> QED
    BY <1>5, <1>6
<1>8. PICK n : n = CHOOSE i \in queue(top) : \A k \in queue(top) : k <= i
  OBVIOUS
<1>9. \E i \in queue(top) : \A k \in queue(top) : k <= i
  <2>1. PICK S : S = queue(top)
    OBVIOUS
  <2>2. S \subseteq 1 .. Len(q) /\ S # {}
    BY <1>2, <1>7, <2>1
  <2>3. Max(S) \in S /\ \A y \in S : y <= Max(S)
    BY <1>2, <2>2, MaxExists
  <2> QED
    BY <2>1, <2>3
<1>10. n \in queue(top)
  BY <1>8, <1>9
<1>11. Chosen(m) = q[n]
  BY <1>1, <1>5, <1>8 DEF Chosen
<1> QED
  BY <1>2, <1>10, <1>11

\* A register that has left the queue is at the head of the list.
OffQueue(v, u, e) ==
    /\ Regs(u) = Regs(v) /\ Len(u.misses) = Len(v.misses) /\ u.cache = v.cache
    /\ u.active = v.active /\ u.queued = v.queued - 1 /\ u.busFree = v.busFree
    /\ e \in Regs(v) /\ e.state = "queued"

LEMMA TakenOff ==
  ASSUME NEW x, Ordered(x), NEW m \in Mshrs, NEW e \in Regs(x[m]), e.state = "queued",
         NEW s, s = [SetMRU(x, m, e) EXCEPT ![m].queued = @ - 1]
  PROVE  Turned(x, s, m, e, e) /\ OffQueue(x[m], s[m], e)
<1>1. e \in Register /\ x[m] \in Level
  BY OrderedFacts
<1>2. PICK u, a : u = SetMRU(x, m, e) /\ a = x[m].queued - 1
  OBVIOUS
<1>3. Turned(x, u, m, e, e) /\ SameCounts(x, u, m)
  BY <1>1, <1>2, SetMRUTurns
<1>4. a \in Int /\ Ordered(u)
  BY <1>1, <1>2, <1>3 DEF Level, Turned, TurnedAt
<1>5. s = [u EXCEPT ![m].queued = a]
  BY <1>2, <1>3 DEF SameCounts
<1>6. QueuedIs(u, s, m, a)
  BY <1>4, <1>5, WithQueued
<1>7. Turned(x, s, m, e, e)
  BY <1>3, <1>6, TurnedThenRecounted DEF QueuedIs
<1>8. Regs(s[m]) = Regs(x[m]) /\ Len(s[m].misses) = Len(x[m].misses) /\ s[m].cache = x[m].cache
  BY <1>7 DEF Turned, TurnedAt
<1> QED
  BY <1>2, <1>3, <1>6, <1>7, <1>8 DEF OffQueue, QueuedIs, SameCounts

\* A transfer starts, of a register that has left the queue of its level.
LEMMA SendKeeps ==
  ASSUME NEW x, Ordered(x), NEW m \in Mshrs, LevelOK(m, x[m]), NEW s, Ordered(s), Listed(s, stage, target), Linked(s),
         Started(s), \A k \in Mshrs : k # m => LevelOK(k, s[k]), NEW e, OffQueue(x[m], s[m], e),
         NEW t, t = ScheduleBusTransfer(s, m, e.line)
  PROVE  Structure(t, stage, target) /\ Started(t)
<1>1. PICK b : b = Moving(e, BusEnd(m, s[m]))
  OBVIOUS
<1>2. /\ e \in Regs(x[m]) /\ e \in Regs(s[m]) /\ e.state = "queued" /\ e \in Register
      /\ Regs(s[m]) = Regs(x[m]) /\ Len(s[m].misses) = Len(x[m].misses) /\ s[m].cache = x[m].cache
      /\ s[m].active = x[m].active /\ s[m].queued = x[m].queued - 1 /\ s[m].busFree = x[m].busFree
  BY OrderedFacts DEF OffQueue
<1>3. /\ Turned(s, t, m, e, b)
      /\ t[m].active = s[m].active /\ t[m].queued = s[m].queued /\ t[m].busFree = BusEnd(m, s[m])
  BY <1>1, <1>2, TransferTurns
<1>4. /\ Ordered(t) /\ SameElsewhere(s, t, m) /\ Regs(t[m]) = (Regs(s[m]) \ {e}) \cup {b}
      /\ Len(t[m].misses) = Len(s[m].misses) /\ t[m].cache = s[m].cache
  BY <1>3 DEF Turned, TurnedAt
<1>5. TurnedAt(x, t, m, e, b)
  BY <1>2, <1>4 DEF TurnedAt
<1>6. BusEnd(m, s[m]) = BusEnd(m, x[m]) /\ BusEnd(m, s[m]) \in Nat \ {0}
  BY <1>2, BusEndLater, OrderedFacts DEF BusEnd
<1>7. b \in Register /\ b.line = e.line /\ b.state = "transfer" /\ b.waiters = e.waiters /\ b.priority = e.priority
      /\ b.due = BusEnd(m, s[m])
  BY <1>1, <1>2, <1>6, MovingType
<1>8. LevelOK(m, t[m])
  <2>1. b = Moving(e, BusEnd(m, x[m])) /\ t[m].active = x[m].active /\ t[m].busFree = BusEnd(m, x[m])
    BY <1>1, <1>2, <1>3, <1>6
  <2>2. One(e, {"queued"}) = 1
    BY <1>2 DEF One
  <2>3. t[m].queued = x[m].queued - One(e, {"queued"})
    BY <1>2, <1>3, <2>2
  <2> QED
    BY <1>2, <1>5, <2>1, <2>3, TransferKeepsLevel
<1>9. LevelsOK(t)
  BY <1>4, <1>8 DEF LevelsOK, SameElsewhere
<1>10. Linked(t)
  <2>1. CASE m = "L2"
    <3>1. SecondOK({b})
      BY <1>2, <1>7, <2>1 DEF Linked, SecondOK, Outstanding
    <3> QED
      BY <1>2, <1>3, <1>7, <2>1, <3>1, SecondLinkedTurn
  <2>2. CASE m # "L2"
    <3>1. m \in FirstLevel
      BY <2>2, MshrsAre
    <3> QED
      BY <1>2, <1>3, <1>7, <3>1, FirstLinkedTurn
  <2> QED
    BY <2>1, <2>2
<1>11. Listed(t, stage, target)
  <2>1. CASE m = "L2"
    BY <1>4, <2>1, MshrsAre DEF Listed, SameElsewhere
  <2>2. CASE m # "L2"
    <3>1. m \in FirstLevel /\ BusEnd(m, s[m]) \in Nat
      BY <1>6, <2>2, MshrsAre
    <3> QED
      BY <1>1, <1>2, <1>3, <3>1, TransferListed
  <2> QED
    BY <2>1, <2>2
<1>12. Started(t)
  BY <1>4, <1>6, <1>7 DEF Started, SameElsewhere
<1> QED
  BY <1>4, <1>9, <1>10, <1>11, <1>12 DEF Structure

\* The chosen miss waits in the list of a miss of the second level.
LEMMA AskKeeps ==
  ASSUME Structure(mshr, stage, target), Started(mshr), NEW m \in FirstLevel,
         NEW e, NEW s, Turned(mshr, s, m, e, e), OffQueue(mshr[m], s[m], e), mshr["L2"].active < Entries["L2"],
         e.line \notin mshr["L2"].cache, ~ Kept(mshr, "L2", e.line),
         NEW p, p = (IF e.priority = Prefetch THEN ToCache ELSE e.priority),
         NEW t, t = Missed(InPlace(s, m, [e EXCEPT !.state = "wait"]), "L2", e.line, p, {m})
  PROVE  Structure(t, stage, target) /\ Started(t)
<1> DEFINE B == Regs(mshr["L2"])
<1>0. /\ m \in Mshrs /\ m # "L2" /\ "L2" \in Mshrs
      /\ Ordered(mshr) /\ LevelsOK(mshr) /\ Listed(mshr, stage, target) /\ Linked(mshr)
      /\ LevelOK(m, mshr[m]) /\ LevelOK("L2", mshr["L2"]) /\ mshr[m] \in Level
  BY MshrsAre, OrderedFacts DEF Structure, LevelsOK
<1>1. PICK a, x : a = [e EXCEPT !.state = "wait"] /\ x = InPlace(s, m, a)
  OBVIOUS
<1>2. /\ e \in Regs(mshr[m]) /\ e \in Regs(s[m]) /\ e.state = "queued" /\ e \in Register
      /\ s[m].active = mshr[m].active /\ s[m].queued = mshr[m].queued - 1 /\ s[m].busFree = mshr[m].busFree
  BY <1>0, OrderedFacts DEF OffQueue
<1>3. /\ a \in Register /\ a.line = e.line /\ a.state = "wait" /\ a.priority = e.priority /\ a.waiters = e.waiters
  BY <1>1, <1>2 DEF Register, Outstanding
<1>4. Ordered(s)
  BY DEF Turned, TurnedAt
<1>5. Turned(s, x, m, e, a) /\ SameCounts(s, x, m)
  BY <1>0, <1>1, <1>2, <1>3, <1>4, InPlaceTurns
<1>6. Turned(mshr, x, m, e, a)
  BY <1>0, <1>2, <1>5, TurnedTwice
<1>7. /\ Ordered(x) /\ SameElsewhere(mshr, x, m) /\ x["L2"] = mshr["L2"]
      /\ Regs(x[m]) = (Regs(mshr[m]) \ {e}) \cup {a} /\ TurnedAt(mshr, x, m, e, a)
  BY <1>0, <1>6 DEF Turned, TurnedAt, SameElsewhere
<1>8. LevelOK(m, x[m])
  <2>1. One(a, Outstanding) = 1 /\ One(e, Outstanding) = 1 /\ One(a, {"queued"}) = 0 /\ One(e, {"queued"}) = 1
    BY <1>2, <1>3 DEF One, Outstanding
  <2>2. mshr[m].active \in Int /\ mshr[m].queued \in Int /\ mshr[m].busFree \in Nat
    BY <1>0 DEF Level
  <2>3. /\ x[m].active = mshr[m].active + One(a, Outstanding) - One(e, Outstanding)
        /\ x[m].queued = mshr[m].queued + One(a, {"queued"}) - One(e, {"queued"})
        /\ x[m].busFree >= mshr[m].busFree
    BY <1>2, <1>5, <2>1, <2>2 DEF SameCounts
  <2>4. Counted(m, mshr[m]) /\ InOnePlace(m, mshr[m]) /\ OneBus(m, mshr[m])
    BY <1>0 DEF LevelOK
  <2>5. Counted(m, x[m])
    BY <1>0, <1>2, <1>3, <1>7, <2>3, <2>4, TurnKeepsCounts
  <2>6. InOnePlace(m, x[m])
    BY <1>0, <1>2, <1>3, <1>7, <2>4, TurnKeepsPlaces
  <2>7. OneBus(m, x[m])
    BY <1>0, <1>2, <1>3, <1>7, <2>3, <2>4, TurnKeepsBus
  <2> QED
    BY <2>5, <2>6, <2>7 DEF LevelOK
<1>9. LevelsOK(x)
  BY <1>0, <1>7, <1>8, LevelsElsewhere
<1>10. Listed(x, stage, target)
  <2>1. OnLists(m, Regs(mshr[m]), stage, target)
    BY <1>0 DEF Listed
  <2>2. a.waiters # {} => a.state \in Outstanding /\ a.priority > ToCache
    BY <1>2, <1>3, <2>1 DEF OnLists, Outstanding
  <2>3. OnLists(m, (Regs(mshr[m]) \ {e}) \cup {a}, stage, target)
    BY <1>2, <1>3, <2>1, <2>2, TurnLists
  <2>4. \A k \in FirstLevel : k # m => x[k] = mshr[k]
    BY <1>7, MshrsAre DEF SameElsewhere
  <2> QED
    BY <1>0, <1>7, <2>3, <2>4, OneListed
<1>11. p \in Prefetch .. Store /\ p >= a.priority /\ p >= ToCache /\ a.priority \in Int /\ {m} \in SUBSET (Waiters \cup Mshrs)
  BY <1>0, <1>2, <1>3 DEF Register, Prefetch, ToCache, Store
<1>12. t = Missed(x, "L2", e.line, p, {m})
  BY <1>1
<1>13. /\ \A f \in B : f \in Register /\ f.priority \in Int
       /\ \A k \in FirstLevel : \A d \in Regs(mshr[k]) : d.priority \in Int
  <2>1. \A k \in Mshrs : \A d \in Regs(mshr[k]) : d \in Register
    BY <1>0, OrderedFacts
  <2> QED
    BY <1>0, <2>1, MshrsAre DEF Register
<1>14. ASSUME NEW X, NEW f2, Ordered(t), LevelsOK(t), SameElsewhere(x, t, "L2"), Regs(t["L2"]) = (B \ X) \cup {f2},
              X \subseteq B, f2.line = e.line, m \in f2.waiters, f2.priority \in Int, f2.priority >= a.priority, SecondOK({f2}),
              Succeeds(B, X, f2, m), f2.state = "transfer" => \E f \in X : f.state = "transfer" /\ f.due = f2.due
       PROVE  Structure(t, stage, target) /\ Started(t)
  <2>1. \A k \in FirstLevel : t[k] = x[k]
    BY <1>14, MshrsAre DEF SameElsewhere
  <2>2. Listed(t, stage, target)
    BY <1>10, <2>1 DEF Listed
  <2>3. \A k \in Mshrs : k # m /\ k # "L2" => t[k] = mshr[k]
    BY <1>7, <1>14 DEF SameElsewhere
  <2>4. Regs(t[m]) = (Regs(mshr[m]) \ {e}) \cup {a}
    BY <1>7, <2>1
  <2>5. Linked(t)
    BY <1>0, <1>2, <1>3, <1>13, <1>14, <2>3, <2>4, BothLinked
  <2>6. ASSUME NEW k \in Mshrs, NEW d \in Regs(t[k]), d.state = "transfer" PROVE d.due > 0
    <3>1. CASE k = "L2"
      BY <1>0, <1>14, <2>6, <3>1 DEF Started
    <3>2. CASE k = m
      BY <1>3, <2>4, <2>6, <3>2 DEF Started
    <3>3. CASE k # m /\ k # "L2"
      BY <2>3, <2>6, <3>3 DEF Started
    <3> QED
      BY <3>1, <3>2, <3>3
  <2> QED
    BY <1>14, <2>2, <2>5, <2>6 DEF Structure, Started
<1>15. CASE e.line \in Allocated(mshr, "L2")
  <2>1. PICK f \in B : f = Entry(mshr, "L2", e.line) /\ f.line = e.line
    BY <1>0, <1>15, AllocatedEntry
  <2>2. f \in Register /\ f \in Regs(x["L2"])
    BY <1>7, <1>13
  <2>3. f.state \notin Present
    BY <1>15, <2>1 DEF Kept
  <2>4. f.state \in {"queued", "transfer"} /\ f.state \in Outstanding /\ f.waiters \subseteq FirstLevel /\ f.priority >= ToCache
    BY <1>0, <2>3 DEF Linked, SecondOK, Present, Outstanding
  <2>5. PICK f2 : f2 = Joined(f, p, {m})
    OBVIOUS
  <2>6. Turned(x, t, "L2", f, f2) /\ LevelsOK(t)
    <3>1. ~ (f.state = "wait" /\ f.priority < p)
      BY <2>4
    <3>2. t = Missed(x, "L2", f.line, p, {m})
      BY <1>12, <2>1
    <3> QED
      BY <1>0, <1>7, <1>9, <1>11, <2>2, <2>5, <3>1, <3>2, MissJoins
  <2>7. /\ f2.line = f.line /\ f2.state = f.state /\ f2.due = f.due /\ f2.waiters = f.waiters \cup {m}
        /\ f2.priority = IF f.priority >= p THEN f.priority ELSE p
    BY <1>11, <2>2, <2>5, JoinedType DEF Alike
  <2>8. f.priority \in Int /\ p \in Int
    BY <1>11, <1>13
  <2>9. f2.priority \in Int /\ f2.priority >= p /\ f2.priority >= f.priority /\ f2.priority >= a.priority /\ f2.priority >= ToCache
    BY <1>11, <2>7, <2>8 DEF ToCache
  <2>10. SecondOK({f2})
    BY <2>4, <2>7, <2>9 DEF SecondOK
  <2>11. Succeeds(B, {f}, f2, m)
    BY <2>7, <2>9 DEF Succeeds
  <2>12. Ordered(t) /\ SameElsewhere(x, t, "L2") /\ Regs(t["L2"]) = (B \ {f}) \cup {f2}
    BY <1>7, <2>6 DEF Turned, TurnedAt
  <2>13. m \in f2.waiters /\ f2.line = e.line
    BY <2>1, <2>7
  <2> QED
    BY <1>14, <2>6, <2>7, <2>9, <2>10, <2>11, <2>12, <2>13
<1>16. CASE e.line \notin Allocated(mshr, "L2")
  <2>1. PICK f2 : f2 = New(e.line, p, {m})
    OBVIOUS
  <2>2. e.line \in Lines
    BY <1>2 DEF Register
  <2>3. f2.line = e.line /\ f2.state = "queued" /\ f2.priority = p /\ f2.waiters = {m} /\ f2 \in Register
    BY <1>11, <2>1, <2>2 DEF New, Register, Outstanding
  <2>4. CanMiss(x, "L2", e.line) /\ e.line \notin Allocated(x, "L2")
    BY <1>7, <1>16 DEF CanMiss, Allocated
  <2>5. Counted("L2", x["L2"]) /\ LevelOK("L2", x["L2"])
    BY <1>0, <1>7 DEF LevelOK
  <2>6. PICK X : Entering(x, t, "L2", X, f2)
    BY <1>0, <1>7, <1>11, <1>12, <2>1, <2>2, <2>4, <2>5, MissEnters
  <2>7. /\ Ordered(t) /\ SameElsewhere(x, t, "L2") /\ X \subseteq Those(B, Present)
        /\ Regs(t["L2"]) = (B \ X) \cup {f2}
    BY <1>7, <2>6 DEF Entering
  <2>8. f2.line \notin x["L2"].cache /\ \A f \in Regs(x["L2"]) : f.line # f2.line
    BY <1>7, <1>16, <2>3 DEF Allocated, Regs
  <2>9. LevelOK("L2", t["L2"])
    BY <1>0, <1>7, <2>3, <2>5, <2>6, <2>8, EnterKeepsLevel
  <2>10. LevelsOK(t)
    BY <1>0, <1>9, <2>7, <2>9, LevelsElsewhere
  <2>11. SecondOK({f2})
    BY <1>11, <2>3 DEF SecondOK, Outstanding
  <2>12. ASSUME NEW f \in X PROVE f \in B /\ f.waiters = {}
    BY <1>0, <2>7 DEF Those, Linked, SecondOK, Outstanding, Present
  <2>13. Succeeds(B, X, f2, m)
    BY <2>3, <2>12 DEF Succeeds
  <2>14. X \subseteq B /\ f2.priority \in Int /\ m \in f2.waiters /\ f2.priority >= a.priority /\ f2.state # "transfer"
    BY <1>11, <2>3, <2>12
  <2> QED
    BY <1>14, <2>3, <2>7, <2>10, <2>11, <2>13, <2>14
<1> QED
  BY <1>15, <1>16

LEMMA SentKeeps ==
  ASSUME Structure(mshr, stage, target), Started(mshr), NEW m \in Mshrs, Ready(m), Sent(m)
  PROVE  Structure(mshr', stage, target) /\ Started(mshr')
<1>0. /\ Ordered(mshr) /\ LevelsOK(mshr) /\ Listed(mshr, stage, target) /\ Linked(mshr) /\ LevelOK(m, mshr[m])
      /\ "L2" \in Mshrs
  BY MshrsAre DEF Structure, LevelsOK
<1>1. PICK e, p, s, t : /\ e = Chosen(m) /\ p = (IF e.priority = Prefetch THEN ToCache ELSE e.priority)
                        /\ s = [SetMRU(mshr, m, e) EXCEPT ![m].queued = @ - 1] /\ t = mshr'
  OBVIOUS
<1>2. e \in Regs(mshr[m]) /\ e.state = "queued"
  BY <1>0, <1>1, ChosenQueued DEF Ready
<1>3. Turned(mshr, s, m, e, e) /\ OffQueue(mshr[m], s[m], e)
  BY <1>0, <1>1, <1>2, TakenOff
<1>4. Ordered(s) /\ SameElsewhere(mshr, s, m) /\ Regs(s[m]) = Regs(mshr[m])
  BY <1>2, <1>3 DEF Turned, TurnedAt
<1>5. Started(s)
  BY <1>4 DEF Started, SameElsewhere
<1>6. Listed(s, stage, target)
  BY <1>0, <1>4, MshrsAre DEF Listed, SameElsewhere
<1>7. Linked(s)
  <2>1. \A k \in Mshrs : Regs(s[k]) = Regs(mshr[k])
    BY <1>4 DEF SameElsewhere
  <2> QED
    BY <1>0, <2>1, MshrsAre DEF Linked
<1>8. \A k \in Mshrs : k # m => LevelOK(k, s[k])
  BY <1>0, <1>4 DEF LevelsOK, SameElsewhere
<1>9. CASE t = ScheduleBusTransfer(s, m, e.line)
  <2>1. Structure(t, stage, target) /\ Started(t)
    BY <1>0, <1>3, <1>4, <1>5, <1>6, <1>7, <1>8, <1>9, SendKeeps
  <2> QED
    BY <1>1, <2>1
<1>10. CASE /\ m # "L2" /\ Kept(mshr, "L2", e.line)
            /\ \E victim \in Victims(mshr, "L2") :
                   t = ScheduleBusTransfer(FillAndSwapOutVictim(s, "L2", e.line, victim), m, e.line)
  <2>1. PICK victim \in Victims(mshr, "L2") : t = ScheduleBusTransfer(FillAndSwapOutVictim(s, "L2", e.line, victim), m, e.line)
    BY <1>10
  <2>2. PICK u : u = FillAndSwapOutVictim(s, "L2", e.line, victim)
    OBVIOUS
  <2>3. s["L2"] = mshr["L2"]
    BY <1>0, <1>4, <1>10 DEF SameElsewhere
  <2>4. PICK f \in Regs(s["L2"]) : f.line = e.line /\ f.state \in Present
    BY <1>0, <1>10, <2>3, KeptEntry
  <2>5. f.state # "queued" /\ f.waiters = {}
    BY <1>7, <2>4 DEF Present, Outstanding, Linked, SecondOK
  <2>6. victim \in s["L2"].cache \cup {Nothing} /\ victim \in Victims(s, "L2")
    BY <2>3 DEF Victims
  <2>7. LevelOK("L2", s["L2"])
    BY <1>0, <1>8, <1>10
  <2>8. \A g \in Regs(s["L2"]) : g.line \notin s["L2"].cache
    BY <2>7 DEF LevelOK, InOnePlace
  <2>9. u = FillAndSwapOutVictim(s, "L2", f.line, victim)
    BY <2>2, <2>4
  <2>10. Filling(s, u, "L2", f, victim)
    BY <1>0, <1>4, <2>6, <2>8, <2>9, FillFills
  <2>11. LevelOK("L2", u["L2"])
    BY <1>0, <1>4, <2>5, <2>6, <2>7, <2>10, FillKeepsLevel
  <2>12. Ordered(u) /\ SameElsewhere(s, u, "L2") /\ Regs(u["L2"]) = (Regs(s["L2"]) \ {f}) \cup KeptFor(victim)
    BY <2>10 DEF Filling
  <2>13. u[m] = s[m] /\ \A k \in FirstLevel : u[k] = s[k]
    BY <1>10, <2>12, MshrsAre DEF SameElsewhere
  <2>14. Listed(u, stage, target)
    BY <1>6, <2>13 DEF Listed
  <2>15. \A g \in KeptFor(victim) : g.waiters = {} /\ g.state = "victim"
    BY DEF KeptFor, Victim
  <2>16. Linked(u)
    <3>1. SecondOK(KeptFor(victim))
      BY <2>15 DEF SecondOK, Outstanding
    <3>2. PICK X, N : X = {f} /\ N = KeptFor(victim)
      OBVIOUS
    <3>3. SecondOK(N) /\ Regs(u["L2"]) = (Regs(s["L2"]) \ X) \cup N
      BY <2>12, <3>1, <3>2
    <3>4. (\A g \in X : g.waiters = {}) /\ (\A g \in N : g.waiters = {})
      BY <2>5, <2>15, <3>2
    <3> QED
      BY <1>7, <2>12, <3>3, <3>4, SecondLinked
  <2>17. Started(u)
    <3>1. ASSUME NEW k \in Mshrs, NEW d \in Regs(u[k]), d.state = "transfer" PROVE d.due > 0
      <4>1. CASE k = "L2"
        BY <1>5, <2>12, <2>15, <3>1, <4>1 DEF Started
      <4>2. CASE k # "L2"
        BY <1>5, <2>12, <3>1, <4>2 DEF Started, SameElsewhere
      <4> QED
        BY <4>1, <4>2
    <3> QED
      BY <3>1 DEF Started
  <2>18. \A k \in Mshrs : k # m => LevelOK(k, u[k])
    BY <1>8, <2>11, <2>12 DEF SameElsewhere
  <2>19. OffQueue(mshr[m], u[m], e)
    BY <1>3, <2>13
  <2>20. t = ScheduleBusTransfer(u, m, e.line)
    BY <2>1, <2>2
  <2>21. Structure(t, stage, target) /\ Started(t)
    BY <1>0, <2>12, <2>14, <2>16, <2>17, <2>18, <2>19, <2>20, SendKeeps
  <2> QED
    BY <1>1, <2>21
<1>11. CASE /\ m # "L2" /\ e.line \notin mshr["L2"].cache /\ ~ Kept(mshr, "L2", e.line)
            /\ t = Missed(InPlace(s, m, [e EXCEPT !.state = "wait"]), "L2", e.line, p, {m})
  <2>1. m \in FirstLevel /\ mshr["L2"].active < Entries["L2"]
    BY <1>11, MshrsAre DEF Ready
  <2>2. Structure(t, stage, target) /\ Started(t)
    BY <1>1, <1>3, <1>11, <2>1, AskKeeps
  <2> QED
    BY <1>1, <2>2
<1> QED
  BY <1>1, <1>9, <1>10, <1>11 DEF Sent

-----------------------------------------------------------------------------
(***************************************************************************)
(* The end of a cycle: what is left of every transfer is one cycle less.   *)
(***************************************************************************)
AgedAll(R) == {Aged(e) : e \in R}

\* e is no transfer that is due.
Runs(e) == e.state = "transfer" => e.due > 0

LEMMA AgedFacts ==
  ASSUME NEW e \in Register, Runs(e)
  PROVE  /\ Aged(e) \in Register /\ Aged(e).line = e.line /\ Aged(e).state = e.state
         /\ Aged(e).waiters = e.waiters /\ Aged(e).priority = e.priority
         /\ e.state = "transfer" => Aged(e).due = e.due - 1
<1>1. CASE e.state = "transfer"
  <2>1. e.due - 1 \in Nat
    BY <1>1 DEF Runs, Register
  <2> QED
    BY <1>1, <2>1 DEF Aged, Register
<1>2. CASE e.state # "transfer"
  BY <1>2 DEF Aged
<1> QED
  BY <1>1, <1>2

LEMMA AgedList ==
  ASSUME NEW q \in Seq(Register), Distinct(q), \A e \in ToSet(q) : Runs(e),
         NEW r, r = [n \in DOMAIN q |-> Aged(q[n])]
  PROVE  r \in Seq(Register) /\ Distinct(r) /\ Len(r) = Len(q) /\ ToSet(r) = AgedAll(ToSet(q))
<1>1. /\ Len(q) \in Nat /\ DOMAIN q = 1 .. Len(q)
      /\ \A n \in 1 .. Len(q) : q[n] \in Register /\ q[n] \in ToSet(q)
  BY ListFacts
<1>2. \A n \in 1 .. Len(q) : Runs(q[n])
  BY <1>1
<1>3. ASSUME NEW n \in 1 .. Len(q) PROVE r[n] = Aged(q[n])
  BY <1>1 DEF Aged
<1>4. \A n \in 1 .. Len(q) : r[n] \in Register /\ r[n].line = q[n].line
  BY <1>1, <1>2, <1>3, AgedFacts
<1>5. DOMAIN r = 1 .. Len(q)
  BY <1>1
<1>6. r \in [1 .. Len(q) -> Register]
  BY <1>1, <1>4
<1>7. r \in Seq(Register) /\ Len(r) = Len(q)
  <2>1. r \in Seq(Register)
    BY <1>1, <1>6
  <2> QED
    BY <1>1, <1>5, <2>1, LenProperties
<1>8. Distinct(r)
  BY <1>1, <1>4, <1>5 DEF Distinct
<1>9. ASSUME NEW e \in ToSet(r) PROVE e \in AgedAll(ToSet(q))
  <2>1. PICK n \in 1 .. Len(r) : r[n] = e
    BY <1>7, ListFacts
  <2> QED
    BY <1>1, <1>3, <1>7, <2>1 DEF AgedAll
<1>10. ASSUME NEW d \in ToSet(q) PROVE Aged(d) \in ToSet(r)
  <2>1. PICK n \in 1 .. Len(q) : q[n] = d
    BY ListFacts
  <2>2. r[n] = Aged(d) /\ r[n] \in ToSet(r)
    BY <1>3, <1>7, <2>1, ListFacts
  <2> QED
    BY <2>2
<1>11. ToSet(r) = AgedAll(ToSet(q))
  BY <1>9, <1>10 DEF AgedAll
<1> QED
  BY <1>7, <1>8, <1>11

\* A level a cycle later.
Older(v, u) ==
    /\ u \in Level /\ Distinct(u.misses) /\ Len(u.misses) = Len(v.misses)
    /\ Regs(u) = AgedAll(Regs(v))
    /\ u.cache = v.cache /\ u.active = v.active /\ u.queued = v.queued
    /\ u.busFree = (IF v.busFree > 0 THEN v.busFree - 1 ELSE 0)

LEMMA OlderLevel ==
  ASSUME NEW v \in Level, Distinct(v.misses), \A e \in Regs(v) : Runs(e),
         NEW u, u = [v EXCEPT !.misses = [n \in DOMAIN @ |-> Aged(@[n])],
                              !.busFree = IF @ > 0 THEN @ - 1 ELSE 0]
  PROVE  Older(v, u)
<1>1. PICK q, r, b : /\ q = v.misses /\ b = (IF v.busFree > 0 THEN v.busFree - 1 ELSE 0)
                     /\ r = [n \in DOMAIN q |-> Aged(q[n])]
  OBVIOUS
<1>2. q \in Seq(Register) /\ v.busFree \in Nat
  BY <1>1 DEF Level
<1>3. r \in Seq(Register) /\ Distinct(r) /\ Len(r) = Len(q) /\ ToSet(r) = AgedAll(ToSet(q))
  BY <1>1, <1>2, AgedList DEF Regs
<1>4. b \in Nat
  BY <1>1, <1>2
<1>5. u = [v EXCEPT !.misses = r, !.busFree = b]
  BY <1>1
<1>6. u \in Level
  BY <1>3, <1>4, <1>5 DEF Level
<1>7. u.misses = r /\ u.busFree = b /\ u.cache = v.cache /\ u.active = v.active /\ u.queued = v.queued
  BY <1>5 DEF Level
<1> QED
  BY <1>1, <1>3, <1>6, <1>7 DEF Older, Regs

LEMMA AgedThose ==
  ASSUME NEW R, IsFiniteSet(R), R \subseteq Register, \A e \in R : Runs(e), \A e, f \in R : e.line = f.line => e = f, NEW S
  PROVE  Cardinality(Those(AgedAll(R), S)) = Cardinality(Those(R, S))
<1> DEFINE A == Those(R, S)
           C == Those(AgedAll(R), S)
           f == [e \in A |-> Aged(e)]
<1>1. IsFiniteSet(A)
  BY FS_Subset DEF Those
<1>2. \A e \in R : Aged(e) \in AgedAll(R) /\ Aged(e).state = e.state /\ Aged(e).line = e.line
  BY AgedFacts DEF AgedAll
<1>3. f \in [A -> C]
  BY <1>2 DEF Those
<1>4. ASSUME NEW a \in A, NEW b \in A, f[a] = f[b] PROVE a = b
  <2>1. a \in R /\ b \in R /\ Aged(a) = Aged(b)
    BY <1>4 DEF Those
  <2> QED
    BY <1>2, <2>1
<1>5. ASSUME NEW c \in C PROVE \E a \in A : f[a] = c
  <2>1. PICK e \in R : c = Aged(e)
    BY DEF Those, AgedAll
  <2>2. e \in A
    BY <1>2, <2>1 DEF Those
  <2> QED
    BY <2>1, <2>2
<1> HIDE DEF f, A, C
<1>6. ExistsBijection(A, C)
  BY <1>3, <1>4, <1>5 DEF ExistsBijection, Bijection, Injection, IsInjective, Surjection
<1>7. Cardinality(C) = Cardinality(A)
  BY <1>1, <1>6, FS_Bijection
<1> QED
  BY <1>7 DEF A, C

LEMMA OlderKeepsLevel ==
  ASSUME NEW s, Ordered(s), NEW m \in Mshrs, LevelOK(m, s[m]), \A e \in Regs(s[m]) : Runs(e), NEW u, Older(s[m], u)
  PROVE  LevelOK(m, u)
<1>1. PICK R : R = Regs(s[m])
  OBVIOUS
<1>2. /\ IsFiniteSet(R) /\ R \subseteq Register /\ (\A e \in R : Runs(e)) /\ (\A e, f \in R : e.line = f.line => e = f)
      /\ s[m] \in Level
  BY <1>1, OrderedFacts
<1>3. /\ Regs(u) = AgedAll(R) /\ Len(u.misses) = Len(s[m].misses)
      /\ u.cache = s[m].cache /\ u.active = s[m].active /\ u.queued = s[m].queued
      /\ u.busFree = (IF s[m].busFree > 0 THEN s[m].busFree - 1 ELSE 0)
  BY <1>1 DEF Older
<1>4. \A S : Cardinality(Those(Regs(u), S)) = Cardinality(Those(R, S))
  BY <1>2, <1>3, AgedThose
<1>5. Counted(m, u)
  <2>1. Cardinality(Those(Regs(u), Outstanding)) = Cardinality(Those(R, Outstanding))
    BY <1>4
  <2>2. Cardinality(Those(Regs(u), {"queued"})) = Cardinality(Those(R, {"queued"}))
    BY <1>4
  <2> QED
    BY <1>1, <1>3, <2>1, <2>2 DEF LevelOK, Counted
<1>6. ASSUME NEW e \in Regs(u)
      PROVE  \E d \in R : /\ e.line = d.line /\ e.state = d.state
                          /\ e.state = "transfer" => e.due = d.due - 1 /\ d.due \in Nat \ {0}
  <2>1. PICK d \in R : e = Aged(d)
    BY <1>3 DEF AgedAll
  <2>2. e.line = d.line /\ e.state = d.state /\ (d.state = "transfer" => e.due = d.due - 1)
    BY <1>2, <2>1, AgedFacts
  <2>3. d.state = "transfer" => d.due \in Nat \ {0}
    BY <1>2 DEF Runs, Register
  <2> QED
    BY <2>2, <2>3
<1>7. InOnePlace(m, u)
  BY <1>1, <1>3, <1>6 DEF LevelOK, InOnePlace
<1>8. OneBus(m, u)
  <2>1. s[m].busFree \in Nat /\ BusCycles[m] \in Nat
    BY <1>2, ConstantTypes DEF Level
  <2>2. ASSUME NEW e \in Regs(u), e.state = "transfer" PROVE e.due <= u.busFree
    <3>1. PICK d \in R : d.state = "transfer" /\ e.due = d.due - 1 /\ d.due \in Nat \ {0}
      BY <1>6, <2>2
    <3>2. d.due <= s[m].busFree
      BY <1>1, <3>1 DEF LevelOK, OneBus
    <3> QED
      BY <1>3, <2>1, <3>1, <3>2
  <2>3. ASSUME NEW e \in Regs(u), NEW f \in Regs(u), e.state = "transfer", f.state = "transfer", e.line # f.line
        PROVE  e.due >= f.due + BusCycles[m] \/ f.due >= e.due + BusCycles[m]
    <3>1. PICK d \in R : d.line = e.line /\ d.state = "transfer" /\ e.due = d.due - 1 /\ d.due \in Nat \ {0}
      BY <1>6, <2>3
    <3>2. PICK g \in R : g.line = f.line /\ g.state = "transfer" /\ f.due = g.due - 1 /\ g.due \in Nat \ {0}
      BY <1>6, <2>3
    <3>3. d.due >= g.due + BusCycles[m] \/ g.due >= d.due + BusCycles[m]
      BY <1>1, <2>3, <3>1, <3>2 DEF LevelOK, OneBus
    <3> QED
      BY <2>1, <3>1, <3>2, <3>3
  <2> QED
    BY <2>2, <2>3 DEF OneBus
<1> QED
  BY <1>5, <1>7, <1>8 DEF LevelOK

LEMMA EndCycleKeeps ==
  ASSUME Structure(mshr, stage, target), Started(mshr), EndCycle
  PROVE  Structure(mshr', stage, target)
<1>0. Ordered(mshr) /\ LevelsOK(mshr) /\ Listed(mshr, stage, target) /\ Linked(mshr) /\ mshr \in [Mshrs -> Level]
  BY DEF Structure, Ordered
<1>1. PICK t : t = mshr'
  OBVIOUS
<1>2. \A m \in Mshrs : \A e \in Regs(mshr[m]) : Runs(e) /\ e \in Register
  BY <1>0, OrderedFacts DEF Started, Runs
<1>3. ASSUME NEW m \in Mshrs PROVE Older(mshr[m], t[m])
  <2>1. mshr[m] \in Level /\ Distinct(mshr[m].misses)
    BY <1>0, OrderedFacts
  <2>2. PICK v, u : v = mshr[m] /\ u = t[m]
    OBVIOUS
  <2>3. u = [v EXCEPT !.misses = [n \in DOMAIN @ |-> Aged(@[n])],
                      !.busFree = IF @ > 0 THEN @ - 1 ELSE 0]
    BY <1>1, <2>2 DEF EndCycle
  <2>4. Older(v, u)
    BY <1>2, <2>1, <2>2, <2>3, OlderLevel
  <2> QED
    BY <2>2, <2>4
<1>4. DOMAIN t = Mshrs /\ t = [m \in Mshrs |-> t[m]]
  BY <1>1 DEF EndCycle
<1>5. Ordered(t)
  BY <1>3, <1>4 DEF Ordered, Older
<1>6. LevelsOK(t)
  <2>1. ASSUME NEW m \in Mshrs PROVE LevelOK(m, t[m])
    <3>1. LevelOK(m, mshr[m]) /\ \A e \in Regs(mshr[m]) : Runs(e)
      BY <1>0, <1>2 DEF LevelsOK
    <3> QED
      BY <1>0, <1>3, <3>1, OlderKeepsLevel
  <2> QED
    BY <2>1 DEF LevelsOK
<1>7. ASSUME NEW m \in Mshrs, NEW e \in Regs(t[m])
      PROVE  \E d \in Regs(mshr[m]) : /\ e.line = d.line /\ e.state = d.state
                                      /\ e.waiters = d.waiters /\ e.priority = d.priority
  <2>1. PICK d \in Regs(mshr[m]) : e = Aged(d)
    BY <1>3, <1>7 DEF Older, AgedAll
  <2> QED
    BY <1>2, <2>1, AgedFacts
<1>8. ASSUME NEW m \in Mshrs, NEW d \in Regs(mshr[m])
      PROVE  \E e \in Regs(t[m]) : /\ e.line = d.line /\ e.state = d.state
                                   /\ e.waiters = d.waiters /\ e.priority = d.priority
  <2>1. Aged(d) \in Regs(t[m])
    BY <1>3, <1>8 DEF Older, AgedAll
  <2> QED
    BY <1>2, <2>1, AgedFacts
<1>9. ASSUME NEW m \in FirstLevel PROVE OnLists(m, Regs(t[m]), stage, target)
  <2>1. OnLists(m, Regs(mshr[m]), stage, target) /\ m \in Mshrs
    BY <1>0, MshrsAre DEF Listed
  <2>2. \A e \in Regs(t[m]) : e.waiters = {w \in Users(m) : stage[w] = "waiting" /\ target[w] = e.line}
    BY <1>7, <2>1 DEF OnLists
  <2>3. \A e \in Regs(t[m]) : e.waiters # {} => e.state \in Outstanding /\ e.priority > ToCache
    BY <1>7, <2>1 DEF OnLists
  <2>4. \A w \in Users(m) : stage[w] = "waiting" => \E e \in Regs(t[m]) : e.line = target[w]
    BY <1>8, <2>1 DEF OnLists
  <2> QED
    BY <2>2, <2>3, <2>4 DEF OnLists
<1>10. SecondOK(Regs(t["L2"]))
  BY <1>0, <1>7, MshrsAre DEF Linked, SecondOK
<1>11. ASSUME NEW m \in FirstLevel PROVE Below(Regs(t[m]), Regs(t["L2"]), m)
  <2> SUFFICES ASSUME NEW e \in Regs(t[m]), e.state = "wait"
               PROVE  \E f \in Regs(t["L2"]) : f.line = e.line /\ m \in f.waiters /\ f.priority >= e.priority
    BY DEF Below
  <2>1. PICK d \in Regs(mshr[m]) : e.line = d.line /\ e.state = d.state /\ e.priority = d.priority
    BY <1>7, MshrsAre
  <2>2. PICK g \in Regs(mshr["L2"]) : g.line = d.line /\ m \in g.waiters /\ g.priority >= d.priority
    BY <1>0, <2>1 DEF Linked, Below
  <2>3. PICK f \in Regs(t["L2"]) : f.line = g.line /\ f.waiters = g.waiters /\ f.priority = g.priority
    BY <1>8, MshrsAre
  <2> QED
    BY <2>1, <2>2, <2>3
<1>12. ASSUME NEW m \in FirstLevel PROVE Above(Regs(t[m]), Regs(t["L2"]), m)
  <2> SUFFICES ASSUME NEW f \in Regs(t["L2"]), m \in f.waiters
               PROVE  \E e \in Regs(t[m]) : e.line = f.line /\ e.state = "wait"
    BY DEF Above
  <2>1. PICK g \in Regs(mshr["L2"]) : f.line = g.line /\ f.waiters = g.waiters
    BY <1>7, MshrsAre
  <2>2. PICK d \in Regs(mshr[m]) : d.line = g.line /\ d.state = "wait"
    BY <1>0, <2>1 DEF Linked, Above
  <2>3. PICK e \in Regs(t[m]) : e.line = d.line /\ e.state = d.state
    BY <1>8, MshrsAre
  <2> QED
    BY <2>1, <2>2, <2>3
<1> QED
  BY <1>1, <1>5, <1>6, <1>9, <1>10, <1>11, <1>12 DEF Structure, Listed, Linked

-----------------------------------------------------------------------------
(***************************************************************************)
(* The theorems.                                                           *)
(***************************************************************************)
LEMMA AccessStep ==
  ASSUME IInv, NEW w \in Insts, NEW line \in DataLines, NEW p \in {DataDemand, Store}, Access(w, line, p)
  PROVE  IInv'
<1>1. PICK m : m = "DL1"
  OBVIOUS
<1>2. m \in FirstLevel /\ w \in Users(m) /\ line \in Lines /\ p \in InstDemand .. Store /\ w # Sequencer /\ w \in Waiters
  BY <1>1, MissesAssumption DEF FirstLevel, Users, Lines, InstDemand, DataDemand, Store, Waiters
<1>3. Accessed(m, w, line, p) /\ lineBuffer' = lineBuffer
  BY <1>1 DEF Access
<1>4. Structure(mshr', stage', target')
  BY <1>2, <1>3, AccessedKeeps
<1>5. ScalarsOK' /\ turn' = "run"
  <2>1. LastAccess \in Nat
    BY MissesAssumption
  <2> QED
    BY <1>2, <1>3, <2>1 DEF Accessed, IInv, ScalarsOK, Stages
<1>6. lineBuffer' = target'[Sequencer]
  BY <1>2, <1>3 DEF Accessed, IInv, ScalarsOK, Waiters
<1> QED
  BY <1>4, <1>5, <1>6 DEF IInv, Structure

LEMMA FetchStep ==
  ASSUME IInv, NEW line \in CodeLines, Fetch(line)
  PROVE  IInv'
<1>1. PICK m, w : m = "IL1" /\ w = Sequencer
  OBVIOUS
<1>2. m \in FirstLevel /\ w \in Users(m) /\ line \in Lines /\ InstDemand \in InstDemand .. Store /\ w \in Waiters
  BY <1>1 DEF FirstLevel, Users, Lines, InstDemand, Store, Waiters
<1>3. Accessed(m, w, line, InstDemand) /\ lineBuffer' = line
  BY <1>1 DEF Fetch
<1>4. Structure(mshr', stage', target')
  BY <1>2, <1>3, AccessedKeeps
<1>5. ScalarsOK' /\ turn' = "run"
  <2>1. LastAccess \in Nat
    BY MissesAssumption
  <2> QED
    BY <1>2, <1>3, <2>1 DEF Accessed, IInv, ScalarsOK, Stages
<1>6. lineBuffer' = target'[Sequencer]
  BY <1>1, <1>2, <1>3 DEF Accessed, IInv, ScalarsOK
<1> QED
  BY <1>4, <1>5, <1>6 DEF IInv, Structure

LEMMA FetchAgainStep ==
  ASSUME IInv, FetchAgain
  PROVE  IInv'
<1>1. /\ mshr' = mshr /\ target' = target /\ lineBuffer' = lineBuffer /\ turn' = turn /\ accesses' = accesses
      /\ stage' = [stage EXCEPT ![Sequencer] = "served"] /\ stage[Sequencer] = "idle" /\ turn = "run"
      /\ stage \in [Waiters -> Stages] /\ Sequencer \in Waiters
  BY DEF FetchAgain, IInv, ScalarsOK, Waiters
<1>2. ASSUME NEW m \in FirstLevel PROVE OnLists(m, Regs(mshr[m]), stage', target)
  <2>1. SameWaiting(m, stage, stage', target, target)
    BY <1>1, UsersAre DEF SameWaiting
  <2>2. OnLists(m, Regs(mshr[m]), stage, target)
    BY DEF IInv, Listed
  <2> QED
    BY <2>1, <2>2, QuietLists
<1>3. Listed(mshr', stage', target')
  BY <1>1, <1>2 DEF Listed
<1>4. ScalarsOK'
  BY <1>1 DEF IInv, ScalarsOK, Stages
<1> QED
  BY <1>1, <1>3, <1>4 DEF IInv

LEMMA PrefetchStep ==
  ASSUME IInv, NEW line \in DataLines, PrefetchForStore(line)
  PROVE  IInv'
<1>1. Structure(mshr', stage, target)
  BY PrefetchKeeps
<1>2. stage' = stage /\ target' = target /\ lineBuffer' = lineBuffer /\ turn' = turn /\ turn = "run" /\ accesses' = accesses + 1
      /\ accesses < LastAccess
  BY DEF PrefetchForStore
<1>3. ScalarsOK'
  BY <1>2, MissesAssumption DEF IInv, ScalarsOK
<1> QED
  BY <1>1, <1>2, <1>3 DEF IInv, Structure

LEMMA SquashStep ==
  ASSUME IInv, NEW w \in Waiters, Squash(w)
  PROVE  IInv'
<1>1. Structure(mshr', stage', target)
  BY SquashKeeps
<1>2. /\ stage' = [stage EXCEPT ![w] = "idle"] /\ target' = target /\ lineBuffer' = lineBuffer /\ turn' = turn
      /\ turn = "run" /\ accesses' = accesses
  BY DEF Squash
<1>3. ScalarsOK'
  BY <1>2 DEF IInv, ScalarsOK, Stages
<1> QED
  BY <1>1, <1>2, <1>3 DEF IInv, Structure

LEMMA BusTransferDoneStep ==
  ASSUME IInv, NEW m \in Mshrs, BusTransferDone(m)
  PROVE  IInv'
<1>1. Structure(mshr', stage', target')
  BY BusTransferDoneKeeps
<1>2. target' = target /\ lineBuffer' = lineBuffer /\ turn' = turn /\ turn = "run" /\ accesses' = accesses
  BY DEF BusTransferDone
<1>3. stage' \in [Waiters -> Stages]
  BY DEF BusTransferDone, Filled, Waking, IInv, ScalarsOK, Stages
<1>4. ScalarsOK'
  BY <1>2, <1>3 DEF IInv, ScalarsOK
<1> QED
  BY <1>1, <1>2, <1>4 DEF IInv, Structure

LEMMA WakeNextStep ==
  ASSUME IInv, NEW w \in Waiters, WakeNext(w)
  PROVE  IInv'
<1>1. /\ mshr' = mshr /\ target' = target /\ lineBuffer' = lineBuffer /\ turn' = turn /\ accesses' = accesses
      /\ stage' = [stage EXCEPT ![w] = "served"] /\ stage[w] = "woken" /\ stage \in [Waiters -> Stages]
  BY DEF WakeNext, IInv, ScalarsOK
<1>2. ASSUME NEW m \in FirstLevel PROVE OnLists(m, Regs(mshr[m]), stage', target)
  <2>1. SameWaiting(m, stage, stage', target, target)
    BY <1>1, UsersAre DEF SameWaiting
  <2>2. OnLists(m, Regs(mshr[m]), stage, target)
    BY DEF IInv, Listed
  <2> QED
    BY <2>1, <2>2, QuietLists
<1>3. Listed(mshr', stage', target')
  BY <1>1, <1>2 DEF Listed
<1>4. ScalarsOK'
  BY <1>1 DEF IInv, ScalarsOK, Stages
<1> QED
  BY <1>1, <1>3, <1>4 DEF IInv

LEMMA TickStep ==
  ASSUME IInv, NEW m \in Mshrs, Tick(m)
  PROVE  IInv'
<1>1. /\ stage' = stage /\ target' = target /\ lineBuffer' = lineBuffer /\ accesses' = accesses
      /\ turn = m /\ turn' = After[m]
  BY DEF Tick, NextTurn
<1>2. turn # "run" /\ turn' \in DOMAIN After
  BY <1>1 DEF Mshrs, After
<1>3. Structure(mshr, stage, target) /\ Started(mshr)
  BY <1>2 DEF IInv, Structure
<1>4. Structure(mshr', stage, target) /\ Started(mshr')
  <2>1. CASE Ready(m)
    <3>1. Sent(m)
      BY <2>1 DEF Tick
    <3> QED
      BY <1>3, <2>1, <3>1, SentKeeps
  <2>2. CASE ~ Ready(m)
    <3>1. mshr' = mshr
      BY <2>2 DEF Tick
    <3> QED
      BY <1>3, <3>1
  <2> QED
    BY <2>1, <2>2
<1>5. ScalarsOK'
  BY <1>1, <1>2 DEF IInv, ScalarsOK
<1> QED
  BY <1>1, <1>4, <1>5 DEF IInv, Structure

LEMMA ExecutedStep ==
  ASSUME IInv, Executed
  PROVE  IInv'
<1>1. /\ mshr' = mshr /\ stage' = stage /\ target' = target /\ lineBuffer' = lineBuffer /\ accesses' = accesses
      /\ turn' = "L2"
  BY DEF Executed, NextTurn, After
<1>2. Started(mshr)
  BY DEF Executed, Started, Regs
<1>3. ScalarsOK'
  BY <1>1 DEF IInv, ScalarsOK, After
<1> QED
  BY <1>1, <1>2, <1>3 DEF IInv

LEMMA EndCycleStep ==
  ASSUME IInv, EndCycle
  PROVE  IInv'
<1>1. /\ stage' = stage /\ target' = target /\ lineBuffer' = lineBuffer /\ accesses' = accesses
      /\ turn = "end" /\ turn' = "run"
  BY DEF EndCycle, NextTurn, After
<1>2. Structure(mshr, stage, target) /\ Started(mshr)
  BY <1>1 DEF IInv, Structure
<1>3. Structure(mshr', stage, target)
  BY <1>2, EndCycleKeeps
<1>4. ScalarsOK'
  BY <1>1 DEF IInv, ScalarsOK, After
<1> QED
  BY <1>1, <1>3, <1>4 DEF IInv, Structure

LEMMA IInvInductive == IInv /\ [Next]_vars => IInv'
<1> SUFFICES ASSUME IInv, [Next]_vars PROVE IInv'
  OBVIOUS
<1>1. CASE \E w \in Insts, line \in DataLines, p \in {DataDemand, Store} : Access(w, line, p)
  BY <1>1, AccessStep
<1>2. CASE \E line \in CodeLines : Fetch(line)
  BY <1>2, FetchStep
<1>3. CASE FetchAgain
  BY <1>3, FetchAgainStep
<1>4. CASE \E line \in DataLines : PrefetchForStore(line)
  BY <1>4, PrefetchStep
<1>5. CASE \E w \in Waiters : Squash(w)
  BY <1>5, SquashStep
<1>6. CASE \E m \in Mshrs : BusTransferDone(m)
  BY <1>6, BusTransferDoneStep
<1>7. CASE \E m \in Mshrs : Tick(m)
  BY <1>7, TickStep
<1>8. CASE Executed
  BY <1>8, ExecutedStep
<1>9. CASE EndCycle
  BY <1>9, EndCycleStep
<1>10. CASE \E w \in Waiters : WakeNext(w)
  BY <1>10, WakeNextStep
<1>11. CASE UNCHANGED vars
  <2>1. UNCHANGED <<mshr, stage, target, lineBuffer, turn, accesses>>
    BY <1>11 DEF vars
  <2> QED
    BY <2>1 DEF IInv, ScalarsOK
<1> QED
  BY <1>1, <1>2, <1>3, <1>4, <1>5, <1>6, <1>7, <1>8, <1>9, <1>10, <1>11 DEF Next, Step

\* The registers, the lists of waiters, the counts and the buses of all levels stay in
\* order through every call of the processor and every step of a cycle.
THEOREM IInvAlways == Spec => []IInv
BY InitIInv, IInvInductive, PTL DEF Spec

\* The registers of a list counted by their places are those counted in its set.
LEMMA CountIs ==
  ASSUME Ordered(mshr), NEW m \in Mshrs, NEW S
  PROVE  Count(m, S) = Cardinality(Those(Regs(mshr[m]), S))
<1>1. PICK q : q = mshr[m].misses
  OBVIOUS
<1>2. /\ q \in Seq(Register) /\ Distinct(q) /\ Regs(mshr[m]) = ToSet(q) /\ IsFiniteSet(ToSet(q))
      /\ Len(q) \in Nat /\ DOMAIN q = 1 .. Len(q)
      /\ \A n \in 1 .. Len(q) : q[n] \in ToSet(q)
  BY <1>1, OrderedFacts, ListFacts DEF Regs
<1> DEFINE A == {n \in DOMAIN q : q[n].state \in S}
           C == Those(ToSet(q), S)
           f == [n \in A |-> q[n]]
<1>3. f \in [A -> C]
  BY <1>2 DEF Those
<1>4. \A a, b \in A : f[a] = f[b] => a = b
  BY <1>2 DEF Distinct
<1>5. ASSUME NEW c \in C PROVE \E a \in A : f[a] = c
  <2>1. PICK n \in 1 .. Len(q) : q[n] = c
    BY <1>2, ListFacts DEF Those
  <2>2. n \in A
    BY <1>2, <2>1 DEF Those
  <2> QED
    BY <2>1, <2>2
<1>6. IsFiniteSet(A)
  <2>1. IsFiniteSet(1 .. Len(q)) /\ A \subseteq 1 .. Len(q)
    BY <1>2, FS_Interval
  <2> QED
    BY <2>1, FS_Subset
<1>7. Count(m, S) = Cardinality(A)
  BY <1>1 DEF Count
<1> HIDE DEF f, A, C
<1>8. ExistsBijection(A, C)
  BY <1>3, <1>4, <1>5 DEF ExistsBijection, Bijection, Injection, IsInjective, Surjection
<1>9. Cardinality(C) = Cardinality(A)
  BY <1>6, <1>8, FS_Bijection
<1> QED
  BY <1>2, <1>7, <1>9 DEF C

LEMMA IInvTypeOK == IInv => TypeOK
<1> SUFFICES ASSUME IInv PROVE TypeOK
  OBVIOUS
<1>1. ASSUME NEW m \in Mshrs
      PROVE  /\ mshr[m].cache \subseteq Lines /\ Cardinality(mshr[m].cache) <= Ways[m]
             /\ mshr[m].misses \in Seq(Register) /\ mshr[m].busFree \in Nat
  <2>1. mshr[m] \in Level
    BY OrderedFacts DEF IInv
  <2>2. LevelOK(m, mshr[m])
    BY DEF IInv, LevelsOK
  <2> QED
    BY <2>1, <2>2 DEF Level, LevelOK, InOnePlace
<1> QED
  BY <1>1 DEF TypeOK, Register, IInv, ScalarsOK

LEMMA IInvCounts == IInv => CountsMatchLists
<1> SUFFICES ASSUME IInv, NEW m \in Mshrs
             PROVE  /\ mshr[m].active = Count(m, Outstanding)
                    /\ mshr[m].queued = Count(m, {"queued"})
                    /\ Len(mshr[m].misses) <= Entries[m]
  BY DEF CountsMatchLists
<1>1. Ordered(mshr) /\ Counted(m, mshr[m])
  BY DEF IInv, LevelsOK, LevelOK
<1>2. Count(m, Outstanding) = Cardinality(Those(Regs(mshr[m]), Outstanding))
  BY <1>1, CountIs
<1>3. Count(m, {"queued"}) = Cardinality(Those(Regs(mshr[m]), {"queued"}))
  BY <1>1, CountIs
<1> QED
  BY <1>1, <1>2, <1>3 DEF Counted

LEMMA IInvPlaces == IInv => LineInOnePlace
<1> SUFFICES ASSUME IInv, NEW m \in Mshrs
             PROVE  /\ Cardinality(Allocated(mshr, m)) = Len(mshr[m].misses)
                    /\ Allocated(mshr, m) \cap mshr[m].cache = {}
  BY DEF LineInOnePlace
<1>1. Ordered(mshr) /\ InOnePlace(m, mshr[m])
  BY DEF IInv, LevelsOK, LevelOK
<1>2. PICK q : q = mshr[m].misses
  OBVIOUS
<1>3. q \in Seq(Register) /\ Distinct(q) /\ Len(q) \in Nat /\ DOMAIN q = 1 .. Len(q)
      /\ (\A n \in 1 .. Len(q) : q[n] \in ToSet(q)) /\ (\A e \in ToSet(q) : \E n \in 1 .. Len(q) : q[n] = e)
  BY <1>1, <1>2, OrderedFacts, ListFacts
<1>4. PICK A : A = Allocated(mshr, m)
  OBVIOUS
<1>5. A = {e.line : e \in ToSet(q)}
  BY <1>2, <1>4 DEF Allocated
<1> DEFINE f == [n \in 1 .. Len(q) |-> q[n].line]
<1>6. f \in [1 .. Len(q) -> A]
  BY <1>3, <1>5
<1>7. \A a, b \in 1 .. Len(q) : f[a] = f[b] => a = b
  BY <1>3 DEF Distinct
<1>8. \A c \in A : \E a \in 1 .. Len(q) : f[a] = c
  BY <1>3, <1>5
<1> HIDE DEF f
<1>9. ExistsBijection(1 .. Len(q), A)
  BY <1>6, <1>7, <1>8 DEF ExistsBijection, Bijection, Injection, IsInjective, Surjection
<1>10. IsFiniteSet(1 .. Len(q)) /\ Cardinality(1 .. Len(q)) = Len(q)
  BY <1>3, FS_Interval
<1>11. Cardinality(A) = Len(q)
  BY <1>9, <1>10, FS_Bijection
<1>12. A \cap mshr[m].cache = {}
  BY <1>1, <1>2, <1>5 DEF InOnePlace, Regs
<1> QED
  BY <1>2, <1>4, <1>11, <1>12

LEMMA IInvWaits == IInv => WaitsOnItsMiss
<1> SUFFICES ASSUME IInv PROVE WaitsOnItsMiss
  OBVIOUS
<1>0. /\ Ordered(mshr) /\ "L2" \in Mshrs /\ FirstLevel = {"IL1", "DL1"} /\ FirstLevel \subseteq Mshrs
      /\ SecondOK(Regs(mshr["L2"]))
      /\ \A m \in Mshrs : Regs(mshr[m]) = ToSet(mshr[m].misses)
  BY MshrsAre DEF IInv, Linked, FirstLevel, Regs
<1>1. ASSUME NEW m \in FirstLevel, NEW e \in Regs(mshr[m])
      PROVE  /\ e.waiters = {w \in (IF m = "IL1" THEN {Sequencer} ELSE Insts) : stage[w] = "waiting" /\ target[w] = e.line}
             /\ e.waiters # {} => e.state \in Outstanding /\ e.priority > ToCache
             /\ e.state = "wait" => /\ e.line \in Allocated(mshr, "L2")
                                    /\ m \in Entry(mshr, "L2", e.line).waiters
                                    /\ Entry(mshr, "L2", e.line).priority >= e.priority
  <2>1. OnLists(m, Regs(mshr[m]), stage, target)
    BY DEF IInv, Listed
  <2>2. ASSUME e.state = "wait"
        PROVE  /\ e.line \in Allocated(mshr, "L2")
               /\ m \in Entry(mshr, "L2", e.line).waiters
               /\ Entry(mshr, "L2", e.line).priority >= e.priority
    <3>1. PICK f \in Regs(mshr["L2"]) : f.line = e.line /\ m \in f.waiters /\ f.priority >= e.priority
      BY <2>2 DEF IInv, Linked, Below
    <3>2. Entry(mshr, "L2", f.line) = f /\ f.line \in Allocated(mshr, "L2")
      BY <1>0, EntryFound
    <3> QED
      BY <3>1, <3>2
  <2> QED
    BY <2>1, <2>2 DEF OnLists, Users
<1>2. ASSUME NEW e \in Regs(mshr["L2"]), NEW m \in e.waiters
      PROVE  /\ e.state \in {"queued", "transfer"}
             /\ e.line \in Allocated(mshr, m) /\ Entry(mshr, m, e.line).state = "wait"
  <2>1. e.state \in {"queued", "transfer"} /\ m \in FirstLevel
    BY <1>0 DEF SecondOK, Outstanding
  <2>2. PICK d \in Regs(mshr[m]) : d.line = e.line /\ d.state = "wait"
    BY <2>1 DEF IInv, Linked, Above
  <2>3. Entry(mshr, m, d.line) = d /\ d.line \in Allocated(mshr, m)
    BY <1>0, <2>1, EntryFound
  <2> QED
    BY <2>1, <2>2, <2>3
<1> QED
  BY <1>0, <1>1, <1>2 DEF WaitsOnItsMiss

LEMMA IInvBus == IInv => BusCarriesOneLine
<1> SUFFICES ASSUME IInv, NEW m \in Mshrs
             PROVE  LET due(n) == mshr[m].misses[n].due
                        moving == {n \in DOMAIN mshr[m].misses : mshr[m].misses[n].state = "transfer"}
                    IN  /\ \A n \in moving : due(n) <= mshr[m].busFree
                        /\ \A n, k \in moving : n # k => due(n) >= due(k) + BusCycles[m] \/ due(k) >= due(n) + BusCycles[m]
  BY DEF BusCarriesOneLine
<1>1. Ordered(mshr) /\ OneBus(m, mshr[m])
  BY DEF IInv, LevelsOK, LevelOK
<1>2. PICK q : q = mshr[m].misses
  OBVIOUS
<1>3. Distinct(q) /\ \A n \in DOMAIN q : q[n] \in Regs(mshr[m])
  BY <1>1, <1>2, OrderedFacts, ListFacts DEF Regs
<1>4. \A n \in DOMAIN q : q[n].state = "transfer" => q[n].due <= mshr[m].busFree
  BY <1>1, <1>3 DEF OneBus
<1>5. ASSUME NEW n \in DOMAIN q, NEW k \in DOMAIN q, n # k, q[n].state = "transfer", q[k].state = "transfer"
      PROVE  q[n].due >= q[k].due + BusCycles[m] \/ q[k].due >= q[n].due + BusCycles[m]
  <2>1. q[n].line # q[k].line
    BY <1>3, <1>5 DEF Distinct
  <2> QED
    BY <1>1, <1>3, <1>5, <2>1 DEF OneBus
<1> QED
  BY <1>2, <1>4, <1>5

\* In the caches of a processor without ruby the registers of the three levels, their
\* counts, the lists of waiters and the caches agree (VerifyMSHR, mshr.C:584; Fill,
\* cache.C:324; RemoveWaitQueue and WakeupChain, mshr.C:343), whatever the lines,
\* the sizes of the caches and mshrs and the latencies.
THEOREM MissesAgree == Spec => []MissesConsistent
<1>1. IInv => MissesConsistent
  BY IInvTypeOK, IInvCounts, IInvPlaces, IInvWaits DEF MissesConsistent
<1> QED
  BY <1>1, IInvAlways, PTL

\* A bus carries one line at a time and none after the time it is known to be taken
\* until (ScheduleBusTransfer, mshr.C:1006), whatever the latencies and bus cycles.
THEOREM OneLineOnTheBus == Spec => []BusCarriesOneLine
BY IInvBus, IInvAlways, PTL

-----------------------------------------------------------------------------
\* The cache that w accesses.
Home(w) == IF w = Sequencer THEN "IL1" ELSE "DL1"

\* What WokenWithLine says of a step, of one waiter.
Served(w) ==
    stage[w] \in {"idle", "waiting"} /\ stage'[w] \in {"woken", "served"} =>
        \/ target'[w] \in mshr'[Home(w)].cache
        \/ w = Sequencer /\ stage[w] = "idle" /\ target'[w] = lineBuffer

LEMMA UsersHome ==
  ASSUME NEW m \in FirstLevel, NEW w \in Users(m)
  PROVE  Home(w) = m
BY MissesAssumption DEF Users, Home, FirstLevel

LEMMA AccessServes ==
  ASSUME IInv, NEW m \in FirstLevel, NEW v \in Users(m), NEW line, NEW p, Accessed(m, v, line, p), NEW w \in Waiters
  PROVE  Served(w)
<1>1. v \in Waiters /\ Home(v) = m /\ m \in Mshrs /\ stage \in [Waiters -> Stages] /\ target \in [Waiters -> Lines \cup {Nothing}]
  BY UsersAre, UsersHome, MshrsAre DEF IInv, ScalarsOK
<1>2. target'[v] = line
  BY <1>1 DEF Accessed
<1>3. CASE w # v
  BY <1>1, <1>3 DEF Accessed, Served
<1>4. CASE line \in mshr[m].cache /\ UNCHANGED mshr
  BY <1>1, <1>2, <1>3, <1>4 DEF Served
<1>5. CASE Kept(mshr, m, line) /\ \E victim \in Victims(mshr, m) : mshr' = FillAndSwapOutVictim(mshr, m, line, victim)
  <2>1. PICK victim \in Victims(mshr, m) : mshr' = FillAndSwapOutVictim(mshr, m, line, victim)
    BY <1>5
  <2>2. PICK t : t = mshr'
    OBVIOUS
  <2>3. Structure(mshr, stage, target)
    BY DEF IInv, Structure
  <2>4. line \in t[m].cache
    BY <1>5, <2>1, <2>2, <2>3, RestoreKeeps
  <2> QED
    BY <1>1, <1>2, <1>3, <2>2, <2>4 DEF Served
<1>6. CASE stage' = [stage EXCEPT ![v] = "waiting"]
  BY <1>1, <1>6 DEF Served
<1> QED
  BY <1>4, <1>5, <1>6 DEF Accessed

LEMMA BusTransferServes ==
  ASSUME IInv, NEW m \in Mshrs, BusTransferDone(m), NEW w \in Waiters
  PROVE  Served(w)
<1>0. /\ Structure(mshr, stage, target) /\ Ordered(mshr) /\ stage \in [Waiters -> Stages] /\ target' = target
  BY DEF IInv, Structure, ScalarsOK, BusTransferDone
<1>1. PICK e \in Regs(mshr[m]) :
           /\ e.state = "transfer"
           /\ \/ \E victim \in Victims(mshr, m) : Filled(m, e.line, victim)
              \/ UNCHANGED stage
  BY DEF BusTransferDone, Regs
<1>2. CASE UNCHANGED stage
  BY <1>2 DEF Served
<1>3. CASE \E victim \in Victims(mshr, m) : Filled(m, e.line, victim)
  <2>1. PICK victim \in Victims(mshr, m) : Filled(m, e.line, victim)
    BY <1>3
  <2>2. CASE m = "L2"
    BY <2>1, <2>2 DEF Filled, Served
  <2>3. CASE m # "L2"
    <3>1. Entry(mshr, m, e.line) = e
      BY <1>0, EntryFound
    <3>2. PICK t, st2 : t = mshr' /\ st2 = stage'
      OBVIOUS
    <3>4. m \in FirstLevel
      BY <2>3, MshrsAre
    <3>3. t = FillAndSwapOutVictim(mshr, m, e.line, victim) /\ Unhooked(st2, e.waiters)
      BY <1>0, <2>1, <3>1, <3>2, <3>4, FilledUnhooks
    <3>5. e.line \in t[m].cache
      BY <1>0, <1>1, <3>3, <3>4, FirstFillKeeps
    <3>6. OnLists(m, Regs(mshr[m]), stage, target)
      BY <3>4 DEF IInv, Listed
    <3>7. CASE w \in e.waiters
      <4>1. w \in Users(m) /\ target[w] = e.line
        BY <3>6, <3>7 DEF OnLists
      <4>2. Home(w) = m
        BY <3>4, <4>1, UsersHome
      <4> QED
        BY <1>0, <3>2, <3>5, <4>1, <4>2 DEF Served
    <3>8. CASE w \notin e.waiters
      BY <3>2, <3>3, <3>8 DEF Served, Unhooked
    <3> QED
      BY <3>7, <3>8
  <2> QED
    BY <2>2, <2>3
<1> QED
  BY <1>1, <1>2, <1>3

LEMMA StepServes ==
  ASSUME IInv, [Next]_vars, NEW w \in Waiters
  PROVE  Served(w)
<1>1. ASSUME NEW v \in Insts, NEW line \in DataLines, NEW p \in {DataDemand, Store}, Access(v, line, p)
      PROVE  Served(w)
  <2>1. PICK m : m = "DL1"
    OBVIOUS
  <2>2. m \in FirstLevel /\ v \in Users(m) /\ Accessed(m, v, line, p)
    BY <1>1, <2>1 DEF FirstLevel, Users, Access
  <2> QED
    BY <2>2, AccessServes
<1>2. ASSUME NEW line \in CodeLines, Fetch(line) PROVE Served(w)
  <2>1. PICK m, v : m = "IL1" /\ v = Sequencer
    OBVIOUS
  <2>2. m \in FirstLevel /\ v \in Users(m) /\ Accessed(m, v, line, InstDemand)
    BY <1>2, <2>1 DEF FirstLevel, Users, Fetch
  <2> QED
    BY <2>2, AccessServes
<1>3. CASE FetchAgain
  <2>1. CASE w = Sequencer
    BY <1>3, <2>1 DEF FetchAgain, IInv, Served
  <2>2. CASE w # Sequencer
    BY <1>3, <2>2 DEF FetchAgain, Served, IInv, ScalarsOK
  <2> QED
    BY <2>1, <2>2
<1>4. ASSUME NEW line \in DataLines, PrefetchForStore(line) PROVE Served(w)
  BY <1>4 DEF PrefetchForStore, Served
<1>5. ASSUME NEW v \in Waiters, Squash(v) PROVE Served(w)
  BY <1>5 DEF Squash, Served, IInv, ScalarsOK
<1>6. ASSUME NEW m \in Mshrs, BusTransferDone(m) PROVE Served(w)
  BY <1>6, BusTransferServes
<1>7. ASSUME NEW m \in Mshrs, Tick(m) PROVE Served(w)
  BY <1>7 DEF Tick, Served
<1>8. CASE Executed
  BY <1>8 DEF Executed, Served
<1>9. CASE EndCycle
  BY <1>9 DEF EndCycle, Served
<1>10. ASSUME NEW v \in Waiters, WakeNext(v) PROVE Served(w)
  BY <1>10 DEF WakeNext, Served, IInv, ScalarsOK
<1>11. CASE UNCHANGED vars
  BY <1>11 DEF vars, Served
<1> QED
  BY <1>1, <1>2, <1>3, <1>4, <1>5, <1>6, <1>7, <1>8, <1>9, <1>10, <1>11 DEF Next, Step

\* Whoever is served at once, or is unhooked from the list of a miss to be woken, has his
\* line in his cache then, or fetches again what the line buffer holds (WakeupChain,
\* mshr.C:343; lookupInstruction, pseq.C:930), whatever the order in which misses are
\* joined, squashed, kept and upgraded and whatever the instructions woken before him in
\* other chains have put out.
THEOREM WokenHaveTheirLine == Spec => WokenWithLine
<1>1. IInv /\ [Next]_vars =>
          [\A w \in Waiters :
               stage[w] \in {"idle", "waiting"} /\ stage'[w] \in {"woken", "served"} =>
                   \/ target'[w] \in mshr'[IF w = Sequencer THEN "IL1" ELSE "DL1"].cache
                   \/ w = Sequencer /\ stage[w] = "idle" /\ target'[w] = lineBuffer]_vars
  <2> SUFFICES ASSUME IInv, [Next]_vars, NEW w \in Waiters, stage[w] \in {"idle", "waiting"}, stage'[w] \in {"woken", "served"}
               PROVE  \/ target'[w] \in mshr'[IF w = Sequencer THEN "IL1" ELSE "DL1"].cache
                      \/ w = Sequencer /\ stage[w] = "idle" /\ target'[w] = lineBuffer
    OBVIOUS
  <2>1. Served(w)
    BY StepServes
  <2> QED
    BY <2>1 DEF Served, Home
<1> QED
  BY <1>1, IInvAlways, PTL DEF Spec, WokenWithLine

=============================================================================
