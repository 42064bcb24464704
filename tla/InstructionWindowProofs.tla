---------------------- MODULE InstructionWindowProofs ----------------------
(***************************************************************************)
(* Proofs about InstructionWindow for every size of the ring and of the    *)
(* groups its stages work in, and every number of stages: the types, the   *)
(* ring and the batches due, that every hazard has an exception pending in *)
(* front of it, that fetch is stalled for a cause, that the predictor      *)
(* follows the window, and that all of it implements InOrderWindow.        *)
(***************************************************************************)
EXTENDS InstructionWindow, FiniteSetsExt, SequenceTheorems, WellFoundedInduction, TLAPS

-----------------------------------------------------------------------------
(***************************************************************************)
(* Numbers and finite sets of them.                                        *)
(***************************************************************************)

\* One step around a ring, and less than one round.
LEMMA Wrap ==
  ASSUME NEW n \in Nat \ {0}, NEW a \in 0 .. 2 * n - 1
  PROVE  a % n = IF a < n THEN a ELSE a - n
<1>1. CASE a < n
  BY <1>1
<1>2. CASE a >= n
  <2> DEFINE b == a - n
  <2>1. b \in 0 .. n - 1 /\ a = b + n
    BY <1>2
  <2>2. b % n = b
    BY <2>1
  <2>3. (b + n) % n = b % n
    BY <2>1
  <2> QED BY <1>2, <2>1, <2>2, <2>3
<1> QED BY <1>1, <1>2

\* A non-empty set of positive numbers with a bound has a maximum, and Max is it.
LEMMA MaxExists ==
  ASSUME NEW S, NEW n \in Nat, S \subseteq 1 .. n, S # {}
  PROVE  /\ Max(S) \in S
         /\ \A y \in S : y <= Max(S)
<1> DEFINE R == OpToRel(<, Nat)
           T == {m \in Nat : n - m \in S}
<1>1. IsWellFoundedOn(R, Nat)
  BY NatLessThanWellFounded
<1>2. T \subseteq Nat /\ T # {}
  <2>1. PICK s \in S : TRUE
    OBVIOUS
  <2>2. n - s \in Nat /\ n - (n - s) = s
    BY <2>1
  <2> QED BY <2>1, <2>2
<1>3. \A x, y \in Nat : x < y => <<x, y>> \in R
  BY DEF OpToRel
<1>4. PICK x \in T : \A y \in T : ~(<<y, x>> \in R)
  <2> HIDE DEF R, T
  <2> QED BY <1>1, <1>2, WFMin
<1>5. n - x \in S /\ \A y \in S : y <= n - x
  <2> SUFFICES ASSUME NEW y \in S PROVE y <= n - x
    BY <1>4
  <2>1. n - y \in T
    <3>1. n - y \in Nat /\ n - (n - y) = y
      OBVIOUS
    <3> QED BY <3>1
  <2>2. ~(n - y < x)
    BY <2>1, <1>4, <1>3
  <2> QED BY <2>2
<1> QED BY <1>5 DEF Max

\* A set of positive numbers has a least element.
LEMMA LeastExists ==
  ASSUME NEW S, NEW n \in Nat, S \subseteq 1 .. n, S # {}
  PROVE  \E x \in S : \A y \in S : x <= y
<1> DEFINE R == OpToRel(<, Nat)
<1>1. IsWellFoundedOn(R, Nat)
  BY NatLessThanWellFounded
<1>2. \A x, y \in Nat : x < y => <<x, y>> \in R
  BY DEF OpToRel
<1>3. S \subseteq Nat
  OBVIOUS
<1>4. PICK x \in S : \A y \in S : ~ (<<y, x>> \in R)
  <2> HIDE DEF R
  <2> QED BY <1>1, <1>3, WFMin
<1>5. ASSUME NEW y \in S PROVE x <= y
  <2>1. x \in Nat /\ y \in Nat
    OBVIOUS
  <2>2. ~ (y < x)
    BY <1>2, <1>4, <2>1
  <2> QED
    BY <2>1, <2>2
<1> QED
  BY <1>5

\* The extrema of two numbers.
LEMMA OfTwo ==
  ASSUME NEW a \in Int, NEW b \in Int
  PROVE  /\ Max({a, b}) = IF a <= b THEN b ELSE a
         /\ Min({a, b}) = IF a <= b THEN a ELSE b
<1>1. Max({a, b}) \in {a, b} /\ \A y \in {a, b} : y <= Max({a, b})
  <2>1. \E x \in {a, b} : \A y \in {a, b} : y <= x
    OBVIOUS
  <2> QED BY <2>1 DEF Max
<1>2. Min({a, b}) \in {a, b} /\ \A y \in {a, b} : Min({a, b}) <= y
  <2>1. \E x \in {a, b} : \A y \in {a, b} : x <= y
    OBVIOUS
  <2> QED BY <2>1 DEF Min
<1> DEFINE m == Max({a, b})
           l == Min({a, b})
<1>3. m \in {a, b} /\ a <= m /\ b <= m
  BY <1>1
<1>4. l \in {a, b} /\ l <= a /\ l <= b
  BY <1>2
<1> HIDE DEF m, l
<1>5. m = (IF a <= b THEN b ELSE a) /\ l = IF a <= b THEN a ELSE b
  BY <1>3, <1>4
<1> QED BY <1>5 DEF m, l

\* The least of three.
LEMMA OfThree ==
  ASSUME NEW a \in Nat, NEW b \in Nat, NEW c \in Nat
  PROVE  /\ Min({a, b, c}) \in Nat
         /\ Min({a, b, c}) <= a /\ Min({a, b, c}) <= b /\ Min({a, b, c}) <= c
<1>1. \E x \in {a, b, c} : \A y \in {a, b, c} : x <= y
  OBVIOUS
<1>2. Min({a, b, c}) \in {a, b, c} /\ \A y \in {a, b, c} : Min({a, b, c}) <= y
  BY <1>1 DEF Min
<1> DEFINE l == Min({a, b, c})
<1>3. l \in {a, b, c} /\ l <= a /\ l <= b /\ l <= c
  BY <1>2
<1> HIDE DEF l
<1>4. l \in Nat /\ l <= a /\ l <= b /\ l <= c
  BY <1>3
<1> QED BY <1>4 DEF l

-----------------------------------------------------------------------------
(***************************************************************************)
(* The slots of the window, seen from one of them.                         *)
(***************************************************************************)

LEMMA SlotFacts ==
  /\ RobSize \in Nat /\ RobSize >= 1 /\ WinSize \in Nat /\ WinSize <= RobSize
  /\ Slots = 0 .. RobSize - 1
BY SizesAssumption DEF Slots

LEMMA DistanceFacts ==
  ASSUME NEW i \in Slots, NEW j \in Slots
  PROVE  /\ i \in Nat /\ i < RobSize /\ j \in Nat /\ j < RobSize /\ RobSize \in Nat
         /\ i <= j => Distance(i, j) = j - i
         /\ j < i => Distance(i, j) = j - i + RobSize
         /\ Distance(i, j) \in Nat /\ Distance(i, j) < RobSize
<1> DEFINE a == j - i + RobSize
<1>1. a \in 0 .. 2 * RobSize - 1 /\ RobSize \in Nat \ {0}
  BY SlotFacts
<1>2. a % RobSize = IF a < RobSize THEN a ELSE a - RobSize
  <2> HIDE DEF a
  <2> QED BY <1>1, Wrap
<1> QED BY <1>2, SlotFacts DEF Distance

\* No two slots are at the same distance.
LEMMA DistanceDetermines ==
  ASSUME NEW r \in Slots, NEW i \in Slots, NEW j \in Slots
  PROVE  /\ Distance(r, i) = Distance(r, j) => i = j
         /\ Distance(r, i) = 0 <=> i = r
         /\ Distance(r, i) \in Nat /\ Distance(r, i) < RobSize
<1>1. /\ r <= i => Distance(r, i) = i - r
      /\ i < r => Distance(r, i) = i - r + RobSize
      /\ r <= j => Distance(r, j) = j - r
      /\ j < r => Distance(r, j) = j - r + RobSize
      /\ r \in Nat /\ r < RobSize /\ i \in Nat /\ i < RobSize
      /\ j \in Nat /\ j < RobSize /\ RobSize \in Nat
  BY DistanceFacts
<1>2. Distance(r, i) \in Nat /\ Distance(r, i) < RobSize /\ Distance(r, j) \in Nat
  BY DistanceFacts
<1> QED BY <1>1, <1>2

\* A walk visits the slots behind the one it stops at up to the one it starts at.
LEMMA WalkFacts ==
  ASSUME NEW r \in Slots, NEW from \in Slots, NEW to \in Slots,
         Distance(r, to) <= Distance(r, from)
  PROVE  \A i : i \in Walk(from, to) <=>
             /\ i \in Slots
             /\ Distance(r, to) < Distance(r, i)
             /\ Distance(r, i) <= Distance(r, from)
<1> SUFFICES ASSUME NEW i \in Slots
             PROVE  Distance(i, from) < Distance(to, from) <=>
                        /\ Distance(r, to) < Distance(r, i)
                        /\ Distance(r, i) <= Distance(r, from)
  BY DEF Walk
<1>1. /\ r <= i => Distance(r, i) = i - r
      /\ i < r => Distance(r, i) = i - r + RobSize
      /\ r <= from => Distance(r, from) = from - r
      /\ from < r => Distance(r, from) = from - r + RobSize
      /\ r <= to => Distance(r, to) = to - r
      /\ to < r => Distance(r, to) = to - r + RobSize
      /\ i <= from => Distance(i, from) = from - i
      /\ from < i => Distance(i, from) = from - i + RobSize
      /\ to <= from => Distance(to, from) = from - to
      /\ from < to => Distance(to, from) = from - to + RobSize
  BY DistanceFacts
<1>2. /\ r \in Nat /\ r < RobSize /\ i \in Nat /\ i < RobSize /\ RobSize \in Nat
      /\ from \in Nat /\ from < RobSize /\ to \in Nat /\ to < RobSize
  BY DistanceFacts
<1> QED BY <1>1, <1>2

\* Counting on from a slot.
LEMMA AdvanceFacts ==
  ASSUME NEW r \in Slots, NEW i \in Slots, NEW n \in Nat, Distance(r, i) + n < RobSize
  PROVE  /\ (i + n) % RobSize \in Slots
         /\ Distance(r, (i + n) % RobSize) = Distance(r, i) + n
<1>0. /\ Distance(r, i) \in Nat /\ i \in Nat /\ i < RobSize /\ RobSize \in Nat
  BY DistanceFacts
<1> DEFINE a == i + n
<1>1. a \in 0 .. 2 * RobSize - 1 /\ RobSize \in Nat \ {0}
  BY <1>0
<1>2. a % RobSize = IF a < RobSize THEN a ELSE a - RobSize
  <2> HIDE DEF a
  <2> QED BY <1>1, Wrap
<1> DEFINE b == a % RobSize
<1>4. b = IF i + n < RobSize THEN i + n ELSE i + n - RobSize
  <2> DEFINE c == a % RobSize
  <2> HIDE DEF a
  <2>1. c = IF a < RobSize THEN a ELSE a - RobSize
    BY <1>2
  <2> HIDE DEF c
  <2>2. c = IF i + n < RobSize THEN i + n ELSE i + n - RobSize
    BY <1>0, <2>1 DEF a
  <2> QED BY <2>2 DEF a, c
<1>3. b \in Slots
  <2> HIDE DEF b
  <2> QED BY <1>0, <1>1, <1>4, SlotFacts
<1>5. Distance(r, b) = Distance(r, i) + n
  <2> HIDE DEF b
  <2>1. /\ r <= i => Distance(r, i) = i - r
        /\ i < r => Distance(r, i) = i - r + RobSize
        /\ r <= b => Distance(r, b) = b - r
        /\ b < r => Distance(r, b) = b - r + RobSize
        /\ r \in Nat /\ r < RobSize /\ i \in Nat /\ i < RobSize
        /\ b \in Nat /\ b < RobSize /\ RobSize \in Nat
    BY <1>3, DistanceFacts
  <2> QED BY <1>4, <2>1
<1> QED BY <1>3, <1>5

LEMMA IncFacts ==
  ASSUME NEW r \in Slots
  PROVE  /\ Inc(r) \in Slots
         /\ RobSize > 1 => Distance(r, Inc(r)) = 1
         /\ \A i \in Slots : Distance(Inc(r), i) =
                IF i = r THEN RobSize - 1 ELSE Distance(r, i) - 1
<1> DEFINE a == r + 1
<1>1. a \in 0 .. 2 * RobSize - 1 /\ RobSize \in Nat \ {0}
  BY SlotFacts
<1>2. a % RobSize = IF a < RobSize THEN a ELSE a - RobSize
  <2> HIDE DEF a
  <2> QED BY <1>1, Wrap
<1>3. Inc(r) = IF r + 1 < RobSize THEN r + 1 ELSE 0
  BY <1>1, <1>2, SlotFacts DEF Inc
<1>4. Inc(r) \in Slots
  BY <1>3, SlotFacts
<1>5. RobSize > 1 => Distance(r, Inc(r)) = 1
  <2> DEFINE b == Inc(r)
  <2>1. /\ r <= b => Distance(r, b) = b - r
        /\ b < r => Distance(r, b) = b - r + RobSize
        /\ r \in Nat /\ r < RobSize /\ b \in Nat /\ RobSize \in Nat
    BY <1>4, DistanceFacts
  <2> QED BY <1>3, <2>1
<1>6. ASSUME NEW i \in Slots
      PROVE  Distance(Inc(r), i) = IF i = r THEN RobSize - 1 ELSE Distance(r, i) - 1
  <2> DEFINE b == Inc(r)
  <2>1. /\ r <= i => Distance(r, i) = i - r
        /\ i < r => Distance(r, i) = i - r + RobSize
        /\ b <= i => Distance(b, i) = i - b
        /\ i < b => Distance(b, i) = i - b + RobSize
        /\ r \in Nat /\ r < RobSize /\ i \in Nat /\ i < RobSize
        /\ b \in Nat /\ b < RobSize /\ RobSize \in Nat
    BY <1>4, DistanceFacts
  <2>2. b = IF r + 1 < RobSize THEN r + 1 ELSE 0
    BY <1>3
  <2> HIDE DEF b
  <2>3. Distance(b, i) = IF i = r THEN RobSize - 1 ELSE Distance(r, i) - 1
    BY <2>1, <2>2
  <2> QED BY <2>3 DEF b
<1> QED BY <1>4, <1>5, <1>6

LEMMA DecFacts ==
  ASSUME NEW r \in Slots, NEW i \in Slots, i # r
  PROVE  Dec(i) \in Slots /\ Distance(r, Dec(i)) = Distance(r, i) - 1
<1> DEFINE a == i + RobSize - 1
<1>1. a \in 0 .. 2 * RobSize - 1 /\ RobSize \in Nat \ {0}
  BY SlotFacts
<1>2. a % RobSize = IF a < RobSize THEN a ELSE a - RobSize
  <2> HIDE DEF a
  <2> QED BY <1>1, Wrap
<1>3. Dec(i) = IF i = 0 THEN RobSize - 1 ELSE i - 1
  BY <1>1, <1>2, SlotFacts DEF Dec
<1>4. Dec(i) \in Slots
  BY <1>3, SlotFacts
<1>5. Distance(r, Dec(i)) = Distance(r, i) - 1
  <2> DEFINE b == Dec(i)
  <2>1. /\ r <= i => Distance(r, i) = i - r
        /\ i < r => Distance(r, i) = i - r + RobSize
        /\ r <= b => Distance(r, b) = b - r
        /\ b < r => Distance(r, b) = b - r + RobSize
        /\ r \in Nat /\ r < RobSize /\ i \in Nat /\ i < RobSize
        /\ b \in Nat /\ b < RobSize /\ RobSize \in Nat
    BY <1>4, DistanceFacts
  <2>2. b = IF i = 0 THEN RobSize - 1 ELSE i - 1
    BY <1>3
  <2> HIDE DEF b
  <2>3. Distance(r, b) = Distance(r, i) - 1
    BY <2>1, <2>2
  <2> QED BY <2>3 DEF b
<1> QED BY <1>4, <1>5

\* RangeOverlap compares numbers of slots, and means distances.
LEMMA OverlapFacts ==
  ASSUME NEW r \in Slots, NEW upper \in Slots, NEW i \in Slots
  PROVE  RangeOverlap(r, upper, i) <=> Distance(r, i) <= Distance(r, upper)
<1>1. /\ r <= i => Distance(r, i) = i - r
      /\ i < r => Distance(r, i) = i - r + RobSize
      /\ r <= upper => Distance(r, upper) = upper - r
      /\ upper < r => Distance(r, upper) = upper - r + RobSize
      /\ r \in Nat /\ r < RobSize /\ i \in Nat /\ i < RobSize
      /\ upper \in Nat /\ upper < RobSize /\ RobSize \in Nat
  BY DistanceFacts
<1> QED BY <1>1 DEF RangeOverlap

-----------------------------------------------------------------------------
(***************************************************************************)
(* The delay rings.                                                        *)
(***************************************************************************)

LEMMA PowersAre ==
  Powers = {1, 2, 4, 8, 16, 32, 64, 128, 256, 512, 1024, 2048, 4096, 8192, 16384, 32768}
<1>1. 0 .. 15 = {0, 1, 2, 3, 4, 5, 6, 7, 8, 9, 10, 11, 12, 13, 14, 15}
  OBVIOUS
<1>2. /\ 2 ^ 0 = 1 /\ 2 ^ 1 = 2 /\ 2 ^ 2 = 4 /\ 2 ^ 3 = 8 /\ 2 ^ 4 = 16 /\ 2 ^ 5 = 32
      /\ 2 ^ 6 = 64 /\ 2 ^ 7 = 128 /\ 2 ^ 8 = 256 /\ 2 ^ 9 = 512 /\ 2 ^ 10 = 1024
      /\ 2 ^ 11 = 2048 /\ 2 ^ 12 = 4096 /\ 2 ^ 13 = 8192 /\ 2 ^ 14 = 16384
      /\ 2 ^ 15 = 32768
  OBVIOUS
<1> QED BY <1>1, <1>2 DEF Powers

LEMMA MinPowerFacts ==
  ASSUME NEW n \in 1 .. MaxDelay
  PROVE  MinPowerOfTwo(n) \in Powers /\ n < MinPowerOfTwo(n)
<1>1. MaxDelay = 32767
  BY DEF MaxDelay
<1>2. \E m \in Powers : n < m /\ m <= 2 * n
  BY <1>1, PowersAre
<1> QED BY <1>2 DEF MinPowerOfTwo

\* The rings have room for what is due after all the stages, and the cycles
\* come around together with them.
LEMMA RingFacts ==
  /\ FetchRing \in Powers /\ FetchStages \in Nat \ {0} /\ FetchStages < FetchRing
  /\ DecodeRing \in Powers /\ DecodeStages \in Nat \ {0} /\ DecodeStages < DecodeRing
  /\ CycleBound \in Powers /\ FetchRing <= CycleBound /\ DecodeRing <= CycleBound
  /\ MispredPenalty \in Nat /\ MispredPenalty < CycleBound
<1>1. /\ FetchRing \in Powers /\ FetchStages \in Nat \ {0} /\ FetchStages < FetchRing
      /\ DecodeRing \in Powers /\ DecodeStages \in Nat \ {0} /\ DecodeStages < DecodeRing
  BY SizesAssumption, MinPowerFacts DEF FetchRing, DecodeRing
<1> DEFINE penalty == Max({MispredPenalty, 1})
           ring == MinPowerOfTwo(penalty)
           S == {FetchRing, DecodeRing, ring}
<1>2. penalty \in 1 .. MaxDelay /\ MispredPenalty <= penalty
  <2>1. MaxDelay = 32767 /\ MispredPenalty \in 0 .. MaxDelay
    BY SizesAssumption DEF MaxDelay
  <2>2. penalty = IF MispredPenalty <= 1 THEN 1 ELSE MispredPenalty
    BY <2>1, OfTwo
  <2> HIDE DEF penalty
  <2>3. penalty \in 1 .. MaxDelay /\ MispredPenalty <= penalty
    BY <2>1, <2>2
  <2> QED BY <2>3
<1>3. ring \in Powers /\ penalty < ring
  <2> HIDE DEF penalty
  <2> QED BY <1>2, MinPowerFacts
<1>4. S # {} /\ S \subseteq Powers
  <2> HIDE DEF ring
  <2> QED BY <1>1, <1>3
<1>5. Max(S) \in S /\ \A y \in S : y <= Max(S)
  <2> HIDE DEF S
  <2>1. PICK n \in Nat : n = 32768
    OBVIOUS
  <2>2. S \subseteq 1 .. n
    BY <1>4, <2>1, PowersAre
  <2> QED BY <1>4, <2>2, MaxExists
<1>6. CycleBound = Max(S)
  BY DEF CycleBound
<1>7. ring \in S /\ FetchRing \in S /\ DecodeRing \in S
  OBVIOUS
<1> HIDE DEF S, ring, penalty
<1>8. CycleBound \in Powers /\ ring <= CycleBound
  <2>1. CycleBound \in S /\ ring <= CycleBound
    BY <1>5, <1>6, <1>7
  <2> QED BY <1>4, <2>1
<1>9. MispredPenalty \in Nat /\ penalty \in Nat /\ ring \in Nat /\ CycleBound \in Nat
  BY <1>1, <1>2, <1>3, <1>8, SizesAssumption, PowersAre
<1> QED BY <1>1, <1>2, <1>3, <1>5, <1>6, <1>7, <1>8, <1>9

\* The places of a ring that less than a round apart are different.
LEMMA PlaceFacts ==
  ASSUME NEW size \in Powers, NEW now \in Nat
  PROVE  /\ size \in Nat
         /\ \A d \in Nat : (now + d) % size \in 0 .. size - 1
         /\ \A d, e \in 0 .. size - 1 : (now + d) % size = (now + e) % size => d = e
<1>1. size \in Nat
  BY PowersAre
<1>2. \A d \in Nat : (now + d) % size \in 0 .. size - 1
  BY PowersAre
<1>3. \A d, e \in 0 .. size - 1 : (now + d) % size = (now + e) % size => d = e
  BY PowersAre
<1> QED BY <1>1, <1>2, <1>3

\* The cycle counter comes around at the start of each ring.
LEMMA TurnFacts ==
  ASSUME NEW size \in Powers, NEW bound \in Powers, size <= bound,
         NEW now \in 0 .. bound - 1
  PROVE  /\ (now + 1) % bound \in 0 .. bound - 1
         /\ (now + 1) % bound = IF now + 1 = bound THEN 0 ELSE now + 1
         /\ \A d \in Nat : (((now + 1) % bound) + d) % size = (now + (d + 1)) % size
<1>1. size \in Nat \ {0} /\ bound \in Nat \ {0}
  BY PowersAre
<1>2. bound % size = 0
  BY PowersAre
<1> DEFINE a == now + 1
<1>3. a \in 0 .. 2 * bound - 1
  BY <1>1
<1>4. a % bound = IF a < bound THEN a ELSE a - bound
  <2> HIDE DEF a
  <2> QED BY <1>1, <1>3, Wrap
<1>5. a % bound = IF now + 1 = bound THEN 0 ELSE now + 1
  BY <1>1, <1>3, <1>4
<1>6. ASSUME NEW d \in Nat
      PROVE  ((a % bound) + d) % size = (now + (d + 1)) % size
  <2>1. CASE now + 1 = bound
    <3>1. (bound + d) % size = d % size
      BY <1>1, <1>2, PowersAre
    <3>2. (a % bound) + d = d /\ now + (d + 1) = bound + d
      BY <1>1, <1>5, <2>1
    <3> QED BY <3>1, <3>2
  <2>2. CASE now + 1 # bound
    <3>1. (a % bound) + d = now + (d + 1)
      BY <1>1, <1>5, <2>2
    <3> QED BY <3>1
  <2> QED BY <2>1, <2>2
<1>7. a % bound \in 0 .. bound - 1
  BY <1>1, <1>3, <1>5
<1> QED BY <1>5, <1>6, <1>7

\* What Holds says, with the counts in order: from later cycles on there are no
\* more instructions due.
Counts(left, ring, size, from, to, now, n) ==
    /\ left \in [from .. to + 1 -> 0 .. n]
    /\ left[from] = n /\ left[to + 1] = 0
    /\ \A d \in from .. to : left[d] = left[d + 1] + ring[(now + d) % size]

Ordered(left, from, to) == \A d, e \in from .. to + 1 : d <= e => left[e] <= left[d]

Due(ring, size, from, to, now, n) ==
    \E left \in [from .. to + 1 -> 0 .. n] :
        Counts(left, ring, size, from, to, now, n) /\ Ordered(left, from, to)

Sizes(ring, size) == ring \in [0 .. size - 1 -> 0 .. RobSize - 1]

\* A stage hands on a batch, due when the others are: it is the last.
LEMMA InsertHolds ==
  ASSUME NEW size \in Powers, NEW stages \in Nat \ {0}, stages < size, NEW now \in Nat,
         NEW ring, Sizes(ring, size), NEW n \in Nat, NEW k \in Nat,
         Due(ring, size, 0, stages - 1, now, n)
  PROVE  Due([ring EXCEPT ![(now + stages) % size] = k], size, 0, stages, now, n + k)
<1> DEFINE at == (now + stages) % size
           new == [ring EXCEPT ![at] = k]
<1>1. PICK left : Counts(left, ring, size, 0, stages - 1, now, n) /\ Ordered(left, 0, stages - 1)
  BY DEF Due
<1>2. /\ left \in [0 .. stages -> 0 .. n] /\ left[0] = n /\ left[stages] = 0
      /\ \A d \in 0 .. stages - 1 : left[d] = left[d + 1] + ring[(now + d) % size]
      /\ \A d, e \in 0 .. stages : d <= e => left[e] <= left[d]
  <2>1. (stages - 1) + 1 = stages
    OBVIOUS
  <2> QED BY <1>1, <2>1 DEF Counts, Ordered
<1> DEFINE more == [d \in 0 .. stages + 1 |-> IF d = stages + 1 THEN 0 ELSE left[d] + k]
<1>3. at \in 0 .. size - 1 /\ size \in Nat
  BY PlaceFacts
<1>4. \A d \in 0 .. stages - 1 : (now + d) % size \in 0 .. size - 1 /\ (now + d) % size # at
  <2> SUFFICES ASSUME NEW d \in 0 .. stages - 1
               PROVE  (now + d) % size \in 0 .. size - 1 /\ (now + d) % size # at
    OBVIOUS
  <2>1. d \in Nat /\ d \in 0 .. size - 1 /\ stages \in 0 .. size - 1 /\ d # stages
    BY <1>3
  <2> QED BY <2>1, PlaceFacts
<1>5. /\ new[at] = k
      /\ \A d \in 0 .. stages - 1 : new[(now + d) % size] = ring[(now + d) % size]
  <2> HIDE DEF at
  <2>1. new[at] = k
    BY <1>3 DEF Sizes
  <2>2. \A p \in 0 .. size - 1 : p # at => new[p] = ring[p]
    BY DEF Sizes
  <2> HIDE DEF new
  <2> QED BY <1>4, <2>1, <2>2
<1>6. \A d \in 0 .. stages : left[d] \in Nat /\ left[d] <= n
  BY <1>2
<1>7. Counts(more, new, size, 0, stages, now, n + k)
  <2> HIDE DEF new
  <2>1. more \in [0 .. stages + 1 -> 0 .. n + k]
    BY <1>6
  <2>2. more[0] = n + k /\ more[stages + 1] = 0
    BY <1>2
  <2>3. ASSUME NEW d \in 0 .. stages
        PROVE  more[d] = more[d + 1] + new[(now + d) % size]
    <3>1. CASE d = stages
      <4>1. more[d] = k /\ more[d + 1] = 0
        BY <1>2, <3>1
      <4> QED BY <1>5, <3>1, <4>1
    <3>2. CASE d # stages
      <4>1. /\ d \in 0 .. stages - 1 /\ d + 1 \in 0 .. stages
            /\ d # stages + 1 /\ d + 1 # stages + 1 /\ d + 1 \in 0 .. stages + 1
        BY <3>2
      <4>2. more[d] = left[d] + k /\ more[d + 1] = left[d + 1] + k
        BY <4>1
      <4>3. left[d] = left[d + 1] + new[(now + d) % size]
        BY <1>2, <1>5, <4>1
      <4> HIDE DEF more
      <4> DEFINE b == new[(now + d) % size]
      <4>4. b = ring[(now + d) % size]
        BY <1>5, <4>1
      <4>5. b \in Nat
        BY <1>4, <4>1, <4>4 DEF Sizes
      <4> HIDE DEF b
      <4>6. left[d] = left[d + 1] + b
        BY <4>3 DEF b
      <4>7. more[d] = more[d + 1] + b
        BY <1>6, <4>1, <4>2, <4>5, <4>6
      <4> QED BY <4>7 DEF b
    <3> QED BY <3>1, <3>2
  <2> HIDE DEF more
  <2> QED BY <2>1, <2>2, <2>3 DEF Counts
<1>8. Ordered(more, 0, stages)
  <2> SUFFICES ASSUME NEW d \in 0 .. stages + 1, NEW e \in 0 .. stages + 1, d <= e
               PROVE  more[e] <= more[d]
    BY DEF Ordered
  <2>1. CASE e = stages + 1
    <3>1. more[e] = 0 /\ more[d] \in Nat
      BY <1>6, <2>1
    <3> QED BY <3>1
  <2>2. CASE e # stages + 1
    <3>1. d \in 0 .. stages /\ e \in 0 .. stages
      BY <2>2
    <3>2. left[e] <= left[d] /\ left[e] \in Nat /\ left[d] \in Nat
      BY <1>2, <1>6, <3>1
    <3> QED BY <2>2, <3>1, <3>2
  <2> QED BY <2>1, <2>2
<1> HIDE DEF more
<1> QED BY <1>7, <1>8 DEF Due, Counts

\* A stage takes k of what is due now and leaves the rest for the next cycle.
LEMMA TakeHolds ==
  ASSUME NEW size \in Powers, NEW stages \in Nat \ {0}, stages < size, NEW now \in Nat,
         NEW ring, Sizes(ring, size), NEW n \in Slots, NEW k \in Nat,
         Due(ring, size, 0, stages, now, n), k <= ring[now % size]
  PROVE  /\ k <= n
         /\ Due(CarryOver(ring, (now + 1) % size, ring[now % size] - k), size, 1, stages, now, n - k)
         /\ Sizes(CarryOver(ring, (now + 1) % size, ring[now % size] - k), size)
<1> DEFINE here == now % size
           at == (now + 1) % size
           rest == ring[here] - k
           new == CarryOver(ring, at, rest)
<1>1. PICK left : Counts(left, ring, size, 0, stages, now, n) /\ Ordered(left, 0, stages)
  BY DEF Due
<1>2. /\ left \in [0 .. stages + 1 -> 0 .. n] /\ left[0] = n /\ left[stages + 1] = 0
      /\ \A d \in 0 .. stages : left[d] = left[d + 1] + ring[(now + d) % size]
      /\ \A d, e \in 0 .. stages + 1 : d <= e => left[e] <= left[d]
  BY <1>1 DEF Counts, Ordered
<1>3. at \in 0 .. size - 1 /\ size \in Nat
  BY PlaceFacts
<1>4. here = (now + 0) % size /\ here \in 0 .. size - 1
  <2>1. now + 0 = now
    OBVIOUS
  <2> QED BY <2>1, PlaceFacts
<1>5. \A d \in 0 .. stages : d # 1 => (now + d) % size \in 0 .. size - 1 /\ (now + d) % size # at
  <2> SUFFICES ASSUME NEW d \in 0 .. stages, d # 1
               PROVE  (now + d) % size \in 0 .. size - 1 /\ (now + d) % size # at
    OBVIOUS
  <2>1. d \in Nat /\ d \in 0 .. size - 1 /\ 1 \in 0 .. size - 1
    BY <1>3
  <2> QED BY <2>1, PlaceFacts
<1>6. \A d \in 0 .. stages + 1 : left[d] \in Nat /\ left[d] <= n
  BY <1>2, SlotFacts
<1> DEFINE first == ring[here]
           second == ring[at]
<1>7. first \in Nat /\ second \in Nat /\ first < RobSize /\ RobSize \in Nat /\ n \in Nat /\ n < RobSize
  <2> HIDE DEF here, at
  <2> QED BY <1>3, <1>4, SlotFacts DEF Sizes
<1>8. left[0] = left[1] + first /\ left[1] = left[2] + second
  <2>1. 0 \in 0 .. stages /\ 1 \in 0 .. stages /\ 0 + 1 = 1 /\ 1 + 1 = 2
    OBVIOUS
  <2> HIDE DEF here, at
  <2>2. left[0] = left[0 + 1] + ring[(now + 0) % size]
    BY <1>2, <2>1
  <2>3. left[1] = left[1 + 1] + ring[(now + 1) % size]
    BY <1>2, <2>1
  <2> QED BY <1>4, <2>1, <2>2, <2>3 DEF at
<1>9. 1 \in 0 .. stages + 1 /\ 2 \in 0 .. stages + 1 /\ k <= first
  OBVIOUS
<1>10. k <= n /\ rest \in Nat /\ rest + second + left[2] = n - k
  <2> HIDE DEF first, second
  <2>1. left[0] = n /\ left[1] \in Nat /\ left[2] \in Nat
    BY <1>2, <1>6, <1>9
  <2>2. rest = first - k
    BY DEF first
  <2> HIDE DEF rest, new, here, at
  <2>3. /\ n = left[1] + first /\ left[1] = left[2] + second
    BY <1>8, <2>1 DEF here, at, first, second
  <2>4. first \in Nat /\ second \in Nat /\ k <= first
    BY <1>7, <1>9
  <2> QED BY <2>1, <2>2, <2>3, <2>4
<1>11. /\ new[at] = second + rest
       /\ \A p \in 0 .. size - 1 : p # at => new[p] = ring[p]
       /\ new \in [0 .. size - 1 -> 0 .. RobSize - 1]
  <2>1. second + rest \in 0 .. RobSize - 1
    <3>1. left[2] \in Nat
      BY <1>6, <1>9
    <3> HIDE DEF rest, second, first
    <3> QED BY <1>7, <1>10, <3>1
  <2> HIDE DEF here, at, rest
  <2> QED BY <1>3, <2>1 DEF Sizes, CarryOver
<1> DEFINE less == [d \in 1 .. stages + 1 |-> IF d = 1 THEN n - k ELSE left[d]]
<1>12. \A d \in 2 .. stages + 1 : left[d] <= n - k
  <2> SUFFICES ASSUME NEW d \in 2 .. stages + 1 PROVE left[d] <= n - k
    OBVIOUS
  <2>1. left[d] <= left[2] /\ left[d] \in Nat /\ left[2] \in Nat
    BY <1>2, <1>6, <1>9
  <2> HIDE DEF rest, second, first
  <2> QED BY <1>7, <1>10, <2>1
<1>13. Counts(less, new, size, 1, stages, now, n - k)
  <2>1. less \in [1 .. stages + 1 -> 0 .. n - k]
    <3>1. \A d \in 2 .. stages + 1 : left[d] \in 0 .. n - k
      BY <1>6, <1>7, <1>10, <1>12
    <3>2. n - k \in 0 .. n - k
      BY <1>7, <1>10
    <3> QED BY <3>1, <3>2
  <2>2. less[1] = n - k /\ less[stages + 1] = 0
    BY <1>2
  <2>3. ASSUME NEW d \in 1 .. stages
        PROVE  less[d] = less[d + 1] + new[(now + d) % size]
    <3>1. CASE d = 1
      <4>1. less[d] = n - k /\ less[d + 1] = left[2]
        BY <3>1
      <4>2. new[(now + d) % size] = second + rest
        BY <1>11, <3>1
      <4>3. left[2] \in Nat
        BY <1>6, <1>9
      <4> HIDE DEF rest, second, first, new, less
      <4> QED BY <1>7, <1>10, <4>1, <4>2, <4>3
    <3>2. CASE d # 1
      <4>1. d \in 0 .. stages /\ d + 1 \in 2 .. stages + 1 /\ d \in 2 .. stages + 1
        BY <3>2
      <4>2. less[d] = left[d] /\ less[d + 1] = left[d + 1]
        BY <3>2, <4>1
      <4>3. new[(now + d) % size] = ring[(now + d) % size]
        <5> HIDE DEF new, at
        <5> QED BY <1>5, <1>11, <3>2, <4>1
      <4> HIDE DEF new, less
      <4> QED BY <1>2, <4>1, <4>2, <4>3
    <3> QED BY <3>1, <3>2
  <2> HIDE DEF less, new
  <2> QED BY <2>1, <2>2, <2>3 DEF Counts
<1>14. Ordered(less, 1, stages)
  <2> SUFFICES ASSUME NEW d \in 1 .. stages + 1, NEW e \in 1 .. stages + 1, d <= e
               PROVE  less[e] <= less[d]
    BY DEF Ordered
  <2>1. CASE d = 1
    <3>1. less[d] = n - k /\ (e = 1 \/ e \in 2 .. stages + 1)
      BY <2>1
    <3>2. CASE e = 1
      BY <1>7, <3>1, <3>2
    <3>3. CASE e \in 2 .. stages + 1
      <4>1. less[e] = left[e]
        BY <3>3
      <4> QED BY <1>12, <3>1, <3>3, <4>1
    <3> QED BY <3>1, <3>2, <3>3
  <2>2. CASE d # 1
    <3>1. less[d] = left[d] /\ less[e] = left[e]
      BY <2>2
    <3> QED BY <1>2, <3>1
  <2> QED BY <2>1, <2>2
<1>15. Due(new, size, 1, stages, now, n - k)
  <2> HIDE DEF new, less
  <2> QED BY <1>13, <1>14 DEF Due, Counts
<1> QED BY <1>10, <1>11, <1>15 DEF Sizes

\* A cycle ends.
LEMMA TurnHolds ==
  ASSUME NEW size \in Powers, NEW bound \in Powers, size <= bound,
         NEW stages \in Nat \ {0}, NEW now \in 0 .. bound - 1,
         NEW ring, NEW n \in Nat,
         Due(ring, size, 1, stages, now, n)
  PROVE  Due(ring, size, 0, stages - 1, (now + 1) % bound, n)
<1> DEFINE next == (now + 1) % bound
<1>1. PICK left : Counts(left, ring, size, 1, stages, now, n) /\ Ordered(left, 1, stages)
  BY DEF Due
<1>2. /\ left \in [1 .. stages + 1 -> 0 .. n] /\ left[1] = n /\ left[stages + 1] = 0
      /\ \A d \in 1 .. stages : left[d] = left[d + 1] + ring[(now + d) % size]
      /\ \A d, e \in 1 .. stages + 1 : d <= e => left[e] <= left[d]
  BY <1>1 DEF Counts, Ordered
<1> DEFINE moved == [d \in 0 .. (stages - 1) + 1 |-> left[d + 1]]
<1>3. Counts(moved, ring, size, 0, stages - 1, next, n)
  <2>1. moved \in [0 .. (stages - 1) + 1 -> 0 .. n]
    BY <1>2
  <2>2. moved[0] = n /\ moved[(stages - 1) + 1] = 0
    BY <1>2
  <2>3. ASSUME NEW d \in 0 .. stages - 1
        PROVE  moved[d] = moved[d + 1] + ring[(next + d) % size]
    <3>1. /\ d \in Nat /\ d + 1 \in 1 .. stages /\ d + 1 \in 0 .. (stages - 1) + 1
          /\ d \in 0 .. (stages - 1) + 1
      OBVIOUS
    <3>2. moved[d] = left[d + 1] /\ moved[d + 1] = left[(d + 1) + 1]
      BY <3>1
    <3>3. left[d + 1] = left[(d + 1) + 1] + ring[(now + (d + 1)) % size]
      BY <1>2, <3>1
    <3>4. (next + d) % size = (now + (d + 1)) % size
      BY <3>1, TurnFacts
    <3> HIDE DEF moved, next
    <3> QED BY <3>2, <3>3, <3>4
  <2> HIDE DEF moved, next
  <2> QED BY <2>1, <2>2, <2>3 DEF Counts
<1>4. Ordered(moved, 0, stages - 1)
  <2> SUFFICES ASSUME NEW d \in 0 .. (stages - 1) + 1, NEW e \in 0 .. (stages - 1) + 1, d <= e
               PROVE  moved[e] <= moved[d]
    BY DEF Ordered
  <2>1. d + 1 \in 1 .. stages + 1 /\ e + 1 \in 1 .. stages + 1 /\ d + 1 <= e + 1
    OBVIOUS
  <2> QED BY <1>2, <2>1
<1> HIDE DEF moved, next
<1>5. Due(ring, size, 0, stages - 1, next, n)
  BY <1>3, <1>4 DEF Due, Counts
<1> QED BY <1>5 DEF next

\* Nothing is due in a ring that has been flushed.
LEMMA FlushedHolds ==
  ASSUME NEW size \in Powers, NEW from \in Nat, NEW to \in Nat, from <= to + 1, NEW now \in Nat
  PROVE  /\ Due([s \in 0 .. size - 1 |-> 0], size, from, to, now, 0)
         /\ Sizes([s \in 0 .. size - 1 |-> 0], size)
<1> DEFINE ring == [s \in 0 .. size - 1 |-> 0]
           left == [d \in from .. to + 1 |-> 0]
<1>1. \A d \in from .. to : ring[(now + d) % size] = 0
  <2>1. \A d \in from .. to : (now + d) % size \in 0 .. size - 1
    BY PlaceFacts
  <2> QED BY <2>1
<1>2. Counts(left, ring, size, from, to, now, 0)
  <2>1. left \in [from .. to + 1 -> 0 .. 0] /\ left[from] = 0 /\ left[to + 1] = 0
    OBVIOUS
  <2>2. ASSUME NEW d \in from .. to
        PROVE  left[d] = left[d + 1] + ring[(now + d) % size]
    <3>1. left[d] = 0 /\ left[d + 1] = 0
      OBVIOUS
    <3> HIDE DEF ring, left
    <3> QED BY <1>1, <3>1
  <2> HIDE DEF ring, left
  <2> QED BY <2>1, <2>2 DEF Counts
<1>3. Ordered(left, from, to)
  BY DEF Ordered
<1>4. Sizes(ring, size)
  BY SlotFacts DEF Sizes
<1> HIDE DEF left
<1> QED BY <1>2, <1>3, <1>4 DEF Due, Counts

-----------------------------------------------------------------------------
(***************************************************************************)
(* The inductive invariant, by distances from the last retired slot.       *)
(***************************************************************************)

Fetched   == Offset(lastFetched)
Decoded   == Offset(lastDecoded)
Scheduled == Offset(lastScheduled)

Used(i) == 0 < Offset(i) /\ Offset(i) <= Fetched

InRing ==
    /\ Scheduled <= Decoded /\ Decoded <= Fetched /\ Scheduled <= WinSize
    /\ \A i \in Slots : window[i] # Empty <=> Used(i)

FetchDue ==
    Due(fetchPerCycle, FetchRing,
        IF phase \in {"fetch", "decode"} THEN 0 ELSE 1,
        IF phase = "fetch" THEN FetchStages - 1 ELSE FetchStages, cycle, Fetched - Decoded)

DecodeDue ==
    Due(decodePerCycle, DecodeRing,
        IF phase \in {"fetch", "decode", "schedule"} THEN 0 ELSE 1,
        IF phase \in {"fetch", "decode"} THEN DecodeStages - 1 ELSE DecodeStages,
        cycle, Decoded - Scheduled)

\* A misprediction names a control in flight, a replay an instruction that was
\* scheduled before another, or the last retired; retirement starts with none.
ExceptionFits ==
    /\ exception.type # "none" => exception.index \in Slots /\ Offset(exception.index) <= Scheduled
    /\ exception.type = "mispredict" => /\ 0 < Offset(exception.index)
                                        /\ window[exception.index].kind \in ControlKinds
    /\ exception.type = "replay" => Offset(exception.index) < Scheduled
    /\ phase = "retire" => exception = NoException

\* Only what was scheduled executes, and only a control can be mispredicted.
Sound ==
    \A i \in Slots : Used(i) =>
        /\ window[i].done \/ window[i].stale => Offset(i) <= Scheduled
        /\ window[i].wrong => window[i].kind \in ControlKinds

\* ExceptionCoversHazards by offsets: the pending exception is at the hazard or before.
Covered ==
    \A i \in Slots : Used(i) =>
        /\ window[i].stale => /\ exception.type # "none"
                              /\ Offset(exception.index) < Offset(i)
        /\ window[i].wrong /\ window[i].done =>
               \/ exception = [type |-> "mispredict", index |-> i]
               \/ exception.type # "none" /\ Offset(exception.index) < Offset(i)

\* Nothing is fetched behind an instruction that stops fetch, and the status says
\* which it is.
Stopped ==
    /\ fetchStatus \in Stoppers <=> window[lastFetched].kind \in Stoppers
    /\ fetchStatus \in Stoppers => window[lastFetched].kind = fetchStatus
    /\ \A i \in Slots : 0 < Offset(i) /\ Offset(i) < Fetched => window[i].kind \notin Stoppers

\* After a squash fetch waits no longer than the penalty.
Penalty ==
    fetchStatus = "squash" =>
        (fetchReady - cycle + CycleBound) % CycleBound
            \in (IF phase = "fetch" THEN 0 ELSE 1) .. MispredPenalty

\* The call that fetch remembers, unless it is gone, is the youngest instruction.
CallKnown == lastCall = "inflight" => window[lastFetched].kind = "call"

IInv ==
    /\ TypeOK /\ InRing /\ FetchDue /\ DecodeDue
    /\ ExceptionFits /\ Sound /\ Covered /\ Stopped /\ Penalty /\ CallKnown

-----------------------------------------------------------------------------
(***************************************************************************)
(* The types.                                                              *)
(***************************************************************************)

Statuses == {"ready", "squash", "icachemiss", "itlbmiss", "barrier"}

Pointed(f, d, s, r) == f \in Slots /\ d \in Slots /\ s \in Slots /\ r \in Slots

\* TypeOK, variable by variable.
LEMMA TypeFacts ==
  ASSUME TypeOK
  PROVE  /\ Pointed(lastFetched, lastDecoded, lastScheduled, lastRetired)
         /\ cycle \in Nat /\ cycle \in 0 .. CycleBound - 1
         /\ Sizes(fetchPerCycle, FetchRing) /\ Sizes(decodePerCycle, DecodeRing)
         /\ window \in [Slots -> Instruction \cup {Empty}]
         /\ specBPS \in 0 .. Histories - 1 /\ archBPS \in 0 .. Histories - 1
         /\ exception \in [type : {"mispredict", "replay"}, index : Slots] \cup {NoException}
         /\ fetchStatus \in Statuses /\ fetchReady \in 0 .. CycleBound - 1
         /\ retireCount \in 0 .. MaxRetire - 1 /\ lastCall \in {"none", "inflight", "gone"}
<1>1. CycleBound \in Nat
  BY RingFacts, PowersAre
<1> QED BY <1>1 DEF TypeOK, pointers, bps, Sizes, Pointed, Statuses

\* The distances of the four indices are numbers.
LEMMA PointerFacts ==
  ASSUME TypeOK
  PROVE  /\ Fetched \in Nat /\ Fetched < RobSize /\ Decoded \in Nat /\ Decoded < RobSize
         /\ Scheduled \in Nat /\ Scheduled < RobSize /\ RobSize \in Nat /\ RobSize >= 1
         /\ \A i \in Slots : Offset(i) \in Nat /\ Offset(i) < RobSize
         /\ Offset(lastRetired) = 0
BY TypeFacts, DistanceDetermines, SlotFacts
   DEF Pointed, Fetched, Decoded, Scheduled, Offset

LEMMA RecordFacts ==
  /\ Empty \notin Instruction /\ Empty.kind = "none" /\ Empty.kind \notin Stoppers
  /\ Empty.kind \notin ControlKinds /\ NoException.type = "none"
  /\ \A d \in Instruction : d # Empty /\ d.kind \in Kinds /\ d.kind # "none"
<1>1. /\ Empty.kind = "none" /\ NoException.type = "none" /\ Empty.kind \notin Stoppers
      /\ Empty.kind \notin ControlKinds
  BY DEF Empty, NoException, Stoppers, ControlKinds
<1>2. \A d \in Instruction : d.kind \in Kinds
  BY DEF Instruction
<1>3. "none" \notin Kinds
  BY SizesAssumption DEF AllKinds
<1> QED BY <1>1, <1>2, <1>3

LEMMA InitIInv == Init => IInv
<1> SUFFICES ASSUME Init PROVE IInv
  OBVIOUS
<1>0. /\ CycleBound \in Nat \ {0} /\ RobSize - 1 \in Slots /\ RobSize \in Nat /\ RobSize >= 1
  BY RingFacts, PowersAre, SlotFacts
<1>1. TypeOK
  <2>1. /\ fetchPerCycle \in [0 .. FetchRing - 1 -> 0 .. RobSize - 1]
        /\ decodePerCycle \in [0 .. DecodeRing - 1 -> 0 .. RobSize - 1]
    BY <1>0 DEF Init
  <2>2. window \in [Slots -> Instruction \cup {Empty}]
    BY DEF Init
  <2>3. /\ bps \in (0 .. Histories - 1) \X (0 .. Histories - 1)
        /\ retireCount \in 0 .. MaxRetire - 1
    BY SizesAssumption DEF Init, bps
  <2> QED BY <1>0, <2>1, <2>2, <2>3 DEF Init, TypeOK, pointers
<1>2. Fetched = 0 /\ Decoded = 0 /\ Scheduled = 0
  BY <1>0, DistanceDetermines DEF Init, Fetched, Decoded, Scheduled, Offset
<1>3. \A i \in Slots : ~Used(i) /\ Offset(i) \in Nat
  BY <1>1, <1>2, PointerFacts DEF Used
<1>4. InRing
  BY <1>2, <1>3, SlotFacts, SizesAssumption DEF InRing, Init
<1>5. FetchDue /\ DecodeDue
  <2>1. /\ Due(fetchPerCycle, FetchRing, 0, FetchStages - 1, 0, 0)
        /\ Due(decodePerCycle, DecodeRing, 0, DecodeStages - 1, 0, 0)
    <3>1. /\ FetchStages - 1 \in Nat /\ 0 <= (FetchStages - 1) + 1
          /\ DecodeStages - 1 \in Nat /\ 0 <= (DecodeStages - 1) + 1
      BY RingFacts
    <3> QED BY <3>1, FlushedHolds, RingFacts DEF Init
  <2> QED BY <1>2, <2>1 DEF FetchDue, DecodeDue, Init
<1>6. ExceptionFits
  BY DEF ExceptionFits, Init, NoException
<1>7. Sound /\ Covered
  BY <1>3 DEF Sound, Covered
<1>8. Stopped
  <2>1. window[lastFetched] = Empty
    BY <1>0 DEF Init
  <2>2. \A i \in Slots : ~(0 < Offset(i) /\ Offset(i) < Fetched)
    BY <1>2, <1>3
  <2> QED BY <2>1, <2>2, RecordFacts DEF Stopped, Init, Stoppers
<1>9. Penalty /\ CallKnown
  BY DEF Penalty, CallKnown, Init
<1> QED BY <1>1, <1>4, <1>5, <1>6, <1>7, <1>8, <1>9 DEF IInv

-----------------------------------------------------------------------------
(***************************************************************************)
(* The steps that leave the window as it is.                               *)
(***************************************************************************)

\* What is said of the window and the exception only changes with them.
LEMMA WindowKept ==
  ASSUME IInv, UNCHANGED <<window, lastFetched, lastScheduled, lastRetired, exception>>,
         lastDecoded' = lastDecoded
  PROVE  /\ InRing' /\ Sound' /\ Covered'
         /\ Fetched' = Fetched /\ Decoded' = Decoded /\ Scheduled' = Scheduled
         /\ fetchStatus' = fetchStatus => Stopped'
         /\ lastCall' = lastCall => CallKnown'
         /\ phase' # "retire" => ExceptionFits'
<1>1. /\ Fetched' = Fetched /\ Decoded' = Decoded /\ Scheduled' = Scheduled
      /\ \A i : Offset(i)' = Offset(i) /\ (Used(i)' <=> Used(i))
  BY DEF Fetched, Decoded, Scheduled, Offset, Used
<1>2. Offset(exception.index)' = Offset(exception.index)
  BY DEF Offset
<1>3. InRing' /\ Sound'
  BY <1>1 DEF IInv, InRing, Sound
<1>4. Covered'
  BY <1>1, <1>2 DEF IInv, Covered
<1>5. fetchStatus' = fetchStatus => Stopped'
  BY <1>1 DEF IInv, Stopped
<1>6. phase' # "retire" => ExceptionFits'
  BY <1>1, <1>2 DEF IInv, ExceptionFits
<1>7. lastCall' = lastCall => CallKnown'
  BY DEF IInv, CallKnown
<1> QED BY <1>1, <1>3, <1>4, <1>5, <1>6, <1>7

\* How long the penalty lasts, by the clock.
LEMMA PenaltyFacts ==
  ASSUME NEW ready \in 0 .. CycleBound - 1, NEW now \in 0 .. CycleBound - 1
  PROVE  /\ CycleBound \in Nat
         /\ (ready - now + CycleBound) % CycleBound =
                IF now <= ready THEN ready - now ELSE ready - now + CycleBound
<1> DEFINE a == ready - now + CycleBound
<1>1. CycleBound \in Nat \ {0}
  BY RingFacts, PowersAre
<1>2. a \in 0 .. 2 * CycleBound - 1
  BY <1>1
<1>3. a % CycleBound = IF a < CycleBound THEN a ELSE a - CycleBound
  <2> HIDE DEF a
  <2> QED BY <1>1, <1>2, Wrap
<1> DEFINE b == a % CycleBound
<1>4. b = IF now <= ready THEN ready - now ELSE ready - now + CycleBound
  <2>1. b = IF a < CycleBound THEN a ELSE a - CycleBound
    BY <1>3
  <2> HIDE DEF b
  <2> QED BY <1>1, <2>1
<1> QED BY <1>1, <1>4

LEMMA FetchStalledIInv == IInv /\ FetchStalled => IInv'
<1> SUFFICES ASSUME IInv, FetchStalled PROVE IInv'
  OBVIOUS
<1>0. /\ phase = "fetch" /\ phase' = "decode"
      /\ UNCHANGED <<cycle, window, decodePerCycle, exception, fetchStatus, fetchReady, lastCall,
                     specBPS, archBPS, retireCount>>
      /\ UNCHANGED <<lastFetched, lastDecoded, lastScheduled, lastRetired>>
  BY DEF FetchStalled, pointers, fetching, bps
<1>1. /\ InRing' /\ Sound' /\ Covered' /\ Stopped' /\ ExceptionFits' /\ CallKnown'
      /\ Fetched' = Fetched /\ Decoded' = Decoded /\ Scheduled' = Scheduled
  BY <1>0, WindowKept
<1>2. FetchDue'
  <2>1. Due(fetchPerCycle, FetchRing, 0, FetchStages - 1, cycle, Fetched - Decoded)
    BY <1>0 DEF IInv, FetchDue
  <2>2. Fetched - Decoded \in Nat /\ cycle \in Nat /\ Sizes(fetchPerCycle, FetchRing)
    BY TypeFacts, PointerFacts DEF IInv, InRing
  <2> DEFINE n == Fetched - Decoded
  <2>3. Due(fetchPerCycle', FetchRing, 0, FetchStages, cycle, n + 0)
    <3> HIDE DEF n
    <3> QED BY <2>1, <2>2, InsertHolds, RingFacts DEF FetchStalled, InsertFetched, n
  <2>4. n + 0 = Fetched' - Decoded'
    BY <1>1, <2>2
  <2> QED BY <1>0, <2>3, <2>4 DEF FetchDue
<1>3. DecodeDue'
  BY <1>0, <1>1 DEF IInv, DecodeDue
<1>4. Penalty'
  <2>1. fetchStatus = "squash" => fetchReady # cycle
    BY DEF FetchStalled, StatusNow
  <2>2. fetchReady \in 0 .. CycleBound - 1 /\ cycle \in 0 .. CycleBound - 1 /\ MispredPenalty \in Nat
    BY TypeFacts, RingFacts DEF IInv
  <2> DEFINE b == (fetchReady - cycle + CycleBound) % CycleBound
  <2>3. b = IF cycle <= fetchReady THEN fetchReady - cycle ELSE fetchReady - cycle + CycleBound
    BY <2>2, PenaltyFacts
  <2>4. fetchStatus = "squash" => b \in 0 .. MispredPenalty
    BY <1>0 DEF IInv, Penalty
  <2>5. CycleBound \in Nat
    BY RingFacts, PowersAre
  <2> HIDE DEF b
  <2>6. fetchStatus = "squash" => b \in 1 .. MispredPenalty
    BY <2>1, <2>2, <2>3, <2>4, <2>5
  <2> QED BY <1>0, <2>6 DEF Penalty, b
<1>5. TypeOK'
  <2>1. fetchPerCycle' \in [0 .. FetchRing - 1 -> 0 .. RobSize - 1]
    <3>1. fetchPerCycle \in [0 .. FetchRing - 1 -> 0 .. RobSize - 1] /\ 0 \in 0 .. RobSize - 1
      BY SlotFacts DEF IInv, TypeOK
    <3> QED BY <3>1 DEF FetchStalled, InsertFetched
  <2> QED BY <1>0, <2>1 DEF IInv, TypeOK, pointers, bps
<1> QED BY <1>1, <1>2, <1>3, <1>4, <1>5 DEF IInv

LEMMA RetireNoneIInv == IInv /\ RetireNone => IInv'
<1> SUFFICES ASSUME IInv, RetireNone PROVE IInv'
  OBVIOUS
<1>0. /\ phase = "retire" /\ phase' = "execute" /\ retireCount' = 0
      /\ UNCHANGED <<cycle, window, fetchPerCycle, decodePerCycle, exception, fetchStatus,
                     fetchReady, lastCall, specBPS, archBPS>>
      /\ UNCHANGED <<lastFetched, lastDecoded, lastScheduled, lastRetired>>
  BY DEF RetireNone, pointers, fetching, bps, batches
<1>1. /\ InRing' /\ Sound' /\ Covered' /\ Stopped' /\ ExceptionFits' /\ CallKnown'
      /\ Fetched' = Fetched /\ Decoded' = Decoded /\ Scheduled' = Scheduled
  BY <1>0, WindowKept
<1>2. FetchDue' /\ DecodeDue' /\ Penalty'
  BY <1>0, <1>1 DEF IInv, FetchDue, DecodeDue, Penalty
<1>3. TypeOK'
  BY <1>0, SizesAssumption DEF IInv, TypeOK, pointers, bps
<1> QED BY <1>1, <1>2, <1>3 DEF IInv

LEMMA WakeupIInv == IInv /\ Wakeup => IInv'
<1> SUFFICES ASSUME IInv, Wakeup PROVE IInv'
  OBVIOUS
<1>0. /\ phase = "execute" /\ fetchStatus = "icachemiss" /\ fetchStatus' = "ready"
      /\ UNCHANGED <<phase, cycle, window, fetchPerCycle, decodePerCycle, exception,
                     fetchReady, lastCall, specBPS, archBPS, retireCount>>
      /\ UNCHANGED <<lastFetched, lastDecoded, lastScheduled, lastRetired>>
  BY DEF Wakeup, pointers, bps, batches
<1>1. /\ InRing' /\ Sound' /\ Covered' /\ ExceptionFits' /\ CallKnown'
      /\ Fetched' = Fetched /\ Decoded' = Decoded /\ Scheduled' = Scheduled
  BY <1>0, WindowKept
<1>2. FetchDue' /\ DecodeDue' /\ Penalty'
  BY <1>0, <1>1 DEF IInv, FetchDue, DecodeDue, Penalty
<1>3. Stopped'
  <2>1. \A i : Offset(i)' = Offset(i)
    BY <1>0 DEF Offset
  <2>2. fetchStatus \notin Stoppers /\ fetchStatus' \notin Stoppers
    BY <1>0 DEF Stoppers
  <2> QED BY <1>0, <1>1, <2>1, <2>2 DEF IInv, Stopped
<1>4. TypeOK'
  BY <1>0 DEF IInv, TypeOK, pointers, bps
<1> QED BY <1>1, <1>2, <1>3, <1>4 DEF IInv

LEMMA EndCycleIInv == IInv /\ EndCycle => IInv'
<1> SUFFICES ASSUME IInv, EndCycle PROVE IInv'
  OBVIOUS
<1>0. /\ phase = "execute" /\ phase' = "fetch" /\ retireCount' = 0
      /\ cycle' = (cycle + 1) % CycleBound
      /\ UNCHANGED <<window, fetchPerCycle, decodePerCycle, exception, fetchStatus,
                     fetchReady, lastCall, specBPS, archBPS>>
      /\ UNCHANGED <<lastFetched, lastDecoded, lastScheduled, lastRetired>>
  BY DEF EndCycle, pointers, bps, batches, fetching
<1>1. /\ InRing' /\ Sound' /\ Covered' /\ Stopped' /\ ExceptionFits' /\ CallKnown'
      /\ Fetched' = Fetched /\ Decoded' = Decoded /\ Scheduled' = Scheduled
  BY <1>0, WindowKept
<1>2. /\ cycle \in 0 .. CycleBound - 1 /\ cycle' \in 0 .. CycleBound - 1
      /\ cycle' = IF cycle + 1 = CycleBound THEN 0 ELSE cycle + 1
  <2>1. CycleBound \in Powers /\ CycleBound \in Nat /\ cycle \in 0 .. CycleBound - 1
    BY RingFacts, PowersAre, TypeFacts DEF IInv
  <2> QED BY <1>0, <2>1, TurnFacts
<1>3. FetchDue'
  <2>1. Due(fetchPerCycle, FetchRing, 1, FetchStages, cycle, Fetched - Decoded)
    BY <1>0 DEF IInv, FetchDue
  <2>2. Fetched - Decoded \in Nat
    BY PointerFacts DEF IInv, InRing
  <2> DEFINE n == Fetched - Decoded
  <2> HIDE DEF n
  <2>3. Due(fetchPerCycle, FetchRing, 0, FetchStages - 1, cycle', n)
    BY <1>0, <1>2, <2>1, <2>2, TurnHolds, RingFacts DEF n
  <2> QED BY <1>0, <1>1, <2>3 DEF FetchDue, n
<1>4. DecodeDue'
  <2>1. Due(decodePerCycle, DecodeRing, 1, DecodeStages, cycle, Decoded - Scheduled)
    BY <1>0 DEF IInv, DecodeDue
  <2>2. Decoded - Scheduled \in Nat
    BY PointerFacts DEF IInv, InRing
  <2> DEFINE n == Decoded - Scheduled
  <2> HIDE DEF n
  <2>3. Due(decodePerCycle, DecodeRing, 0, DecodeStages - 1, cycle', n)
    BY <1>0, <1>2, <2>1, <2>2, TurnHolds, RingFacts DEF n
  <2> QED BY <1>0, <1>1, <2>3 DEF DecodeDue, n
<1>5. Penalty'
  <2>1. fetchReady \in 0 .. CycleBound - 1 /\ MispredPenalty \in Nat /\ CycleBound \in Nat
    BY TypeFacts, RingFacts, PowersAre DEF IInv
  <2> DEFINE b == (fetchReady - cycle + CycleBound) % CycleBound
             c == (fetchReady - cycle' + CycleBound) % CycleBound
  <2>2. b = IF cycle <= fetchReady THEN fetchReady - cycle ELSE fetchReady - cycle + CycleBound
    BY <1>2, <2>1, PenaltyFacts
  <2>3. c = IF cycle' <= fetchReady THEN fetchReady - cycle' ELSE fetchReady - cycle' + CycleBound
    BY <1>2, <2>1, PenaltyFacts
  <2>4. fetchStatus = "squash" => b \in 1 .. MispredPenalty
    BY <1>0 DEF IInv, Penalty
  <2> HIDE DEF b, c
  <2>5. fetchStatus = "squash" => c \in 0 .. MispredPenalty
    BY <1>2, <2>1, <2>2, <2>3, <2>4
  <2> QED BY <1>0, <2>5 DEF Penalty, c
<1>6. TypeOK'
  BY <1>0, <1>2, SizesAssumption DEF IInv, TypeOK, pointers, bps
<1> QED BY <1>1, <1>3, <1>4, <1>5, <1>6 DEF IInv

-----------------------------------------------------------------------------
(***************************************************************************)
(* Fetch, decode and dispatch.                                             *)
(***************************************************************************)

\* Distances from two slots.
LEMMA BetweenFacts ==
  ASSUME NEW r \in Slots, NEW f \in Slots, NEW i \in Slots
  PROVE  /\ Distance(r, f) <= Distance(r, i) => Distance(f, i) = Distance(r, i) - Distance(r, f)
         /\ Distance(r, i) < Distance(r, f) =>
                Distance(f, i) = Distance(r, i) - Distance(r, f) + RobSize
<1>1. /\ r <= i => Distance(r, i) = i - r
      /\ i < r => Distance(r, i) = i - r + RobSize
      /\ r <= f => Distance(r, f) = f - r
      /\ f < r => Distance(r, f) = f - r + RobSize
      /\ f <= i => Distance(f, i) = i - f
      /\ i < f => Distance(f, i) = i - f + RobSize
      /\ r \in Nat /\ r < RobSize /\ i \in Nat /\ i < RobSize
      /\ f \in Nat /\ f < RobSize /\ RobSize \in Nat
  BY DistanceFacts
<1> QED BY <1>1

LEMMA GroupFacts ==
  ASSUME NEW g \in Groups
  PROVE  /\ Len(g) \in Nat /\ DOMAIN g = 1 .. Len(g)
         /\ g = <<>> <=> Len(g) = 0
         /\ \A k \in 1 .. Len(g) : /\ g[k].kind \in Kinds /\ g[k].wrong \in BOOLEAN
                                   /\ g[k].wrong => g[k].kind \in ControlKinds
                                   /\ k < Len(g) => g[k].kind \notin Stoppers
<1>1. PICK n \in 0 .. MaxFetch : g \in [1 .. n -> Fetchable]
  BY DEF Groups
<1>2. g \in Seq(Fetchable)
  BY <1>1, SeqDef
<1>3. Len(g) \in Nat /\ DOMAIN g = 1 .. Len(g) /\ (g = <<>> <=> Len(g) = 0)
  BY <1>2, LenProperties, EmptySeq
<1>4. \A k \in 1 .. Len(g) : g[k] \in Fetchable
  BY <1>2, <1>3, ElementOfSeq
<1>5. \A k \in 1 .. Len(g) - 1 : g[k].kind \notin Stoppers
  BY DEF Groups
<1>6. \A f \in Fetchable : f.kind \in Kinds /\ f.wrong \in BOOLEAN /\ (f.wrong => f.kind \in ControlKinds)
  BY DEF Fetchable, ControlKinds
<1>7. \A k \in 1 .. Len(g) : k < Len(g) => k \in 1 .. Len(g) - 1
  BY <1>3
<1> QED BY <1>3, <1>4, <1>5, <1>6, <1>7

\* An instruction of the window, apart from the predictor state it keeps.
SameButHistory(e, d) ==
    /\ e = Empty <=> d = Empty
    /\ e.kind = d.kind /\ e.done = d.done /\ e.stale = d.stale /\ e.wrong = d.wrong

\* Taking a push back changes nothing but the history of the call fetched last.
LEMMA UndoneFacts ==
  ASSUME IInv, NEW g \in Groups, NEW after \in HistoryAfter(g), NEW i \in Slots
  PROVE  /\ SameButHistory(WithPushUndone(g, after)[i], window[i])
         /\ WithPushUndone(g, after)[i] \in Instruction \cup {Empty}
         /\ lastCall = "inflight" /\ g # <<>> /\ g[1].kind = "restore" /\ i = lastFetched
                => WithPushUndone(g, after)[i].history = after[1]
         /\ ~(lastCall = "inflight" /\ g # <<>> /\ g[1].kind = "restore" /\ i = lastFetched)
                => WithPushUndone(g, after)[i] = window[i]
<1>1. window \in [Slots -> Instruction \cup {Empty}]
  BY TypeFacts DEF IInv
<1>2. CASE lastCall = "inflight" /\ g # <<>> /\ g[1].kind = "restore" /\ i = lastFetched
  <2>1. window[i].kind = "call"
    BY <1>2 DEF IInv, CallKnown
  <2>2. window[i] \in Instruction
    BY <1>1, <2>1, RecordFacts
  <2>3. after[1] \in 0 .. Histories - 1
    <3>1. after \in [0 .. Len(g) -> 0 .. Histories - 1]
      BY DEF HistoryAfter
    <3>2. 1 \in 0 .. Len(g)
      BY <1>2, GroupFacts
    <3> QED BY <3>1, <3>2
  <2> DEFINE d == window[i]
             h == after[1]
             e == [d EXCEPT !.history = h]
  <2>4. WithPushUndone(g, after)[i] = e
    BY <1>1, <1>2 DEF WithPushUndone
  <2>5. d \in Instruction /\ h \in 0 .. Histories - 1
    BY <2>2, <2>3
  <2> HIDE DEF d, h
  <2>6. /\ e \in Instruction /\ e.kind = d.kind /\ e.done = d.done /\ e.stale = d.stale
        /\ e.wrong = d.wrong /\ e.history = h
    BY <2>5 DEF Instruction
  <2>7. e # Empty /\ d # Empty
    BY <2>5, <2>6, RecordFacts
  <2> HIDE DEF e
  <2> QED BY <1>2, <2>4, <2>6, <2>7 DEF SameButHistory, d, h
<1>3. CASE ~(lastCall = "inflight" /\ g # <<>> /\ g[1].kind = "restore" /\ i = lastFetched)
  <2>1. WithPushUndone(g, after)[i] = window[i]
    BY <1>1, <1>3 DEF WithPushUndone
  <2> QED BY <1>1, <1>3, <2>1 DEF SameButHistory
<1> QED BY <1>2, <1>3

\* What a fetched group does to the window, by distances.
LEMMA FetchEffect ==
  ASSUME IInv, NEW g \in Groups, FetchGroup(g)
  PROVE  /\ Pointed(lastFetched, lastDecoded, lastScheduled, lastRetired)
         /\ Pointed(lastFetched', lastDecoded', lastScheduled', lastRetired')
         /\ UNCHANGED <<lastDecoded, lastScheduled, lastRetired>>
         /\ Fetched' = Fetched + Len(g) /\ Decoded' = Decoded /\ Scheduled' = Scheduled
         /\ Fetched + Len(g) < RobSize
         /\ \A i \in Slots : Offset(i)' = Offset(i)
         /\ \A i \in Slots : ~(Fetched < Offset(i) /\ Offset(i) <= Fetched + Len(g))
                                => SameButHistory(window'[i], window[i])
         /\ \A i \in Slots : Fetched < Offset(i) /\ Offset(i) <= Fetched + Len(g) =>
                /\ Offset(i) - Fetched \in 1 .. Len(g)
                /\ \E h \in 0 .. Histories - 1 : window'[i] = Inserted(g[Offset(i) - Fetched], h)
         /\ \E after \in HistoryAfter(g) : \E kept \in HistoryKept(g, after) :
                /\ specBPS' = after[Len(g)]
                /\ \A i \in Slots : ~(Fetched < Offset(i) /\ Offset(i) <= Fetched + Len(g))
                                       => window'[i] = WithPushUndone(g, after)[i]
                /\ \A i \in Slots : Fetched < Offset(i) /\ Offset(i) <= Fetched + Len(g) =>
                       window'[i] = Inserted(g[Offset(i) - Fetched], kept[Offset(i) - Fetched])
         /\ window' \in [Slots -> Instruction \cup {Empty}]
         /\ specBPS' \in 0 .. Histories - 1
<1> DEFINE n == Len(g)
<1>1. /\ n \in Nat /\ DOMAIN g = 1 .. n
      /\ \A k \in 1 .. n : g[k].kind \in Kinds /\ g[k].wrong \in BOOLEAN
  BY GroupFacts
<1>2. /\ lastFetched \in Slots /\ lastDecoded \in Slots /\ lastScheduled \in Slots
      /\ lastRetired \in Slots /\ window \in [Slots -> Instruction \cup {Empty}]
  BY TypeFacts DEF IInv, Pointed
<1>3. /\ Fetched \in Nat /\ RobSize \in Nat
      /\ \A i \in Slots : Offset(i) \in Nat /\ Offset(i) < RobSize
  BY PointerFacts DEF IInv
<1>4. UNCHANGED <<lastDecoded, lastScheduled, lastRetired>>
  BY DEF FetchGroup
<1>5. n <= RobSize - 1 - Fetched
  BY DEF FetchGroup, FreeSlots, Fetched
<1>6. Fetched + n < RobSize
  <2> HIDE DEF n
  <2> QED BY <1>1, <1>3, <1>5
<1>7. lastFetched' \in Slots /\ Distance(lastRetired, lastFetched') = Fetched + n
  <2>1. lastFetched' = (lastFetched + n) % RobSize
    BY DEF FetchGroup
  <2> HIDE DEF n
  <2> QED BY <1>1, <1>2, <1>6, <2>1, AdvanceFacts DEF Fetched, Offset
<1>8. /\ Fetched' = Fetched + n /\ Decoded' = Decoded /\ Scheduled' = Scheduled
      /\ \A i \in Slots : Offset(i)' = Offset(i)
  BY <1>4, <1>7 DEF Fetched, Decoded, Scheduled, Offset
<1>9. ASSUME NEW i \in Slots
      PROVE  /\ Distance(lastFetched, i) \in 1 .. n <=> Fetched < Offset(i) /\ Offset(i) <= Fetched + n
             /\ Fetched < Offset(i) => Distance(lastFetched, i) = Offset(i) - Fetched
  <2> DEFINE f == Fetched
             o == Offset(i)
             p == Distance(lastFetched, i)
  <2>1. /\ f <= o => p = o - f
        /\ o < f => p = o - f + RobSize
        /\ f \in Nat /\ o \in Nat /\ RobSize \in Nat /\ n \in Nat /\ f + n < RobSize
    BY <1>1, <1>2, <1>3, <1>6, BetweenFacts DEF Fetched, Offset
  <2> HIDE DEF f, o, p, n
  <2>2. /\ p \in 1 .. n <=> f < o /\ o <= f + n
        /\ f < o => p = o - f
    BY <2>1
  <2> QED BY <2>2 DEF f, o, p
<1>10. PICK after \in HistoryAfter(g) : \E kept \in HistoryKept(g, after) :
          /\ window' = [i \in Slots |->
                 IF Distance(lastFetched, i) \in DOMAIN g
                 THEN Inserted(g[Distance(lastFetched, i)], kept[Distance(lastFetched, i)])
                 ELSE WithPushUndone(g, after)[i]]
          /\ specBPS' = after[Len(g)]
  BY DEF FetchGroup
<1>10a. PICK kept \in HistoryKept(g, after) :
          /\ window' = [i \in Slots |->
                 IF Distance(lastFetched, i) \in DOMAIN g
                 THEN Inserted(g[Distance(lastFetched, i)], kept[Distance(lastFetched, i)])
                 ELSE WithPushUndone(g, after)[i]]
          /\ specBPS' = after[Len(g)]
  BY <1>10
<1>11. after \in [0 .. n -> 0 .. Histories - 1] /\ kept \in [1 .. n -> 0 .. Histories - 1]
  BY DEF HistoryAfter, HistoryKept
<1>12. ASSUME NEW i \in Slots, ~(Fetched < Offset(i) /\ Offset(i) <= Fetched + n)
       PROVE  window'[i] = WithPushUndone(g, after)[i]
  BY <1>1, <1>9, <1>10a, <1>12
<1>13. ASSUME NEW i \in Slots, Fetched < Offset(i), Offset(i) <= Fetched + n
       PROVE  /\ Offset(i) - Fetched \in 1 .. n
              /\ \E h \in 0 .. Histories - 1 : window'[i] = Inserted(g[Offset(i) - Fetched], h)
              /\ window'[i] = Inserted(g[Offset(i) - Fetched], kept[Offset(i) - Fetched])
  <2> DEFINE p == Offset(i) - Fetched
  <2>1. p \in 1 .. n /\ p = Distance(lastFetched, i)
    BY <1>9, <1>13
  <2>2. window'[i] = Inserted(g[p], kept[p])
    BY <1>1, <1>10a, <2>1
  <2>3. kept[p] \in 0 .. Histories - 1
    BY <1>1, <1>11, <2>1
  <2> QED BY <2>1, <2>2, <2>3
<1>14. specBPS' \in 0 .. Histories - 1
  BY <1>1, <1>10a, <1>11
<1>15. ASSUME NEW k \in 1 .. n, NEW h \in 0 .. Histories - 1
       PROVE  Inserted(g[k], h) \in Instruction
  BY <1>1, SizesAssumption DEF Inserted, Instruction
<1>16. window' \in [Slots -> Instruction \cup {Empty}]
  <2>1. \A i \in Slots : window'[i] \in Instruction \cup {Empty}
    BY <1>12, <1>13, <1>15, UndoneFacts
  <2>2. window' = [i \in Slots |-> window'[i]]
    BY <1>10a
  <2> QED BY <2>1, <2>2
<1>17. \E state \in HistoryAfter(g) : \E kp \in HistoryKept(g, state) :
          /\ specBPS' = state[n]
          /\ \A i \in Slots : ~(Fetched < Offset(i) /\ Offset(i) <= Fetched + n)
                                 => window'[i] = WithPushUndone(g, state)[i]
          /\ \A i \in Slots : Fetched < Offset(i) /\ Offset(i) <= Fetched + n =>
                 window'[i] = Inserted(g[Offset(i) - Fetched], kp[Offset(i) - Fetched])
  BY <1>10a, <1>12, <1>13
<1>18. \A i \in Slots : ~(Fetched < Offset(i) /\ Offset(i) <= Fetched + n)
                             => SameButHistory(window'[i], window[i])
  BY <1>12, UndoneFacts
<1> QED BY <1>2, <1>4, <1>6, <1>7, <1>8, <1>13, <1>14, <1>16, <1>17, <1>18 DEF Pointed

\* What fetch inserts has not executed.
LEMMA InsertedFacts ==
  ASSUME NEW g \in Groups, NEW k \in 1 .. Len(g), NEW h
  PROVE  /\ Inserted(g[k], h) # Empty /\ Inserted(g[k], h).kind = g[k].kind
         /\ Inserted(g[k], h).done = FALSE /\ Inserted(g[k], h).stale = FALSE
         /\ Inserted(g[k], h).wrong => Inserted(g[k], h).kind \in ControlKinds
<1>1. g[k].kind \in Kinds /\ (g[k].wrong => g[k].kind \in ControlKinds)
  BY GroupFacts
<1>2. "none" \notin Kinds
  BY SizesAssumption DEF AllKinds
<1> QED BY <1>1, <1>2 DEF Inserted, Empty

LEMMA FetchGroupIInv == ASSUME IInv, NEW g \in Groups, FetchGroup(g) PROVE IInv'
<1> DEFINE n == Len(g)
<1>0. /\ phase = "fetch" /\ phase' = "decode" /\ fetchReady' = 0
      /\ UNCHANGED <<cycle, decodePerCycle, exception, archBPS, retireCount>>
      /\ fetchStatus' \in StatusAfter(g) /\ StatusNow = "ready"
  BY DEF FetchGroup
<1>1. /\ UNCHANGED <<lastDecoded, lastScheduled, lastRetired>>
      /\ Fetched' = Fetched + n /\ Decoded' = Decoded /\ Scheduled' = Scheduled
      /\ Fetched + n < RobSize
      /\ \A i \in Slots : Offset(i)' = Offset(i)
      /\ \A i \in Slots : ~(Fetched < Offset(i) /\ Offset(i) <= Fetched + n)
                             => SameButHistory(window'[i], window[i])
      /\ window' \in [Slots -> Instruction \cup {Empty}]
      /\ specBPS' \in 0 .. Histories - 1
  BY FetchEffect
<1>2. /\ lastFetched \in Slots /\ lastFetched' \in Slots /\ lastRetired \in Slots
      /\ lastDecoded' \in Slots /\ lastScheduled' \in Slots /\ lastRetired' \in Slots
  BY FetchEffect DEF Pointed
<1>3. ASSUME NEW i \in Slots, Fetched < Offset(i), Offset(i) <= Fetched + n
      PROVE  /\ Offset(i) - Fetched \in 1 .. n
             /\ \E h \in 0 .. Histories - 1 : window'[i] = Inserted(g[Offset(i) - Fetched], h)
  BY <1>3, FetchEffect
<1>4. /\ Fetched \in Nat /\ Decoded \in Nat /\ Scheduled \in Nat /\ n \in Nat /\ RobSize \in Nat
      /\ \A i \in Slots : Offset(i) \in Nat
      /\ Scheduled <= Decoded /\ Decoded <= Fetched /\ Scheduled <= WinSize
  BY PointerFacts, GroupFacts DEF IInv, InRing
<1> HIDE DEF n
<1>5. ASSUME NEW i \in Slots, Used(i)'
      PROVE  \/ Used(i) /\ SameButHistory(window'[i], window[i])
             \/ /\ Fetched < Offset(i) /\ Offset(i) <= Fetched + n
                /\ window'[i].done = FALSE /\ window'[i].stale = FALSE /\ window'[i] # Empty
                /\ window'[i].wrong => window'[i].kind \in ControlKinds
                /\ window'[i].kind = g[Offset(i) - Fetched].kind
  <2>1. 0 < Offset(i) /\ Offset(i) <= Fetched + n
    BY <1>1, <1>5 DEF Used
  <2>2. CASE Offset(i) <= Fetched
    <3>1. ~(Fetched < Offset(i))
      BY <1>4, <2>2
    <3> QED BY <1>1, <2>1, <2>2, <3>1 DEF Used
  <2>3. CASE ~(Offset(i) <= Fetched)
    <3>1. Fetched < Offset(i)
      BY <1>4, <2>3
    <3> DEFINE k == Offset(i) - Fetched
    <3>2. k \in 1 .. Len(g)
      BY <1>3, <2>1, <3>1 DEF n
    <3>3. PICK h \in 0 .. Histories - 1 : window'[i] = Inserted(g[k], h)
      BY <1>3, <2>1, <3>1
    <3> DEFINE d == Inserted(g[k], h)
    <3> HIDE DEF k
    <3>4. /\ d # Empty /\ d.kind = g[k].kind /\ d.done = FALSE /\ d.stale = FALSE
          /\ d.wrong => d.kind \in ControlKinds
      BY <3>2, InsertedFacts
    <3> HIDE DEF d
    <3>5. window'[i] = d
      BY <3>3 DEF d
    <3> QED BY <2>1, <3>1, <3>4, <3>5 DEF k
  <2> QED BY <2>2, <2>3
<1>6. ASSUME NEW i \in Slots, Used(i) PROVE Used(i)' /\ SameButHistory(window'[i], window[i])
  <2>1. 0 < Offset(i) /\ Offset(i) <= Fetched
    BY <1>6 DEF Used
  <2> QED BY <1>1, <1>4, <2>1 DEF Used
<1>7. InRing'
  <2>1. ASSUME NEW i \in Slots PROVE window'[i] # Empty <=> Used(i)'
    <3>1. CASE Used(i)'
      BY <1>5, <3>1 DEF IInv, InRing, SameButHistory
    <3>2. CASE ~Used(i)'
      <4>1. ~Used(i)
        BY <1>6, <3>2
      <4>2. ~(Fetched < Offset(i) /\ Offset(i) <= Fetched + n)
        BY <1>1, <1>4, <3>2 DEF Used
      <4> QED BY <1>1, <3>2, <4>1, <4>2 DEF IInv, InRing, SameButHistory
    <3> QED BY <3>1, <3>2
  <2> QED BY <1>1, <1>4, <2>1 DEF InRing
<1>8. Sound' /\ Covered'
  <2>1. Offset(exception.index)' = Offset(exception.index)
    BY <1>0, <1>1 DEF Offset
  <2>2. ASSUME NEW i \in Slots, Used(i)'
        PROVE  /\ window'[i].done \/ window'[i].stale => Offset(i)' <= Scheduled'
               /\ window'[i].wrong => window'[i].kind \in ControlKinds
    BY <1>1, <1>5, <2>2 DEF IInv, Sound, SameButHistory
  <2>3. ASSUME NEW i \in Slots, Used(i)'
        PROVE  /\ window'[i].stale => /\ exception'.type # "none"
                                      /\ Offset(exception.index)' < Offset(i)'
               /\ window'[i].wrong /\ window'[i].done =>
                     \/ exception' = [type |-> "mispredict", index |-> i]
                     \/ exception'.type # "none" /\ Offset(exception.index)' < Offset(i)'
    BY <1>0, <1>1, <1>5, <2>1, <2>3 DEF IInv, Covered, SameButHistory
  <2> QED BY <2>2, <2>3 DEF Sound, Covered
<1>9. ExceptionFits'
  <2>1. exception.type # "none" => exception.index \in Slots /\ Offset(exception.index) <= Scheduled
    BY DEF IInv, ExceptionFits
  <2>2. exception.type # "none" => Offset(exception.index)' = Offset(exception.index)
    BY <1>0, <1>1, <2>1
  <2>3. exception.type # "none" => SameButHistory(window'[exception.index], window[exception.index])
    <3>1. exception.type # "none" => ~(Fetched < Offset(exception.index))
      BY <1>4, <2>1
    <3> QED BY <1>1, <2>1, <3>1
  <2>4. exception.type = "mispredict" => exception.type # "none"
    OBVIOUS
  <2> QED BY <1>0, <1>1, <2>1, <2>2, <2>3, <2>4 DEF IInv, ExceptionFits, SameButHistory
<1>10. fetchStatus \notin Stoppers /\ window[lastFetched].kind \notin Stoppers
  <2>1. fetchStatus \notin Stoppers
    BY <1>0 DEF StatusNow, Stoppers
  <2> QED BY <2>1 DEF IInv, Stopped
<1>11. Stopped' /\ CallKnown' /\ lastCall' \in {"none", "inflight", "gone"}
  <2>1. \A i \in Slots : 0 < Offset(i) /\ Offset(i) <= Fetched => window[i].kind \notin Stoppers
    <3> SUFFICES ASSUME NEW i \in Slots, 0 < Offset(i), Offset(i) <= Fetched
                 PROVE  window[i].kind \notin Stoppers
      OBVIOUS
    <3>1. CASE Offset(i) = Fetched
      <4>1. i = lastFetched
        BY <1>2, <3>1, DistanceDetermines DEF Offset, Fetched
      <4> QED BY <1>10, <4>1
    <3>2. CASE Offset(i) # Fetched
      BY <1>4, <3>2 DEF IInv, Stopped
    <3> QED BY <3>1, <3>2
  <2>2. ASSUME NEW i \in Slots, 0 < Offset(i)', Offset(i)' < Fetched'
        PROVE  window'[i].kind \notin Stoppers
    <3>1. Used(i)' /\ Offset(i) < Fetched + n
      BY <1>1, <1>4, <2>2 DEF Used
    <3>2. CASE Used(i) /\ SameButHistory(window'[i], window[i])
      BY <2>1, <3>2 DEF Used, SameButHistory
    <3>3. CASE /\ Fetched < Offset(i) /\ Offset(i) <= Fetched + n
               /\ window'[i].kind = g[Offset(i) - Fetched].kind
      <4>1. Offset(i) - Fetched \in 1 .. n /\ Offset(i) - Fetched < n
        BY <1>4, <3>1, <3>3
      <4> QED BY <3>3, <4>1, GroupFacts DEF n
    <3> QED BY <1>5, <3>1, <3>2, <3>3
  <2>3. CASE n = 0
    <3>1. lastFetched' = lastFetched
      BY <1>1, <1>2, <1>4, <2>3, DistanceDetermines DEF Fetched, Offset
    <3>2. window'[lastFetched'].kind = window[lastFetched].kind
      <4>1. Offset(lastFetched) = Fetched
        BY DEF Fetched
      <4> QED BY <1>1, <1>2, <1>4, <2>3, <3>1, <4>1 DEF SameButHistory
    <3>3. fetchStatus' \notin Stoppers
      <4>1. g = <<>>
        BY <2>3, GroupFacts DEF n
      <4>2. fetchStatus' \in {"ready", "icachemiss"}
        BY <1>0, <4>1 DEF StatusAfter
      <4> QED BY <4>2 DEF Stoppers
    <3>4. lastCall' = lastCall
      <4>1. g = <<>>
        BY <2>3, GroupFacts DEF n
      <4> QED BY <4>1 DEF FetchGroup
    <3> QED BY <1>10, <2>2, <3>2, <3>3, <3>4, TypeFacts DEF IInv, Stopped, CallKnown
  <2>4. CASE n # 0
    <3>1. Offset(lastFetched') = Fetched + n
      BY <1>1 DEF Fetched, Offset
    <3>2. window'[lastFetched'].kind = g[n].kind
      <4>1. Fetched < Offset(lastFetched') /\ Offset(lastFetched') <= Fetched + n
        BY <1>4, <2>4, <3>1
      <4>2. PICK h \in 0 .. Histories - 1 :
               window'[lastFetched'] = Inserted(g[Offset(lastFetched') - Fetched], h)
        BY <1>2, <1>3, <4>1
      <4>3. Offset(lastFetched') - Fetched = n /\ n \in 1 .. n
        BY <1>4, <2>4, <3>1
      <4>4. Inserted(g[n], h).kind = g[n].kind
        BY <4>3, InsertedFacts DEF n
      <4> QED BY <4>2, <4>3, <4>4
    <3>3. g # <<>>
      BY <2>4, GroupFacts DEF n
    <3>4. fetchStatus' \in IF g[n].kind \in Stoppers THEN {g[n].kind} ELSE {"ready", "icachemiss"}
      BY <1>0, <3>3 DEF StatusAfter, n
    <3>5. "ready" \notin Stoppers /\ "icachemiss" \notin Stoppers
      BY DEF Stoppers
    <3>6. lastCall' = IF g[n].kind = "call" THEN "inflight" ELSE "none"
      BY <3>3 DEF FetchGroup, n
    <3> QED BY <2>2, <3>2, <3>4, <3>5, <3>6 DEF Stopped, CallKnown
  <2> QED BY <2>3, <2>4
<1>12. FetchDue'
  <2>1. Due(fetchPerCycle, FetchRing, 0, FetchStages - 1, cycle, Fetched - Decoded)
    BY <1>0 DEF IInv, FetchDue
  <2>2. cycle \in Nat /\ Sizes(fetchPerCycle, FetchRing)
    BY TypeFacts DEF IInv
  <2> DEFINE m == Fetched - Decoded
  <2>3. m \in Nat /\ m + n = Fetched' - Decoded'
    BY <1>1, <1>4
  <2>4. fetchPerCycle' = [fetchPerCycle EXCEPT ![(cycle + FetchStages) % FetchRing] = n]
    BY DEF FetchGroup, InsertFetched, n
  <2>5. Due(fetchPerCycle', FetchRing, 0, FetchStages, cycle, m + n)
    <3> HIDE DEF m
    <3> QED BY <1>4, <2>1, <2>2, <2>3, <2>4, InsertHolds, RingFacts DEF m
  <2> QED BY <1>0, <2>3, <2>5 DEF FetchDue
<1>13. DecodeDue'
  BY <1>0, <1>1 DEF IInv, DecodeDue
<1>14. fetchStatus' \in Statuses /\ fetchStatus' # "squash"
  BY <1>0 DEF StatusAfter, Statuses, Stoppers
<1>15. Penalty'
  BY <1>14 DEF Penalty
<1>16. TypeOK'
  <2>1. fetchPerCycle' \in [0 .. FetchRing - 1 -> 0 .. RobSize - 1]
    <3>1. fetchPerCycle \in [0 .. FetchRing - 1 -> 0 .. RobSize - 1] /\ n \in 0 .. RobSize - 1
      BY <1>1, <1>4 DEF IInv, TypeOK
    <3> QED BY <3>1 DEF FetchGroup, InsertFetched, n
  <2>2. CycleBound - 1 \in Nat
    BY RingFacts, PowersAre
  <2> QED BY <1>0, <1>1, <1>2, <1>11, <1>14, <2>1, <2>2 DEF IInv, TypeOK, pointers, bps, Statuses
<1> QED BY <1>7, <1>8, <1>9, <1>11, <1>12, <1>13, <1>15, <1>16 DEF IInv

\* Moving one of the two middle indices changes nothing that is said of the
\* window, except where it is.
LEMMA IndexMoved ==
  ASSUME IInv, UNCHANGED <<window, lastFetched, lastRetired, exception, fetchStatus>>,
         phase' # "retire",
         Scheduled <= Scheduled', Scheduled' <= Decoded', Decoded' <= Fetched,
         Scheduled' <= WinSize, Scheduled' \in Nat
  PROVE  /\ InRing' /\ Sound' /\ Covered' /\ ExceptionFits' /\ Stopped'
         /\ lastCall' = lastCall => CallKnown'
<1>1. /\ Fetched' = Fetched
      /\ \A i : Offset(i)' = Offset(i) /\ (Used(i)' <=> Used(i))
      /\ Offset(exception.index)' = Offset(exception.index)
  BY DEF Fetched, Offset, Used
<1>2. InRing'
  BY <1>1 DEF IInv, InRing
<1>3. Covered' /\ Stopped'
  BY <1>1 DEF IInv, Covered, Stopped
<1>4. /\ Scheduled \in Nat /\ \A i \in Slots : Offset(i) \in Nat
  BY PointerFacts DEF IInv
<1>5. Sound'
  <2>1. ASSUME NEW i \in Slots, Used(i)'
        PROVE  /\ window'[i].done \/ window'[i].stale => Offset(i)' <= Scheduled'
               /\ window'[i].wrong => window'[i].kind \in ControlKinds
    <3>1. window[i].done \/ window[i].stale => Offset(i) <= Scheduled
      BY <1>1, <2>1 DEF IInv, Sound
    <3>2. Offset(i) <= Scheduled => Offset(i)' <= Scheduled'
      BY <1>1, <1>4
    <3>3. window[i].wrong => window[i].kind \in ControlKinds
      BY <1>1, <2>1 DEF IInv, Sound
    <3> QED BY <3>1, <3>2, <3>3
  <2> QED BY <2>1 DEF Sound
<1>6. ExceptionFits'
  <2>1. exception.type # "none" =>
           exception.index \in Slots /\ Offset(exception.index) <= Scheduled
    BY DEF IInv, ExceptionFits
  <2>2. exception.type # "none" => Offset(exception.index)' <= Scheduled'
    BY <1>1, <1>4, <2>1
  <2>3. exception.type = "replay" => Offset(exception.index)' < Scheduled'
    <3>1. exception.type = "replay" => Offset(exception.index) < Scheduled
      BY DEF IInv, ExceptionFits
    <3>2. exception.type = "replay" => Offset(exception.index) \in Nat
      BY <1>4, <2>1
    <3> QED BY <1>1, <1>4, <3>1, <3>2
  <2> QED BY <1>1, <2>1, <2>2, <2>3 DEF IInv, ExceptionFits
<1>7. lastCall' = lastCall => CallKnown'
  BY DEF IInv, CallKnown
<1> QED BY <1>2, <1>3, <1>5, <1>6, <1>7

LEMMA DecodeIInv ==
  ASSUME IInv, NEW n \in 0 .. MaxDecode, Decode(n)
  PROVE  IInv' /\ Decoded <= Decoded'
<1> DEFINE due == fetchPerCycle[cycle % FetchRing]
           next == (cycle + 1) % FetchRing
           batch == Fetched - Decoded
           waiting == Decoded - Scheduled
<1>0. /\ phase = "decode" /\ phase' = "schedule" /\ n \in Nat
      /\ UNCHANGED <<cycle, window, exception, fetchStatus, fetchReady, lastCall, specBPS, archBPS,
                     retireCount, lastFetched, lastScheduled, lastRetired>>
      /\ n <= Min({due, MaxDecode})
      /\ lastDecoded' = (lastDecoded + n) % RobSize
      /\ fetchPerCycle' = CarryOver(fetchPerCycle, next, due - n)
      /\ decodePerCycle' = [decodePerCycle EXCEPT ![(cycle + DecodeStages) % DecodeRing] = n]
  BY DEF Decode, fetching, bps
<1>1. /\ Pointed(lastFetched, lastDecoded, lastScheduled, lastRetired)
      /\ cycle \in Nat /\ Sizes(fetchPerCycle, FetchRing) /\ Sizes(decodePerCycle, DecodeRing)
  BY TypeFacts DEF IInv
<1>2. /\ Fetched \in Nat /\ Fetched < RobSize /\ Decoded \in Nat /\ Scheduled \in Nat
      /\ Scheduled <= Decoded /\ Decoded <= Fetched /\ Scheduled <= WinSize /\ RobSize \in Nat
  BY PointerFacts DEF IInv, InRing
<1>3. due \in Nat /\ n <= due
  <2>1. cycle % FetchRing \in 0 .. FetchRing - 1
    BY <1>1, RingFacts, PowersAre
  <2>2. due \in Nat /\ MaxDecode \in Nat
    <3> DEFINE p == cycle % FetchRing
    <3> HIDE DEF p
    <3>1. fetchPerCycle[p] \in Nat
      BY <1>1, <2>1, SlotFacts DEF Sizes, p
    <3> QED BY <3>1, SizesAssumption DEF p
  <2> HIDE DEF due
  <2>3. Min({due, MaxDecode}) = IF due <= MaxDecode THEN due ELSE MaxDecode
    BY <2>2, OfTwo
  <2> QED BY <1>0, <2>2, <2>3
<1>4. batch \in Slots /\ batch \in Nat /\ waiting \in Nat
  BY <1>2, SlotFacts
<1>5. /\ n <= batch
      /\ Due(fetchPerCycle', FetchRing, 1, FetchStages, cycle, batch - n)
      /\ Sizes(fetchPerCycle', FetchRing)
  <2>1. Due(fetchPerCycle, FetchRing, 0, FetchStages, cycle, batch)
    BY <1>0 DEF IInv, FetchDue
  <2> HIDE DEF batch
  <2> QED BY <1>0, <1>1, <1>3, <1>4, <2>1, TakeHolds, RingFacts
<1>6. lastDecoded' \in Slots /\ Decoded' = Decoded + n /\ Fetched' = Fetched /\ Scheduled' = Scheduled
  <2>1. Decoded + n < RobSize
    BY <1>0, <1>2, <1>5
  <2>2. lastDecoded' \in Slots /\ Distance(lastRetired, lastDecoded') = Decoded + n
    BY <1>0, <1>1, <2>1, AdvanceFacts DEF Pointed, Decoded, Offset
  <2> QED BY <1>0, <2>2 DEF Decoded, Fetched, Scheduled, Offset
<1>7. InRing' /\ Sound' /\ Covered' /\ ExceptionFits' /\ Stopped' /\ CallKnown'
  <2>1. /\ Scheduled <= Scheduled' /\ Scheduled' <= Decoded' /\ Decoded' <= Fetched
        /\ Scheduled' <= WinSize /\ Scheduled' \in Nat
    BY <1>0, <1>2, <1>5, <1>6
  <2> QED BY <1>0, <2>1, IndexMoved
<1>8. FetchDue'
  <2>1. batch - n = Fetched' - Decoded'
    BY <1>0, <1>2, <1>6
  <2> QED BY <1>0, <1>5, <2>1 DEF FetchDue
<1>9. DecodeDue'
  <2>1. Due(decodePerCycle, DecodeRing, 0, DecodeStages - 1, cycle, waiting)
    BY <1>0 DEF IInv, DecodeDue
  <2>2. waiting + n = Decoded' - Scheduled'
    BY <1>0, <1>2, <1>6
  <2>3. Due(decodePerCycle', DecodeRing, 0, DecodeStages, cycle, waiting + n)
    <3> HIDE DEF waiting
    <3> QED BY <1>0, <1>1, <1>4, <2>1, InsertHolds, RingFacts
  <2> QED BY <1>0, <2>2, <2>3 DEF DecodeDue
<1>10. Penalty'
  BY <1>0 DEF IInv, Penalty
<1>11. TypeOK'
  <2>1. decodePerCycle' \in [0 .. DecodeRing - 1 -> 0 .. RobSize - 1]
    <3>1. n \in 0 .. RobSize - 1
      BY <1>0, <1>2, <1>5
    <3> QED BY <1>0, <1>1, <3>1 DEF Sizes
  <2>2. fetchPerCycle' \in [0 .. FetchRing - 1 -> 0 .. RobSize - 1]
    BY <1>5 DEF Sizes
  <2> QED BY <1>0, <1>1, <1>6, <2>1, <2>2 DEF IInv, TypeOK, pointers, bps, Pointed
<1>12. Decoded <= Decoded'
  BY <1>0, <1>2, <1>6
<1> QED BY <1>7, <1>8, <1>9, <1>10, <1>11, <1>12 DEF IInv

LEMMA ScheduleIInv == IInv /\ Schedule => IInv' /\ Scheduled <= Scheduled'
<1> SUFFICES ASSUME IInv, Schedule PROVE IInv' /\ Scheduled <= Scheduled'
  OBVIOUS
<1> DEFINE due == decodePerCycle[cycle % DecodeRing]
           room == Max({WinSize - Scheduled, 0})
           n == Min({due, MaxDispatch, room})
           next == (cycle + 1) % DecodeRing
           waiting == Decoded - Scheduled
<1>0. /\ phase = "schedule" /\ phase' = "recover"
      /\ UNCHANGED <<cycle, window, exception, fetchStatus, fetchReady, lastCall, specBPS, archBPS,
                     retireCount, lastFetched, lastDecoded, lastRetired, fetchPerCycle>>
      /\ lastScheduled' = (lastScheduled + n) % RobSize
      /\ decodePerCycle' = CarryOver(decodePerCycle, next, due - n)
  BY DEF Schedule, fetching, bps, Scheduled
<1>1. /\ Pointed(lastFetched, lastDecoded, lastScheduled, lastRetired)
      /\ cycle \in Nat /\ Sizes(decodePerCycle, DecodeRing)
  BY TypeFacts DEF IInv
<1>2. /\ Decoded \in Nat /\ Decoded < RobSize /\ Scheduled \in Nat /\ Fetched \in Nat
      /\ Scheduled <= Decoded /\ Decoded <= Fetched /\ Scheduled <= WinSize /\ RobSize \in Nat
      /\ WinSize \in Nat
  BY PointerFacts, SlotFacts DEF IInv, InRing
<1>3. due \in Nat
  <2> DEFINE p == cycle % DecodeRing
  <2>1. p \in 0 .. DecodeRing - 1
    BY <1>1, RingFacts, PowersAre
  <2> HIDE DEF p
  <2>2. decodePerCycle[p] \in Nat
    BY <1>1, <2>1, SlotFacts DEF Sizes
  <2> QED BY <2>2 DEF p
<1>4. n \in Nat /\ n <= due /\ Scheduled + n <= WinSize
  <2>1. WinSize - Scheduled \in Nat /\ MaxDispatch \in Nat
    BY <1>2, SizesAssumption
  <2>2. room = WinSize - Scheduled
    <3> DEFINE w == WinSize - Scheduled
    <3>1. Max({w, 0}) = IF w <= 0 THEN 0 ELSE w
      BY <2>1, OfTwo
    <3>2. w \in Nat
      BY <2>1
    <3> HIDE DEF w
    <3>3. Max({w, 0}) = w
      BY <3>1, <3>2
    <3> QED BY <3>3 DEF w
  <2>3. room \in Nat
    BY <2>1, <2>2
  <2> HIDE DEF due, room
  <2>4. n \in Nat /\ n <= due /\ n <= room
    BY <1>3, <2>1, <2>3, OfThree
  <2> HIDE DEF n
  <2> QED BY <1>2, <2>2, <2>3, <2>4
<1> HIDE DEF n
<1>5. waiting \in Slots /\ waiting \in Nat
  BY <1>2, SlotFacts
<1>6. /\ n <= waiting
      /\ Due(decodePerCycle', DecodeRing, 1, DecodeStages, cycle, waiting - n)
      /\ Sizes(decodePerCycle', DecodeRing)
  <2>1. Due(decodePerCycle, DecodeRing, 0, DecodeStages, cycle, waiting)
    BY <1>0 DEF IInv, DecodeDue
  <2> HIDE DEF waiting
  <2> QED BY <1>0, <1>1, <1>4, <1>5, <2>1, TakeHolds, RingFacts
<1>7. lastScheduled' \in Slots /\ Scheduled' = Scheduled + n /\ Fetched' = Fetched /\ Decoded' = Decoded
  <2>1. Scheduled + n < RobSize
    BY <1>2, <1>4, <1>6
  <2>2. lastScheduled' \in Slots /\ Distance(lastRetired, lastScheduled') = Scheduled + n
    BY <1>0, <1>1, <1>4, <2>1, AdvanceFacts DEF Pointed, Scheduled, Offset
  <2> QED BY <1>0, <2>2 DEF Decoded, Fetched, Scheduled, Offset
<1>8. InRing' /\ Sound' /\ Covered' /\ ExceptionFits' /\ Stopped' /\ CallKnown'
  <2>1. /\ Scheduled <= Scheduled' /\ Scheduled' <= Decoded' /\ Decoded' <= Fetched
        /\ Scheduled' <= WinSize /\ Scheduled' \in Nat
    BY <1>2, <1>4, <1>6, <1>7
  <2> QED BY <1>0, <2>1, IndexMoved
<1>9. FetchDue'
  BY <1>0, <1>7 DEF IInv, FetchDue
<1>10. DecodeDue'
  <2>1. waiting - n = Decoded' - Scheduled'
    BY <1>2, <1>4, <1>7
  <2> QED BY <1>0, <1>6, <2>1 DEF DecodeDue
<1>11. Penalty'
  BY <1>0 DEF IInv, Penalty
<1>12. TypeOK'
  <2>1. decodePerCycle' \in [0 .. DecodeRing - 1 -> 0 .. RobSize - 1]
    BY <1>6 DEF Sizes
  <2> QED BY <1>0, <1>1, <1>7, <2>1 DEF IInv, TypeOK, pointers, bps, Pointed
<1>13. Scheduled <= Scheduled'
  BY <1>2, <1>4, <1>7
<1> QED BY <1>8, <1>9, <1>10, <1>11, <1>12, <1>13 DEF IInv

-----------------------------------------------------------------------------
(***************************************************************************)
(* Squash and retirement.                                                  *)
(***************************************************************************)

\* Among some slots one is the closest to a slot, looking either way.
LEMMA ClosestExist ==
  ASSUME NEW r \in Slots, NEW S, S \subseteq Slots, S # {}
  PROVE  /\ \E i \in S : \A j \in S : Distance(r, i) <= Distance(r, j)
         /\ \E i \in S : \A j \in S : Distance(i, r) <= Distance(j, r)
<1> DEFINE behind == {Distance(r, i) + 1 : i \in S}
           before == {Distance(i, r) + 1 : i \in S}
<1>1. /\ RobSize \in Nat
      /\ \A i \in S : Distance(r, i) \in Nat /\ Distance(r, i) < RobSize
      /\ \A i \in S : Distance(i, r) \in Nat /\ Distance(i, r) < RobSize
  BY SlotFacts, DistanceFacts
<1>2. behind \subseteq 1 .. RobSize /\ before \subseteq 1 .. RobSize /\ behind # {} /\ before # {}
  BY <1>1
<1>3. /\ \E x \in behind : \A y \in behind : x <= y
      /\ \E x \in before : \A y \in before : x <= y
  <2> HIDE DEF behind, before
  <2> QED BY <1>1, <1>2, LeastExists
<1>4. PICK i \in S : \A y \in behind : Distance(r, i) + 1 <= y
  BY <1>3
<1>5. \A j \in S : Distance(r, i) <= Distance(r, j)
  <2> SUFFICES ASSUME NEW j \in S PROVE Distance(r, i) <= Distance(r, j)
    OBVIOUS
  <2>1. Distance(r, i) + 1 <= Distance(r, j) + 1
    BY <1>4
  <2> QED BY <1>1, <2>1
<1>6. PICK k \in S : \A y \in before : Distance(k, r) + 1 <= y
  BY <1>3
<1>7. \A j \in S : Distance(k, r) <= Distance(j, r)
  <2> SUFFICES ASSUME NEW j \in S PROVE Distance(k, r) <= Distance(j, r)
    OBVIOUS
  <2>1. Distance(k, r) + 1 <= Distance(j, r) + 1
    BY <1>6
  <2> QED BY <1>1, <2>1
<1> QED BY <1>5, <1>7

\* Two slots at the same distance before one are the same.
LEMMA DistanceDeterminesBefore ==
  ASSUME NEW r \in Slots, NEW i \in Slots, NEW j \in Slots, Distance(i, r) = Distance(j, r)
  PROVE  i = j
<1>1. /\ i <= r => Distance(i, r) = r - i
      /\ r < i => Distance(i, r) = r - i + RobSize
      /\ j <= r => Distance(j, r) = r - j
      /\ r < j => Distance(j, r) = r - j + RobSize
      /\ r \in Nat /\ r < RobSize /\ i \in Nat /\ i < RobSize
      /\ j \in Nat /\ j < RobSize /\ RobSize \in Nat
  BY DistanceFacts
<1> QED BY <1>1

ControlsOf(win, retired, good) == {i \in Walk(good, retired) : win[i].kind \in ControlKinds}

\* The predictor state a squash restores is that of the youngest control left.
LEMMA RestoredFacts ==
  ASSUME NEW win \in [Slots -> Instruction \cup {Empty}], NEW retired \in Slots,
         NEW good \in Slots, NEW arch
  PROVE  /\ ControlsOf(win, retired, good) = {} => Restored(win, retired, good, arch) = arch
         /\ \A i \in ControlsOf(win, retired, good) :
                (\A j \in ControlsOf(win, retired, good) : Distance(i, good) <= Distance(j, good))
                    => Restored(win, retired, good, arch) = win[i].history
         /\ ControlsOf(win, retired, good) # {} =>
                \E i \in ControlsOf(win, retired, good) :
                   /\ \A j \in ControlsOf(win, retired, good) : Distance(i, good) <= Distance(j, good)
                   /\ Restored(win, retired, good, arch) = win[i].history
                   /\ win[i].history \in 0 .. Histories - 1
<1> DEFINE C == ControlsOf(win, retired, good)
           Youngest(i) == \A j \in C : Distance(i, good) <= Distance(j, good)
<1>1. C \subseteq Slots
  BY DEF ControlsOf, Walk
<1>2. C = {} => Restored(win, retired, good, arch) = arch
  BY DEF Restored, ControlsOf
<1>3. C # {} => Restored(win, retired, good, arch) = win[CHOOSE i \in C : Youngest(i)].history
  BY DEF Restored, ControlsOf
<1>4. \A i, j \in C : Youngest(i) /\ Youngest(j) => i = j
  <2> SUFFICES ASSUME NEW i \in C, NEW j \in C, Youngest(i), Youngest(j) PROVE i = j
    OBVIOUS
  <2>1. Distance(i, good) <= Distance(j, good) /\ Distance(j, good) <= Distance(i, good)
    OBVIOUS
  <2>2. Distance(i, good) \in Nat /\ Distance(j, good) \in Nat /\ i \in Slots /\ j \in Slots
    BY <1>1, DistanceFacts
  <2>3. Distance(i, good) = Distance(j, good)
    BY <2>1, <2>2
  <2> QED BY <2>2, <2>3, DistanceDeterminesBefore
<1>5. \A i \in C : Youngest(i) => (CHOOSE k \in C : Youngest(k)) = i
  <2> HIDE DEF C, Youngest
  <2> QED BY <1>4
<1>6. \A i \in C : Youngest(i) => Restored(win, retired, good, arch) = win[i].history
  <2> HIDE DEF C, Youngest
  <2> QED BY <1>3, <1>5
<1>7. \A i \in C : win[i].history \in 0 .. Histories - 1
  <2> SUFFICES ASSUME NEW i \in C PROVE win[i].history \in 0 .. Histories - 1
    OBVIOUS
  <2>1. win[i].kind \in ControlKinds /\ win[i] \in Instruction \cup {Empty}
    BY <1>1 DEF ControlsOf
  <2>2. win[i] \in Instruction
    BY <2>1, RecordFacts
  <2> QED BY <2>2 DEF Instruction
<1>8. C # {} => \E i \in C : Youngest(i)
  <2> HIDE DEF C
  <2> QED BY <1>1, ClosestExist
<1> QED BY <1>2, <1>6, <1>7, <1>8

\* What a squash does, when it cuts off only what is behind a scheduled place.
LEMMA SquashEffect ==
  ASSUME TypeOK, NEW win \in [Slots -> Instruction \cup {Empty}], NEW retired \in Slots,
         NEW good \in Slots, NEW arch \in 0 .. Histories - 1,
         PartialSquash(win, retired, good, arch),
         Distance(retired, good) <= Distance(retired, lastScheduled),
         Distance(retired, lastScheduled) <= Distance(retired, lastDecoded),
         Distance(retired, lastDecoded) <= Distance(retired, lastFetched)
  PROVE  /\ lastFetched' = good /\ lastDecoded' = good /\ lastScheduled' = good
         /\ window' \in [Slots -> Instruction \cup {Empty}]
         /\ \A i \in Slots : window'[i] =
                IF /\ Distance(retired, good) < Distance(retired, i)
                   /\ Distance(retired, i) <= Distance(retired, lastFetched)
                THEN Empty ELSE win[i]
         /\ specBPS' = Restored(win, retired, good, arch)
         /\ specBPS' \in 0 .. Histories - 1
         /\ fetchPerCycle' = [s \in 0 .. FetchRing - 1 |-> 0]
         /\ decodePerCycle' = [s \in 0 .. DecodeRing - 1 |-> 0]
         /\ \/ /\ fetchStatus' = "squash" /\ MispredPenalty # 0
               /\ fetchReady' = (cycle + MispredPenalty) % CycleBound
            \/ fetchStatus' = "ready" /\ fetchReady' = 0
         /\ lastCall' \in {"none", "inflight", "gone"}
         /\ lastCall' = "inflight" =>
                lastCall = "inflight" /\ good = lastFetched /\ win[good] # Empty
<1>1. /\ lastFetched \in Slots /\ lastDecoded \in Slots /\ lastScheduled \in Slots
  BY TypeFacts DEF Pointed
<1> DEFINE G == Distance(retired, good)
           F == Distance(retired, lastFetched)
           D == Distance(retired, lastDecoded)
           S == Distance(retired, lastScheduled)
           gone == Walk(lastFetched, lastDecoded) \cup Walk(lastDecoded, good)
<1>2. G \in Nat /\ F \in Nat /\ D \in Nat /\ S \in Nat /\ G <= D /\ G <= S /\ D <= F
  <2>1. G \in Nat /\ F \in Nat /\ D \in Nat /\ S \in Nat
    BY <1>1, DistanceFacts
  <2>2. G <= S /\ S <= D /\ D <= F
    OBVIOUS
  <2> HIDE DEF G, S, D, F
  <2> QED BY <2>1, <2>2
<1>3. \A i \in Slots : i \in gone <=> G < Distance(retired, i) /\ Distance(retired, i) <= F
  <2> SUFFICES ASSUME NEW i \in Slots
               PROVE  i \in gone <=> G < Distance(retired, i) /\ Distance(retired, i) <= F
    OBVIOUS
  <2> DEFINE d == Distance(retired, i)
  <2>1. i \in Walk(lastFetched, lastDecoded) <=> D < d /\ d <= F
    BY <1>1, <1>2, WalkFacts
  <2>2. i \in Walk(lastDecoded, good) <=> G < d /\ d <= D
    BY <1>1, <1>2, WalkFacts
  <2>3. d \in Nat
    BY DistanceFacts
  <2> HIDE DEF d, G, D, F
  <2>4. (D < d /\ d <= F) \/ (G < d /\ d <= D) <=> G < d /\ d <= F
    BY <1>2, <2>3
  <2> QED BY <2>1, <2>2, <2>4 DEF d
<1>4. RangeOverlap(retired, lastScheduled, good)
  BY <1>1, <1>2, OverlapFacts
<1>5. /\ window' = [i \in Slots |-> IF i \in gone THEN Empty ELSE win[i]]
      /\ lastFetched' = good /\ lastDecoded' = good /\ lastScheduled' = good
      /\ specBPS' = Restored(win, retired, good, arch)
      /\ fetchPerCycle' = [s \in 0 .. FetchRing - 1 |-> 0]
      /\ decodePerCycle' = [s \in 0 .. DecodeRing - 1 |-> 0]
  BY <1>4 DEF PartialSquash
<1>6. \/ /\ fetchStatus' = "squash" /\ MispredPenalty # 0
         /\ fetchReady' = (cycle + MispredPenalty) % CycleBound
      \/ fetchStatus' = "ready" /\ fetchReady' = 0
  BY DEF PartialSquash
<1>7. specBPS' \in 0 .. Histories - 1
  <2>1. CASE ControlsOf(win, retired, good) = {}
    BY <1>5, <2>1, RestoredFacts
  <2>2. CASE ControlsOf(win, retired, good) # {}
    BY <1>5, <2>2, RestoredFacts
  <2> QED BY <2>1, <2>2
<1>8. window' \in [Slots -> Instruction \cup {Empty}]
  <2> HIDE DEF gone
  <2> QED BY <1>5
<1>9. \A i \in Slots : window'[i] =
         IF G < Distance(retired, i) /\ Distance(retired, i) <= F THEN Empty ELSE win[i]
  <2> HIDE DEF gone, G, F
  <2> QED BY <1>3, <1>5
<1>10. /\ lastCall' \in {"none", "inflight", "gone"}
       /\ lastCall' = "inflight" =>
              lastCall = "inflight" /\ good = lastFetched /\ win[good] # Empty
  <2>1. lastCall' = IF good = lastFetched /\ win[good] # Empty THEN lastCall
                    ELSE IF lastCall = "none" THEN "none" ELSE "gone"
    BY DEF PartialSquash, CallDeleted
  <2>2. lastCall \in {"none", "inflight", "gone"}
    BY TypeFacts
  <2> QED BY <2>1, <2>2
<1> QED BY <1>5, <1>6, <1>7, <1>8, <1>9, <1>10

\* After a squash nothing is due and fetch is stopped by nothing but the penalty.
LEMMA SquashedIInv ==
  ASSUME IInv, cycle' = cycle, phase' \in {"retire", "execute"}, retireCount' \in 0 .. MaxRetire - 1,
         exception' = NoException,
         NEW good \in Slots, lastFetched' = good, lastDecoded' = good, lastScheduled' = good,
         lastRetired' \in Slots, archBPS' \in 0 .. Histories - 1, specBPS' \in 0 .. Histories - 1,
         window' \in [Slots -> Instruction \cup {Empty}],
         Scheduled' <= WinSize,
         \A i \in Slots : window'[i] # Empty <=> Used(i)',
         \A i \in Slots : Used(i)' => /\ ~window'[i].stale
                                      /\ ~(window'[i].wrong /\ window'[i].done)
                                      /\ window'[i].wrong => window'[i].kind \in ControlKinds
                                      /\ window'[i].kind \notin Stoppers,
         fetchPerCycle' = [s \in 0 .. FetchRing - 1 |-> 0],
         decodePerCycle' = [s \in 0 .. DecodeRing - 1 |-> 0],
         \/ /\ fetchStatus' = "squash" /\ MispredPenalty # 0
            /\ fetchReady' = (cycle + MispredPenalty) % CycleBound
         \/ fetchStatus' = "ready" /\ fetchReady' = 0,
         lastCall' \in {"none", "inflight", "gone"}, CallKnown'
  PROVE  IInv'
<1>1. cycle \in 0 .. CycleBound - 1 /\ CycleBound \in Nat \ {0} /\ cycle \in Nat
  BY TypeFacts, RingFacts, PowersAre DEF IInv
<1>2. /\ Fetched' = Scheduled' /\ Decoded' = Scheduled' /\ Scheduled' \in Nat
      /\ \A i \in Slots : Offset(i)' \in Nat
  BY DistanceFacts DEF Fetched, Decoded, Scheduled, Offset
<1>3. InRing'
  BY <1>2 DEF InRing
<1>4. Fetched' - Decoded' = 0 /\ Decoded' - Scheduled' = 0
  <2>1. \A s \in Nat : s - s = 0
    OBVIOUS
  <2> QED BY Zenon, <1>2, <2>1
<1>5. FetchDue'
  <2>1. FetchStages \in Nat /\ 1 <= FetchStages + 1
    BY RingFacts
  <2>2. Due(fetchPerCycle', FetchRing, 1, FetchStages, cycle, 0)
    BY <1>1, <2>1, FlushedHolds, RingFacts
  <2>3. phase' \notin {"fetch", "decode"} /\ phase' # "fetch"
    OBVIOUS
  <2> QED BY <1>4, <2>2, <2>3 DEF FetchDue
<1>6. DecodeDue'
  <2>1. DecodeStages \in Nat /\ 1 <= DecodeStages + 1
    BY RingFacts
  <2>2. Due(decodePerCycle', DecodeRing, 1, DecodeStages, cycle, 0)
    BY <1>1, <2>1, FlushedHolds, RingFacts
  <2>3. phase' \notin {"fetch", "decode", "schedule"} /\ phase' \notin {"fetch", "decode"}
    OBVIOUS
  <2> QED BY <1>4, <2>2, <2>3 DEF DecodeDue
<1>7. ExceptionFits'
  BY RecordFacts DEF ExceptionFits
<1>8. Sound' /\ Covered'
  <2>1. \A i \in Slots : Used(i)' => Offset(i)' <= Scheduled'
    BY <1>2 DEF Used
  <2> QED BY <2>1 DEF Sound, Covered
<1>9. Stopped'
  <2>1. fetchStatus' \notin Stoppers
    BY DEF Stoppers
  <2>2. \A i \in Slots : window'[i].kind \notin Stoppers
    BY RecordFacts
  <2> QED BY <2>1, <2>2 DEF Stopped
<1> DEFINE a == cycle + MispredPenalty
           m == a % CycleBound
<1>10. /\ MispredPenalty \in Nat /\ MispredPenalty < CycleBound
       /\ m = IF a < CycleBound THEN a ELSE a - CycleBound
  <2>1. MispredPenalty \in Nat /\ MispredPenalty < CycleBound
    BY RingFacts
  <2>2. a \in 0 .. 2 * CycleBound - 1
    BY <1>1, <2>1
  <2> HIDE DEF a
  <2> QED BY <1>1, <2>1, <2>2, Wrap
<1>11. fetchReady' \in 0 .. CycleBound - 1
  <2> HIDE DEF m
  <2>1. m \in 0 .. CycleBound - 1
    BY <1>1, <1>10
  <2> QED BY <1>1, <2>1 DEF m
<1>12. Penalty'
  <2>1. CASE fetchStatus' = "squash"
    <3> DEFINE b == (m - cycle + CycleBound) % CycleBound
    <3>1. m \in 0 .. CycleBound - 1
      BY <1>11, <2>1
    <3> HIDE DEF m
    <3>2. b = IF cycle <= m THEN m - cycle ELSE m - cycle + CycleBound
      BY <1>1, <3>1, PenaltyFacts
    <3> HIDE DEF b
    <3>3. MispredPenalty # 0
      BY <2>1
    <3>4. b \in 1 .. MispredPenalty
      BY <1>1, <1>10, <3>1, <3>2, <3>3
    <3>5. (fetchReady' - cycle' + CycleBound) % CycleBound = b
      BY <2>1 DEF b, m
    <3>6. phase' # "fetch"
      OBVIOUS
    <3> QED BY <3>4, <3>5, <3>6 DEF Penalty
  <2>2. CASE fetchStatus' # "squash"
    BY <2>2 DEF Penalty
  <2> QED BY <2>1, <2>2
<1>13. TypeOK'
  <2>1. /\ fetchPerCycle' \in [0 .. FetchRing - 1 -> 0 .. RobSize - 1]
        /\ decodePerCycle' \in [0 .. DecodeRing - 1 -> 0 .. RobSize - 1]
    BY SlotFacts
  <2>2. phase' \in {"fetch", "decode", "schedule", "recover", "retire", "execute"}
    OBVIOUS
  <2>3. fetchStatus' \in {"ready", "squash", "icachemiss", "itlbmiss", "barrier"}
    OBVIOUS
  <2> QED BY <1>1, <1>11, <2>1, <2>2, <2>3 DEF TypeOK, pointers, bps
<1> QED BY <1>3, <1>5, <1>6, <1>7, <1>8, <1>9, <1>12, <1>13 DEF IInv

LEMMA RecoverIInv == IInv /\ Recover => IInv'
<1> SUFFICES ASSUME IInv, Recover PROVE IInv'
  OBVIOUS
<1>0. /\ phase = "recover" /\ phase' = "retire" /\ retireCount' = 0
      /\ exception' = NoException /\ UNCHANGED <<cycle, archBPS, lastRetired>>
  BY DEF Recover, ClearException, pointers
<1>1. /\ lastFetched \in Slots /\ lastDecoded \in Slots /\ lastScheduled \in Slots
      /\ lastRetired \in Slots /\ archBPS \in 0 .. Histories - 1
      /\ window \in [Slots -> Instruction \cup {Empty}]
      /\ exception \in [type : {"mispredict", "replay"}, index : Slots] \cup {NoException}
  BY TypeFacts DEF IInv, Pointed
<1>2. /\ Fetched \in Nat /\ Decoded \in Nat /\ Scheduled \in Nat /\ WinSize \in Nat
      /\ Scheduled <= Decoded /\ Decoded <= Fetched /\ Scheduled <= WinSize
      /\ \A i \in Slots : Offset(i) \in Nat
  BY PointerFacts, SlotFacts DEF IInv, InRing
<1>3. CASE exception.type = "none"
  <2>1. exception = NoException
    BY <1>1, <1>3
  <2>2. UNCHANGED <<window, fetchPerCycle, decodePerCycle, fetchStatus, fetchReady, lastCall,
                 specBPS>>
    BY <1>3 DEF Recover, batches, fetching
  <2>3. UNCHANGED <<lastFetched, lastDecoded, lastScheduled>>
    BY <1>3 DEF Recover, pointers
  <2>4. /\ InRing' /\ Sound' /\ Covered' /\ Stopped' /\ CallKnown'
        /\ Fetched' = Fetched /\ Decoded' = Decoded /\ Scheduled' = Scheduled
    BY <1>0, <2>1, <2>2, <2>3, WindowKept
  <2>5. ExceptionFits'
    BY <1>0, RecordFacts DEF ExceptionFits
  <2>6. FetchDue' /\ DecodeDue' /\ Penalty'
    BY <1>0, <2>2, <2>4 DEF IInv, FetchDue, DecodeDue, Penalty
  <2>7. TypeOK'
    BY <1>0, <2>2, <2>3, SizesAssumption DEF IInv, TypeOK, pointers, bps
  <2> QED BY <2>4, <2>5, <2>6, <2>7 DEF IInv
<1>4. CASE exception.type # "none"
  <2> DEFINE good == exception.index
             win == IF exception.type = "mispredict"
                    THEN [window EXCEPT ![good].wrong = FALSE] ELSE window
  <2>1. /\ good \in Slots /\ Offset(good) <= Scheduled
        /\ exception.type = "mispredict" => 0 < Offset(good) /\ window[good].kind \in ControlKinds
        /\ exception.type = "replay" => Offset(good) < Scheduled
        /\ exception.type \in {"mispredict", "replay"}
    BY <1>1, <1>4, RecordFacts DEF IInv, ExceptionFits
  <2>2. exception.type = "mispredict" =>
           /\ window[good] \in Instruction /\ Used(good)
           /\ [window[good] EXCEPT !.wrong = FALSE] \in Instruction
    <3>1. exception.type = "mispredict" => window[good] \in Instruction
      BY <1>1, <2>1, RecordFacts
    <3>2. \A d \in Instruction : [d EXCEPT !.wrong = FALSE] \in Instruction
      BY DEF Instruction
    <3>3. exception.type = "mispredict" => Used(good)
      BY <2>1, <3>1, RecordFacts DEF IInv, InRing
    <3> QED BY <3>1, <3>2, <3>3
  <2> HIDE DEF good
  <2>3. win \in [Slots -> Instruction \cup {Empty}]
    BY <1>1, <2>1, <2>2
  <2>4. \A i \in Slots : i # good => win[i] = window[i]
    BY <1>1, <2>1
  <2>5. /\ win[good] = Empty <=> window[good] = Empty
        /\ win[good].kind = window[good].kind
        /\ win[good].stale = window[good].stale
        /\ win[good].wrong => window[good].wrong /\ exception.type # "mispredict"
        /\ win[good].done = window[good].done
    <3>1. CASE exception.type = "mispredict"
      <4>1. win[good] = [window[good] EXCEPT !.wrong = FALSE]
        BY <1>1, <2>1, <3>1
      <4>2. win[good] # Empty /\ window[good] # Empty
        BY <2>2, <3>1, <4>1, RecordFacts
      <4>3. \A d \in Instruction : LET e == [d EXCEPT !.wrong = FALSE] IN
               /\ e.kind = d.kind /\ e.stale = d.stale /\ e.done = d.done /\ e.wrong = FALSE
        BY DEF Instruction
      <4> HIDE DEF win
      <4> QED BY <2>2, <3>1, <4>1, <4>2, <4>3
    <3>2. CASE exception.type # "mispredict"
      BY <3>2
    <3> QED BY <3>1, <3>2
  <2>6. PartialSquash(win, lastRetired, good, archBPS)
    BY <1>4 DEF Recover, good
  <2> HIDE DEF win
  <2>7. /\ lastFetched' = good /\ lastDecoded' = good /\ lastScheduled' = good
        /\ window' \in [Slots -> Instruction \cup {Empty}]
        /\ \A i \in Slots : window'[i] =
               IF Offset(good) < Offset(i) /\ Offset(i) <= Fetched THEN Empty ELSE win[i]
        /\ specBPS' \in 0 .. Histories - 1
        /\ fetchPerCycle' = [s \in 0 .. FetchRing - 1 |-> 0]
        /\ decodePerCycle' = [s \in 0 .. DecodeRing - 1 |-> 0]
        /\ \/ /\ fetchStatus' = "squash" /\ MispredPenalty # 0
              /\ fetchReady' = (cycle + MispredPenalty) % CycleBound
           \/ fetchStatus' = "ready" /\ fetchReady' = 0
        /\ lastCall' \in {"none", "inflight", "gone"}
        /\ lastCall' = "inflight" =>
               lastCall = "inflight" /\ good = lastFetched /\ win[good] # Empty
    <3>1. TypeOK
      BY DEF IInv
    <3>2. /\ Distance(lastRetired, good) <= Distance(lastRetired, lastScheduled)
          /\ Distance(lastRetired, lastScheduled) <= Distance(lastRetired, lastDecoded)
          /\ Distance(lastRetired, lastDecoded) <= Distance(lastRetired, lastFetched)
      BY <1>2, <2>1 DEF Scheduled, Decoded, Fetched, Offset
    <3> QED BY <1>1, <2>1, <2>3, <2>6, <3>1, <3>2, SquashEffect DEF Offset, Fetched
  <2>8. /\ \A i : Offset(i)' = Distance(lastRetired, i)
        /\ \A i : Used(i)' <=> 0 < Offset(i) /\ Offset(i) <= Offset(good)
        /\ Scheduled' = Offset(good)
    BY <1>0, <2>7 DEF Offset, Used, Fetched, Scheduled
  <2>9. ASSUME NEW i \in Slots PROVE window'[i] # Empty <=> Used(i)'
    <3>1. Offset(i) \in Nat /\ Offset(good) \in Nat /\ Offset(good) <= Fetched
      BY <1>2, <2>1
    <3>2. win[i] = Empty <=> ~(0 < Offset(i) /\ Offset(i) <= Fetched)
      <4>1. window[i] = Empty <=> ~(0 < Offset(i) /\ Offset(i) <= Fetched)
        BY DEF IInv, InRing, Used
      <4> QED BY <2>4, <2>5, <4>1
    <3> QED BY <1>2, <2>7, <2>8, <3>1, <3>2
  <2>10. ASSUME NEW i \in Slots, Used(i)'
         PROVE  /\ ~window'[i].stale
                /\ ~(window'[i].wrong /\ window'[i].done)
                /\ window'[i].wrong => window'[i].kind \in ControlKinds
                /\ window'[i].kind \notin Stoppers
    <3>1. /\ Offset(i) \in Nat /\ Offset(good) \in Nat /\ Offset(good) <= Fetched
          /\ 0 < Offset(i) /\ Offset(i) <= Offset(good) /\ Used(i)
          /\ ~(Offset(good) < Offset(i))
      BY <1>2, <2>1, <2>8, <2>10 DEF Used
    <3>2. window'[i] = win[i]
      BY <2>7, <3>1
    <3>3. ~window[i].stale
      BY <3>1 DEF IInv, Covered, good
    <3>4. window[i].wrong /\ window[i].done => i = good /\ exception.type = "mispredict"
      BY <3>1 DEF IInv, Covered, good
    <3>5. window[i].wrong => window[i].kind \in ControlKinds
      BY <3>1 DEF IInv, Sound
    <3>6. window[i].kind \notin Stoppers
      <4>1. CASE Offset(i) < Fetched
        BY <3>1, <4>1 DEF IInv, Stopped
      <4>2. CASE ~(Offset(i) < Fetched)
        <5>1. Offset(good) = Offset(i) /\ ~(Offset(good) < Scheduled)
          BY <1>2, <2>1, <3>1, <4>2
        <5>2. i = good
          BY <1>1, <2>1, <5>1, DistanceDetermines DEF Offset
        <5>3. window[i].kind \in ControlKinds
          BY <2>1, <5>1, <5>2
        <5> QED BY <5>3 DEF Stoppers, ControlKinds
      <4> QED BY <4>1, <4>2
    <3>7. CASE i # good
      BY <2>4, <3>2, <3>3, <3>4, <3>5, <3>6, <3>7
    <3>8. CASE i = good
      BY <2>5, <3>2, <3>3, <3>4, <3>5, <3>6, <3>8
    <3> QED BY <3>7, <3>8
  <2>11. Scheduled' <= WinSize
    BY <1>2, <2>1, <2>8
  <2>12. retireCount' \in 0 .. MaxRetire - 1
    BY <1>0, SizesAssumption
  <2>13. phase' \in {"retire", "execute"} /\ archBPS' \in 0 .. Histories - 1 /\ lastRetired' \in Slots
    BY <1>0, <1>1
  <2>14. CallKnown'
    <3>1. ~(Offset(good) < Offset(good))
      BY <1>2, <2>1
    <3>2. window'[good] = win[good]
      BY <2>1, <2>7, <3>1
    <3> QED BY <2>5, <2>7, <3>2 DEF IInv, CallKnown
  <2> QED BY <1>0, <2>1, <2>7, <2>9, <2>10, <2>11, <2>12, <2>13, <2>14, SquashedIInv
<1> QED BY <1>3, <1>4

\* The oldest instruction when it can retire: it is next to the last retired, and
\* from its slot every other is one closer.
LEMMA OldestFacts ==
  ASSUME IInv, OldestDone
  PROVE  /\ Oldest \in Slots /\ Oldest # lastRetired /\ window[Oldest] \in Instruction
         /\ Offset(Oldest) = 1 /\ 1 <= Scheduled /\ Used(Oldest)
         /\ \A i \in Slots : Distance(Oldest, i) =
                IF i = lastRetired THEN RobSize - 1 ELSE Offset(i) - 1
         /\ Distance(Oldest, lastFetched) = Fetched - 1
         /\ Distance(Oldest, lastDecoded) = Decoded - 1
         /\ Distance(Oldest, lastScheduled) = Scheduled - 1
<1>1. /\ lastFetched \in Slots /\ lastDecoded \in Slots /\ lastScheduled \in Slots
      /\ lastRetired \in Slots /\ window \in [Slots -> Instruction \cup {Empty}]
  BY TypeFacts DEF IInv, Pointed
<1>2. /\ Fetched \in Nat /\ Decoded \in Nat /\ Scheduled \in Nat /\ RobSize \in Nat
      /\ Scheduled <= Decoded /\ Decoded <= Fetched /\ RobSize >= 1
      /\ \A i \in Slots : Offset(i) \in Nat /\ Offset(i) < RobSize
      /\ Offset(lastRetired) = 0
  BY PointerFacts, SlotFacts DEF IInv, InRing
<1>3. /\ Oldest \in Slots
      /\ \A i \in Slots : Distance(Oldest, i) = IF i = lastRetired THEN RobSize - 1 ELSE Offset(i) - 1
      /\ RobSize > 1 => Offset(Oldest) = 1
  BY <1>1, IncFacts DEF Oldest, Offset
<1>4. window[Oldest] # Empty /\ window[Oldest].done
  BY DEF OldestDone
<1>5. Used(Oldest)
  BY <1>3, <1>4 DEF IInv, InRing
<1>6. Offset(Oldest) = 1
  <2>1. 0 < Offset(Oldest) /\ Offset(Oldest) < RobSize /\ Offset(Oldest) \in Nat
    BY <1>2, <1>3, <1>5 DEF Used
  <2> QED BY <1>2, <1>3, <2>1
<1>7. 1 <= Scheduled
  <2>1. Offset(Oldest) <= Scheduled
    BY <1>3, <1>4, <1>5 DEF IInv, Sound
  <2> QED BY <1>6, <2>1
<1>8. lastFetched # lastRetired /\ lastDecoded # lastRetired /\ lastScheduled # lastRetired
  <2>1. Fetched # 0 /\ Decoded # 0 /\ Scheduled # 0
    BY <1>2, <1>7
  <2> QED BY <1>2, <2>1 DEF Fetched, Decoded, Scheduled
<1>9. Oldest # lastRetired
  BY <1>2, <1>6
<1>10. /\ Distance(Oldest, lastFetched) = Fetched - 1
       /\ Distance(Oldest, lastDecoded) = Decoded - 1
       /\ Distance(Oldest, lastScheduled) = Scheduled - 1
  BY <1>1, <1>3, <1>8 DEF Fetched, Decoded, Scheduled
<1> QED BY <1>1, <1>3, <1>4, <1>5, <1>6, <1>7, <1>9, <1>10

LEMMA RetiredHistory ==
  ASSUME IInv, OldestDone
  PROVE  ArchAfterOldest \in 0 .. Histories - 1
<1>1. window[Oldest] \in Instruction /\ archBPS \in 0 .. Histories - 1
  BY OldestFacts, TypeFacts DEF IInv
<1>2. window[Oldest].history \in 0 .. Histories - 1
  BY <1>1 DEF Instruction
<1>3. \A h \in 0 .. Histories - 1 : Pop(h) \in 0 .. Histories - 1
  BY SizesAssumption DEF Pop
<1> QED BY <1>1, <1>2, <1>3 DEF ArchAfterOldest

LEMMA RetireAndSquashIInv == ASSUME IInv, NEW traps \in BOOLEAN, RetireAndSquash(traps) PROVE IInv'
<1>0. /\ phase = "retire" /\ OldestDone /\ lastRetired' = Oldest
      /\ archBPS' = (IF traps THEN archBPS ELSE ArchAfterOldest)
      /\ PartialSquash(WithoutOldest, Oldest, Oldest, archBPS')
      /\ retireCount' = 0 /\ phase' = "execute" /\ UNCHANGED <<cycle, exception>>
  BY DEF RetireAndSquash
<1>1. /\ lastRetired \in Slots /\ archBPS \in 0 .. Histories - 1
      /\ window \in [Slots -> Instruction \cup {Empty}]
  BY TypeFacts DEF IInv, Pointed
<1>2. /\ Fetched \in Nat /\ Decoded \in Nat /\ Scheduled \in Nat /\ WinSize \in Nat /\ RobSize \in Nat
      /\ Scheduled <= Decoded /\ Decoded <= Fetched /\ Scheduled <= WinSize
      /\ \A i \in Slots : Offset(i) \in Nat
  BY PointerFacts, SlotFacts DEF IInv, InRing
<1>3. /\ Oldest \in Slots /\ Offset(Oldest) = 1 /\ Oldest # lastRetired /\ Used(Oldest)
      /\ \A i \in Slots : Distance(Oldest, i) =
             IF i = lastRetired THEN RobSize - 1 ELSE Offset(i) - 1
      /\ Distance(Oldest, lastFetched) = Fetched - 1
      /\ Distance(Oldest, lastDecoded) = Decoded - 1
      /\ Distance(Oldest, lastScheduled) = Scheduled - 1 /\ 1 <= Scheduled
  BY <1>0, OldestFacts
<1>4. WithoutOldest \in [Slots -> Instruction \cup {Empty}]
  BY <1>1, <1>3 DEF WithoutOldest
<1>5. archBPS' \in 0 .. Histories - 1
  BY <1>0, <1>1, RetiredHistory
<1>6. Distance(Oldest, Oldest) = 0
  BY <1>3, DistanceDetermines
<1>7. /\ lastFetched' = Oldest /\ lastDecoded' = Oldest /\ lastScheduled' = Oldest
      /\ window' \in [Slots -> Instruction \cup {Empty}]
      /\ \A i \in Slots : window'[i] =
             IF /\ Distance(Oldest, Oldest) < Distance(Oldest, i)
                /\ Distance(Oldest, i) <= Distance(Oldest, lastFetched)
             THEN Empty ELSE WithoutOldest[i]
      /\ specBPS' \in 0 .. Histories - 1
      /\ fetchPerCycle' = [s \in 0 .. FetchRing - 1 |-> 0]
      /\ decodePerCycle' = [s \in 0 .. DecodeRing - 1 |-> 0]
      /\ \/ /\ fetchStatus' = "squash" /\ MispredPenalty # 0
            /\ fetchReady' = (cycle + MispredPenalty) % CycleBound
         \/ fetchStatus' = "ready" /\ fetchReady' = 0
      /\ lastCall' \in {"none", "inflight", "gone"}
      /\ lastCall' = "inflight" => WithoutOldest[Oldest] # Empty
  <2>1. /\ Distance(Oldest, Oldest) <= Distance(Oldest, lastScheduled)
        /\ Distance(Oldest, lastScheduled) <= Distance(Oldest, lastDecoded)
        /\ Distance(Oldest, lastDecoded) <= Distance(Oldest, lastFetched)
    BY <1>2, <1>3, <1>6
  <2>2. TypeOK
    BY DEF IInv
  <2> QED BY <1>0, <1>3, <1>4, <1>5, <2>1, <2>2, SquashEffect
<1>8. ASSUME NEW i \in Slots PROVE window'[i] = Empty
  <2>1. CASE i = Oldest
    <3>1. WithoutOldest[i] = Empty
      BY <1>1, <1>3, <2>1 DEF WithoutOldest
    <3> QED BY <1>7, <3>1
  <2>2. CASE i # Oldest /\ ~Used(i)
    <3>1. window[i] = Empty
      BY <2>2 DEF IInv, InRing
    <3>2. WithoutOldest[i] = Empty
      BY <1>1, <1>3, <2>2, <3>1 DEF WithoutOldest
    <3> QED BY <1>7, <3>2
  <2>3. CASE i # Oldest /\ Used(i)
    <3>1. 0 < Offset(i) /\ Offset(i) <= Fetched
      BY <2>3 DEF Used
    <3>2. Offset(i) # 1 /\ i # lastRetired
      <4>1. Offset(i) = Offset(Oldest) => i = Oldest
        BY <1>1, <1>3, DistanceDetermines DEF Offset
      <4>2. Offset(lastRetired) = 0
        BY PointerFacts DEF IInv
      <4>3. Offset(i) # 0
        BY <1>2, <3>1
      <4> QED BY <1>3, <2>3, <4>1, <4>2, <4>3
    <3>3. 0 < Distance(Oldest, i) /\ Distance(Oldest, i) <= Distance(Oldest, lastFetched)
      BY <1>2, <1>3, <3>1, <3>2
    <3> QED BY <1>6, <1>7, <3>3
  <2> QED BY <2>1, <2>2, <2>3
<1>9. Scheduled' = 0 /\ \A i \in Slots : ~Used(i)'
  <2>1. Scheduled' = 0 /\ Fetched' = 0
    BY <1>0, <1>6, <1>7 DEF Scheduled, Fetched, Offset
  <2>2. \A i \in Slots : Offset(i)' \in Nat
    BY <1>0, <1>3, DistanceFacts DEF Offset
  <2> QED BY <2>1, <2>2 DEF Used
<1>10. exception' = NoException
  BY <1>0 DEF IInv, ExceptionFits
<1>11. retireCount' \in 0 .. MaxRetire - 1 /\ Scheduled' <= WinSize
  BY <1>0, <1>2, <1>9, SizesAssumption
<1>12. CallKnown'
  <2>1. WithoutOldest[Oldest] = Empty
    BY <1>1, <1>3 DEF WithoutOldest
  <2> QED BY <1>7, <2>1 DEF CallKnown
<1>13. \A i \in Slots : window'[i] # Empty <=> Used(i)'
  BY <1>8, <1>9
<1> QED BY <1>0, <1>3, <1>5, <1>7, <1>9, <1>10, <1>11, <1>12, <1>13, SquashedIInv

\* What the retirement of the oldest does to the window, by distances.
LEMMA RetireOneEffect ==
  ASSUME IInv, RetireOne
  PROVE  /\ Fetched' = Fetched - 1 /\ Decoded' = Decoded - 1 /\ Scheduled' = Scheduled - 1
         /\ \A i \in Slots : Offset(i)' = IF i = lastRetired THEN RobSize - 1 ELSE Offset(i) - 1
         /\ \A i \in Slots : Offset(i) = 1 => i = Oldest
         /\ \A i \in Slots : /\ Used(i)' <=> Used(i) /\ i # Oldest
                             /\ Used(i)' => Offset(i)' = Offset(i) - 1 /\ 1 < Offset(i)
         /\ \A i \in Slots : i # Oldest => window'[i] = window[i]
         /\ window'[Oldest] = Empty
         /\ window' \in [Slots -> Instruction \cup {Empty}]
<1>0. /\ phase = "retire" /\ OldestDone /\ window[Oldest].kind # "itlbmiss"
      /\ window' = WithoutOldest /\ lastRetired' = Oldest
      /\ archBPS' = ArchAfterOldest /\ specBPS' = SpecAfterOldest
      /\ fetchStatus' = StatusAfterRetire(window[Oldest])
      /\ UNCHANGED <<cycle, lastFetched, lastDecoded, lastScheduled, fetchPerCycle,
                     decodePerCycle, fetchReady, exception>>
  BY DEF RetireOne, batches
<1>1. /\ lastFetched \in Slots /\ lastDecoded \in Slots /\ lastScheduled \in Slots
      /\ lastRetired \in Slots /\ specBPS \in 0 .. Histories - 1
      /\ window \in [Slots -> Instruction \cup {Empty}]
  BY TypeFacts DEF IInv, Pointed
<1>2. /\ Fetched \in Nat /\ Decoded \in Nat /\ Scheduled \in Nat /\ WinSize \in Nat /\ RobSize \in Nat
      /\ Scheduled <= Decoded /\ Decoded <= Fetched /\ Scheduled <= WinSize /\ Fetched < RobSize
      /\ \A i \in Slots : Offset(i) \in Nat
      /\ Offset(lastRetired) = 0
  BY PointerFacts, SlotFacts DEF IInv, InRing
<1>3. /\ Oldest \in Slots /\ Offset(Oldest) = 1 /\ Oldest # lastRetired /\ Used(Oldest)
      /\ \A i \in Slots : Distance(Oldest, i) =
             IF i = lastRetired THEN RobSize - 1 ELSE Offset(i) - 1
      /\ Distance(Oldest, lastFetched) = Fetched - 1
      /\ Distance(Oldest, lastDecoded) = Decoded - 1
      /\ Distance(Oldest, lastScheduled) = Scheduled - 1 /\ 1 <= Scheduled
  BY <1>0, OldestFacts
<1>4. /\ Fetched' = Fetched - 1 /\ Decoded' = Decoded - 1 /\ Scheduled' = Scheduled - 1
      /\ \A i \in Slots : Offset(i)' = IF i = lastRetired THEN RobSize - 1 ELSE Offset(i) - 1
  BY <1>0, <1>3 DEF Fetched, Decoded, Scheduled, Offset
<1>6. \A i \in Slots : Offset(i) = 1 => i = Oldest
  BY <1>1, <1>3, DistanceDetermines DEF Offset
<1>7. ASSUME NEW i \in Slots
      PROVE  /\ Used(i)' <=> Used(i) /\ i # Oldest
             /\ Used(i)' => Offset(i)' = Offset(i) - 1 /\ 1 < Offset(i)
  <2>1. CASE i = lastRetired
    BY <1>2, <1>4, <2>1 DEF Used
  <2>2. CASE i # lastRetired
    <3>1. Offset(i)' = Offset(i) - 1 /\ Offset(i) \in Nat
      BY <1>2, <1>4, <2>2
    <3>2. (0 < Offset(i) - 1 /\ Offset(i) - 1 <= Fetched - 1)
              <=> (0 < Offset(i) /\ Offset(i) <= Fetched /\ Offset(i) # 1)
      BY <1>2, <3>1
    <3>3. Offset(i) # 1 <=> i # Oldest
      BY <1>3, <1>6
    <3>4. Used(i)' <=> (0 < Offset(i) - 1 /\ Offset(i) - 1 <= Fetched - 1)
      BY <1>4, <3>1 DEF Used
    <3>5. Used(i) <=> (0 < Offset(i) /\ Offset(i) <= Fetched)
      BY DEF Used
    <3>6. 0 < Offset(i) - 1 => 1 < Offset(i)
      BY <3>1
    <3> QED BY <3>1, <3>2, <3>3, <3>4, <3>5, <3>6
  <2> QED BY <2>1, <2>2
<1>8. /\ \A i \in Slots : i # Oldest => window'[i] = window[i]
      /\ window'[Oldest] = Empty
      /\ window' \in [Slots -> Instruction \cup {Empty}]
  BY <1>0, <1>1, <1>3 DEF WithoutOldest
<1> QED BY <1>4, <1>6, <1>7, <1>8

LEMMA RetireOneIInv == IInv /\ RetireOne => IInv'
<1> SUFFICES ASSUME IInv, RetireOne PROVE IInv'
  OBVIOUS
<1>0. /\ phase = "retire" /\ OldestDone /\ window[Oldest].kind # "itlbmiss"
      /\ window' = WithoutOldest /\ lastRetired' = Oldest
      /\ archBPS' = ArchAfterOldest /\ specBPS' = SpecAfterOldest
      /\ fetchStatus' = StatusAfterRetire(window[Oldest])
      /\ UNCHANGED <<cycle, lastFetched, lastDecoded, lastScheduled, fetchPerCycle,
                     decodePerCycle, fetchReady, exception>>
      /\ lastCall' = IF Oldest = lastFetched THEN CallDeleted ELSE lastCall
  BY DEF RetireOne, batches
<1>1. /\ lastFetched \in Slots /\ lastDecoded \in Slots /\ lastScheduled \in Slots
      /\ lastRetired \in Slots /\ specBPS \in 0 .. Histories - 1
      /\ window \in [Slots -> Instruction \cup {Empty}]
  BY TypeFacts DEF IInv, Pointed
<1>2. /\ Fetched \in Nat /\ Decoded \in Nat /\ Scheduled \in Nat /\ WinSize \in Nat /\ RobSize \in Nat
      /\ Scheduled <= Decoded /\ Decoded <= Fetched /\ Scheduled <= WinSize /\ Fetched < RobSize
      /\ \A i \in Slots : Offset(i) \in Nat
      /\ Offset(lastRetired) = 0
  BY PointerFacts, SlotFacts DEF IInv, InRing
<1>3. /\ Oldest \in Slots /\ Offset(Oldest) = 1 /\ Oldest # lastRetired /\ Used(Oldest)
      /\ \A i \in Slots : Distance(Oldest, i) =
             IF i = lastRetired THEN RobSize - 1 ELSE Offset(i) - 1
      /\ Distance(Oldest, lastFetched) = Fetched - 1
      /\ Distance(Oldest, lastDecoded) = Decoded - 1
      /\ Distance(Oldest, lastScheduled) = Scheduled - 1 /\ 1 <= Scheduled
  BY <1>0, OldestFacts
<1>4. /\ Fetched' = Fetched - 1 /\ Decoded' = Decoded - 1 /\ Scheduled' = Scheduled - 1
      /\ \A i \in Slots : Offset(i)' = IF i = lastRetired THEN RobSize - 1 ELSE Offset(i) - 1
  BY RetireOneEffect
<1>5. /\ Fetched' - Decoded' = Fetched - Decoded /\ Decoded' - Scheduled' = Decoded - Scheduled
  BY <1>2, <1>4
<1>6. \A i \in Slots : Offset(i) = 1 => i = Oldest
  BY RetireOneEffect
<1>7. \A i \in Slots : /\ Used(i)' <=> Used(i) /\ i # Oldest
                       /\ Used(i)' => Offset(i)' = Offset(i) - 1 /\ 1 < Offset(i)
  BY RetireOneEffect
<1>8. /\ \A i \in Slots : i # Oldest => window'[i] = window[i]
      /\ window'[Oldest] = Empty
      /\ window' \in [Slots -> Instruction \cup {Empty}]
  BY RetireOneEffect
<1>9. InRing'
  <2>1. \A i \in Slots : window'[i] # Empty <=> Used(i)'
    BY <1>7, <1>8 DEF IInv, InRing
  <2>2. Scheduled' <= Decoded' /\ Decoded' <= Fetched' /\ Scheduled' <= WinSize
    BY <1>2, <1>4
  <2> QED BY <2>1, <2>2 DEF InRing
<1>10. /\ exception = NoException /\ exception' = NoException
       /\ phase' \in {"retire", "execute"} /\ retireCount' \in 0 .. MaxRetire - 1
  <2>1. exception = NoException
    BY <1>0 DEF IInv, ExceptionFits
  <2>2. phase' \in {"retire", "execute"}
    BY DEF RetireOne
  <2>3. retireCount \in 0 .. MaxRetire - 1 /\ MaxRetire \in Nat \ {0}
    BY TypeFacts, SizesAssumption DEF IInv
  <2>4. IF retireCount + 1 >= MaxRetire THEN retireCount' = 0 ELSE retireCount' = retireCount + 1
    BY DEF RetireOne
  <2> QED BY <1>0, <2>1, <2>2, <2>3, <2>4
<1>11. FetchDue' /\ DecodeDue'
  <2>1. /\ phase \notin {"fetch", "decode", "schedule"} /\ phase' \notin {"fetch", "decode", "schedule"}
        /\ phase # "fetch" /\ phase' # "fetch" /\ phase \notin {"fetch", "decode"}
        /\ phase' \notin {"fetch", "decode"}
    BY <1>0, <1>10
  <2>2. /\ Due(fetchPerCycle, FetchRing, 1, FetchStages, cycle, Fetched - Decoded)
        /\ Due(decodePerCycle, DecodeRing, 1, DecodeStages, cycle, Decoded - Scheduled)
    BY <2>1 DEF IInv, FetchDue, DecodeDue
  <2> QED BY <1>0, <1>5, <2>1, <2>2 DEF FetchDue, DecodeDue
<1>12. ExceptionFits'
  BY <1>10, RecordFacts DEF ExceptionFits
<1>13. Sound'
  <2> SUFFICES ASSUME NEW i \in Slots, Used(i)'
               PROVE  /\ window'[i].done \/ window'[i].stale => Offset(i)' <= Scheduled'
                      /\ window'[i].wrong => window'[i].kind \in ControlKinds
    BY DEF Sound
  <2>1. Used(i) /\ i # Oldest /\ Offset(i)' = Offset(i) - 1 /\ Offset(i) \in Nat
    BY <1>2, <1>7
  <2>2. /\ window[i].done \/ window[i].stale => Offset(i) <= Scheduled
        /\ window[i].wrong => window[i].kind \in ControlKinds
    BY <2>1 DEF IInv, Sound
  <2>3. Offset(i) <= Scheduled => Offset(i)' <= Scheduled'
    BY <1>2, <1>4, <2>1
  <2> QED BY <1>8, <2>1, <2>2, <2>3
<1>14. Covered'
  <2> SUFFICES ASSUME NEW i \in Slots, Used(i)'
               PROVE  ~window'[i].stale /\ ~(window'[i].wrong /\ window'[i].done)
    BY DEF Covered
  <2>1. Used(i) /\ i # Oldest
    BY <1>7
  <2>2. ~window[i].stale /\ ~(window[i].wrong /\ window[i].done)
    BY <1>10, <2>1 DEF IInv, Covered, NoException
  <2> QED BY <1>8, <2>1, <2>2
<1>15. Stopped'
  <2>1. window[Oldest].kind \in Stoppers => lastFetched = Oldest
    <3>1. window[Oldest].kind \in Stoppers => ~(Offset(Oldest) < Fetched)
      BY <1>3 DEF IInv, Stopped
    <3>2. Fetched # 1 => 1 < Fetched
      BY <1>2, <1>3
    <3> QED BY <1>1, <1>3, <1>6, <3>1, <3>2 DEF Fetched
  <2>2. ASSUME NEW i \in Slots, 0 < Offset(i)', Offset(i)' < Fetched'
        PROVE  window'[i].kind \notin Stoppers
    <3>1. CASE i = Oldest
      BY <1>8, <3>1, RecordFacts
    <3>2. CASE i = lastRetired
      BY <1>2, <1>4, <2>2, <3>2
    <3>3. CASE i # Oldest /\ i # lastRetired
      <4>1. 0 < Offset(i) /\ Offset(i) < Fetched
        BY <1>2, <1>4, <2>2, <3>3
      <4>2. window[i].kind \notin Stoppers
        BY <4>1 DEF IInv, Stopped
      <4> QED BY <1>8, <3>3, <4>2
    <3> QED BY <3>1, <3>2, <3>3
  <2>3. CASE lastFetched = Oldest
    <3>1. window'[lastFetched'].kind \notin Stoppers
      BY <1>0, <1>8, <2>3, RecordFacts
    <3>2. fetchStatus' \notin Stoppers
      <4>1. fetchStatus \in Stoppers => window[Oldest].kind \in Stoppers
        BY <2>3 DEF IInv, Stopped
      <4> QED BY <1>0, <4>1 DEF StatusAfterRetire, Stoppers
    <3> QED BY <2>2, <3>1, <3>2 DEF Stopped
  <2>4. CASE lastFetched # Oldest
    <3>1. window[Oldest].kind # "barrier" /\ fetchStatus' = fetchStatus
      BY <1>0, <2>1, <2>4 DEF StatusAfterRetire, Stoppers
    <3>2. window'[lastFetched'] = window[lastFetched]
      BY <1>0, <1>1, <1>8, <2>4
    <3> QED BY <2>2, <3>1, <3>2 DEF IInv, Stopped
  <2> QED BY <2>3, <2>4
<1>16. Penalty'
  <2>1. fetchStatus' = "squash" => fetchStatus = "squash"
    BY <1>0 DEF StatusAfterRetire
  <2>2. phase # "fetch" /\ phase' # "fetch"
    BY <1>0, <1>10
  <2> QED BY <1>0, <2>1, <2>2 DEF IInv, Penalty
<1>17. lastCall' \in {"none", "inflight", "gone"} /\ CallKnown'
  <2>1. lastCall \in {"none", "inflight", "gone"}
    BY TypeFacts DEF IInv
  <2>2. CASE Oldest = lastFetched
    BY <1>0, <2>1, <2>2 DEF CallDeleted, CallKnown
  <2>3. CASE Oldest # lastFetched
    <3>1. window'[lastFetched'] = window[lastFetched] /\ lastCall' = lastCall
      BY <1>0, <1>1, <1>8, <2>3
    <3> QED BY <2>1, <3>1 DEF IInv, CallKnown
  <2> QED BY <2>2, <2>3
<1>18. TypeOK'
  <2>1. archBPS' \in 0 .. Histories - 1 /\ specBPS' \in 0 .. Histories - 1
    BY <1>0, <1>1, RetiredHistory DEF SpecAfterOldest
  <2>2. fetchStatus' \in Statuses
    BY <1>0, TypeFacts DEF IInv, StatusAfterRetire, Statuses
  <2>3. phase' \in {"fetch", "decode", "schedule", "recover", "retire", "execute"}
    BY <1>10
  <2>4. /\ fetchPerCycle' \in [0 .. FetchRing - 1 -> 0 .. RobSize - 1]
        /\ decodePerCycle' \in [0 .. DecodeRing - 1 -> 0 .. RobSize - 1]
        /\ cycle' \in 0 .. CycleBound - 1 /\ fetchReady' \in 0 .. CycleBound - 1
    BY <1>0 DEF IInv, TypeOK
  <2>5. pointers' \in Slots \X Slots \X Slots \X Slots /\ bps' \in (0 .. Histories - 1) \X (0 .. Histories - 1)
    BY <1>0, <1>1, <1>3, <2>1 DEF pointers, bps
  <2> QED BY <1>8, <1>10, <1>17, <2>2, <2>3, <2>4, <2>5 DEF TypeOK, Statuses
<1> QED BY <1>9, <1>11, <1>12, <1>13, <1>14, <1>15, <1>16, <1>17, <1>18 DEF IInv

-----------------------------------------------------------------------------
(***************************************************************************)
(* Completion.                                                             *)
(***************************************************************************)

\* Of the exception pending and the one raised the older stays, at one place a
\* misprediction.
LEMMA RaiseFacts ==
  ASSUME IInv, NEW type \in {"mispredict", "replay"}, NEW x \in Slots,
         NEW raised, raised = RaiseException(type, x)
  PROVE  /\ raised.type # "none" /\ raised.index \in Slots
         /\ \/ raised = [type |-> type, index |-> x]
            \/ raised = exception /\ exception.type # "none"
         /\ Offset(raised.index) <= Offset(x)
         /\ exception.type # "none" =>
                exception.index \in Slots /\ Offset(raised.index) <= Offset(exception.index)
         /\ type = "mispredict" =>
                raised = [type |-> type, index |-> x] \/ Offset(raised.index) < Offset(x)
         /\ exception.type = "mispredict" =>
                raised = exception \/ Offset(raised.index) < Offset(exception.index)
<1> DEFINE new == [type |-> type, index |-> x]
<1>1. /\ exception \in [type : {"mispredict", "replay"}, index : Slots] \cup {NoException}
      /\ lastRetired \in Slots
  BY TypeFacts DEF IInv, Pointed
<1>2. /\ new.type = type /\ new.type # "none" /\ new.index = x
      /\ exception.type # "none" =>
             /\ exception \in [type : {"mispredict", "replay"}, index : Slots]
             /\ exception.index \in Slots /\ Offset(exception.index) \in Nat
      /\ Offset(x) \in Nat
  BY <1>1, PointerFacts, RecordFacts DEF IInv
<1>3. CASE raised = new
  <2>1. \/ exception.type = "none"
        \/ Offset(x) - Offset(exception.index) < 0
        \/ x = exception.index /\ type = "mispredict"
        \/ raised = exception
    BY <1>3 DEF RaiseException, RangeSubtract
  <2>2. exception.type # "none" => Offset(x) <= Offset(exception.index)
    <3>1. CASE raised = exception
      BY <1>2, <1>3, <3>1
    <3>2. CASE raised # exception
      BY <1>2, <2>1, <3>2
    <3> QED BY <3>1, <3>2
  <2>3. exception.type = "mispredict" => new = exception \/ Offset(x) < Offset(exception.index)
    <3> SUFFICES ASSUME exception.type = "mispredict", raised # exception,
                        ~(Offset(x) < Offset(exception.index))
                 PROVE  new = exception
      BY <1>3
    <3>1. x = exception.index /\ type = "mispredict"
      BY <1>2, <2>1
    <3> QED BY <1>2, <3>1
  <2> HIDE DEF new
  <2> QED BY <1>2, <1>3, <2>2, <2>3 DEF new
<1>4. CASE raised # new
  <2>1. /\ exception.type # "none" /\ raised = exception
        /\ ~(Offset(x) - Offset(exception.index) < 0)
        /\ ~(x = exception.index /\ type = "mispredict")
    BY <1>4 DEF RaiseException, RangeSubtract
  <2>2. Offset(exception.index) <= Offset(x)
    BY <1>2, <2>1
  <2>3. type = "mispredict" => Offset(exception.index) < Offset(x)
    <3>1. Offset(exception.index) = Offset(x) => x = exception.index
      BY <1>1, <1>2, <2>1, DistanceDetermines DEF Offset
    <3> QED BY <1>2, <2>1, <2>2, <3>1
  <2> QED BY <1>2, <2>1, <2>2, <2>3
<1> QED BY <1>3, <1>4

\* What completes was scheduled, and so were the younger ones it finds stale.
LEMMA ExecutingFacts ==
  ASSUME IInv, NEW i \in Executing
  PROVE  /\ i \in Slots /\ 0 < Offset(i) /\ Offset(i) <= Scheduled /\ Used(i)
         /\ window[i] \in Instruction
         /\ \A j \in Replayable(i) :
               /\ j \in Slots /\ Offset(i) < Offset(j) /\ Offset(j) <= Scheduled
               /\ Used(j) /\ window[j] \in Instruction
<1>1. /\ lastScheduled \in Slots /\ lastRetired \in Slots
      /\ window \in [Slots -> Instruction \cup {Empty}]
  BY TypeFacts DEF IInv, Pointed
<1>2. /\ Fetched \in Nat /\ Decoded \in Nat /\ Scheduled \in Nat
      /\ Scheduled <= Decoded /\ Decoded <= Fetched
      /\ \A j \in Slots : Offset(j) \in Nat
      /\ Offset(lastRetired) = 0
  BY PointerFacts DEF IInv, InRing
<1>3. i \in Slots /\ 0 < Offset(i) /\ Offset(i) <= Scheduled
  <2>1. i \in Walk(lastScheduled, lastRetired)
    BY DEF Executing
  <2>2. Distance(lastRetired, lastRetired) <= Distance(lastRetired, lastScheduled)
    BY <1>2 DEF Offset, Scheduled
  <2>3. /\ i \in Slots /\ Distance(lastRetired, lastRetired) < Distance(lastRetired, i)
        /\ Distance(lastRetired, i) <= Distance(lastRetired, lastScheduled)
    BY <1>1, <2>1, <2>2, WalkFacts
  <2> QED BY <1>2, <2>3 DEF Offset, Scheduled
<1>4. ASSUME NEW j \in Replayable(i)
      PROVE  j \in Slots /\ Offset(i) < Offset(j) /\ Offset(j) <= Scheduled
  <2>1. j \in Walk(lastScheduled, i)
    BY DEF Replayable
  <2>2. Distance(lastRetired, i) <= Distance(lastRetired, lastScheduled)
    BY <1>3 DEF Offset, Scheduled
  <2>3. /\ j \in Slots /\ Distance(lastRetired, i) < Distance(lastRetired, j)
        /\ Distance(lastRetired, j) <= Distance(lastRetired, lastScheduled)
    BY <1>1, <1>3, <2>1, <2>2, WalkFacts
  <2> QED BY <2>3 DEF Offset, Scheduled
<1>5. ASSUME NEW j \in Slots, 0 < Offset(j), Offset(j) <= Scheduled
      PROVE  Used(j) /\ window[j] \in Instruction
  <2>1. Used(j)
    BY <1>2, <1>5 DEF Used
  <2> QED BY <1>1, <2>1 DEF IInv, InRing
<1>6. \A j \in Replayable(i) : 0 < Offset(j)
  BY <1>2, <1>3, <1>4
<1> QED BY <1>3, <1>4, <1>5, <1>6

LEMMA FlipFacts == \A h \in 0 .. Histories - 1 : Flip(h) \in 0 .. Histories - 1
<1> SUFFICES ASSUME NEW h \in 0 .. Histories - 1 PROVE Flip(h) \in 0 .. Histories - 1
  OBVIOUS
<1>1. Histories \in Nat \ {0} /\ h \in Nat
  BY SizesAssumption
<1>2. (h + 1) % Histories \in 0 .. Histories - 1
  BY <1>1
<1>3. h % 2 # 0 => h - 1 \in 0 .. Histories - 1
  BY <1>1
<1> QED BY <1>2, <1>3 DEF Flip

\* The exception after a completion, in the order of the window.
LEMMA CompletionRaises ==
  ASSUME IInv, NEW i \in Slots, NEW stale \in SUBSET Slots, NEW popAgain \in BOOLEAN,
         Complete(i, stale, popAgain)
  PROVE  /\ exception.type # "none" =>
                /\ exception'.type # "none" /\ exception.index \in Slots
                /\ Offset(exception'.index) <= Offset(exception.index)
         /\ exception'.type # "none" =>
                exception'.index \in Slots /\ Offset(exception'.index) <= Scheduled
         /\ exception'.type = "mispredict" =>
                /\ 0 < Offset(exception'.index)
                /\ window[exception'.index].kind \in ControlKinds
         /\ exception'.type = "replay" => Offset(exception'.index) < Scheduled
         /\ exception.type = "mispredict" =>
                exception' = exception \/ Offset(exception'.index) < Offset(exception.index)
         /\ exception' \in [type : {"mispredict", "replay"}, index : Slots] \cup {NoException}
         /\ \A j \in stale : exception'.type # "none" /\ Offset(exception'.index) < Offset(j)
         /\ window[i].wrong =>
                \/ exception' = [type |-> "mispredict", index |-> i]
                \/ exception'.type # "none" /\ Offset(exception'.index) < Offset(i)
<1>0. /\ i \in Executing
      /\ stale # {} => window[i].kind = "other" /\ stale \subseteq Replayable(i)
      /\ exception' =
            IF window[i].wrong THEN RaiseException("mispredict", i)
            ELSE IF stale # {}
            THEN RaiseException("replay", Dec(CHOOSE j \in stale :
                                     \A k \in stale : Offset(j) <= Offset(k)))
            ELSE exception
  BY DEF Complete
<1>1. /\ lastRetired \in Slots
      /\ exception \in [type : {"mispredict", "replay"}, index : Slots] \cup {NoException}
  BY TypeFacts DEF IInv, Pointed
<1>2. /\ Scheduled \in Nat /\ \A j \in Slots : Offset(j) \in Nat
      /\ Offset(lastRetired) = 0
  BY PointerFacts DEF IInv, InRing
<1>3. /\ 0 < Offset(i) /\ Offset(i) <= Scheduled /\ Used(i)
      /\ \A j \in Replayable(i) : Offset(i) < Offset(j) /\ Offset(j) <= Scheduled
  BY <1>0, ExecutingFacts
<1>4. /\ exception.type # "none" => exception.index \in Slots /\ Offset(exception.index) <= Scheduled
      /\ exception.type = "mispredict" => /\ 0 < Offset(exception.index)
                                          /\ window[exception.index].kind \in ControlKinds
      /\ exception.type = "replay" => Offset(exception.index) < Scheduled
  BY DEF IInv, ExceptionFits
<1>5. CASE window[i].wrong
  <2>1. window[i].kind \in ControlKinds
    BY <1>3, <1>5 DEF IInv, Sound
  <2>2. stale = {}
    BY <1>0, <2>1 DEF ControlKinds
  <2>3. exception' = RaiseException("mispredict", i)
    BY <1>0, <1>5
  <2>4. /\ exception'.type # "none" /\ exception'.index \in Slots
        /\ \/ exception' = [type |-> "mispredict", index |-> i]
           \/ exception' = exception /\ exception.type # "none"
        /\ Offset(exception'.index) <= Offset(i)
        /\ exception.type # "none" =>
               exception.index \in Slots /\ Offset(exception'.index) <= Offset(exception.index)
        /\ exception' = [type |-> "mispredict", index |-> i] \/ Offset(exception'.index) < Offset(i)
        /\ exception.type = "mispredict" =>
               exception' = exception \/ Offset(exception'.index) < Offset(exception.index)
    BY <2>3, RaiseFacts
  <2>5. Offset(exception'.index) <= Scheduled
    BY <1>2, <1>3, <2>4
  <2>6. CASE exception' = [type |-> "mispredict", index |-> i]
    BY <1>3, <2>1, <2>2, <2>4, <2>5, <2>6
  <2>7. CASE exception' = exception /\ exception.type # "none"
    BY <1>1, <1>4, <2>2, <2>4, <2>5, <2>7
  <2> QED BY <2>4, <2>6, <2>7
<1>6. CASE ~window[i].wrong /\ stale # {}
  <2> DEFINE First(j) == \A k \in stale : Offset(j) <= Offset(k)
             oldest == CHOOSE j \in stale : First(j)
  <2>1. oldest \in stale /\ \A k \in stale : Offset(oldest) <= Offset(k)
    <3>1. \E j \in stale : First(j)
      BY <1>1, <1>6, ClosestExist DEF Offset
    <3> HIDE DEF First
    <3>2. oldest \in stale /\ First(oldest)
      BY <3>1
    <3> QED BY <3>2 DEF First
  <2>2. exception' = RaiseException("replay", Dec(oldest))
    BY <1>0, <1>6
  <2> HIDE DEF oldest
  <2>3. oldest \in Slots /\ Offset(i) < Offset(oldest) /\ Offset(oldest) <= Scheduled
    BY <1>0, <1>3, <1>6, <2>1
  <2>4. oldest # lastRetired
    BY <1>2, <2>3
  <2> DEFINE x == Dec(oldest)
  <2>5. x \in Slots /\ Offset(x) = Offset(oldest) - 1
    BY <1>1, <2>3, <2>4, DecFacts DEF Offset
  <2> HIDE DEF x
  <2>6. /\ exception'.type # "none" /\ exception'.index \in Slots
        /\ \/ exception' = [type |-> "replay", index |-> x]
           \/ exception' = exception /\ exception.type # "none"
        /\ Offset(exception'.index) <= Offset(x)
        /\ exception.type # "none" =>
               exception.index \in Slots /\ Offset(exception'.index) <= Offset(exception.index)
        /\ exception.type = "mispredict" =>
               exception' = exception \/ Offset(exception'.index) < Offset(exception.index)
    <3>1. exception' = RaiseException("replay", x)
      BY <2>2 DEF x
    <3> QED BY <2>5, <3>1, RaiseFacts
  <2>7. Offset(exception'.index) < Scheduled /\ Offset(exception'.index) < Offset(oldest)
    BY <1>2, <2>3, <2>5, <2>6
  <2>8. \A j \in stale : Offset(exception'.index) < Offset(j)
    <3> SUFFICES ASSUME NEW j \in stale PROVE Offset(exception'.index) < Offset(j)
      OBVIOUS
    <3>1. Offset(oldest) <= Offset(j) /\ Offset(j) \in Nat /\ Offset(oldest) \in Nat
      BY <1>2, <2>1, <2>3
    <3>2. Offset(exception'.index) \in Nat
      BY <1>2, <2>6
    <3> QED BY <2>7, <3>1, <3>2
  <2>9. Offset(exception'.index) <= Scheduled
    BY <1>2, <2>6, <2>7
  <2>10. CASE exception' = [type |-> "replay", index |-> x]
    BY <1>6, <2>6, <2>7, <2>8, <2>9, <2>10
  <2>11. CASE exception' = exception /\ exception.type # "none"
    BY <1>1, <1>4, <1>6, <2>6, <2>7, <2>8, <2>9, <2>11
  <2> QED BY <2>6, <2>10, <2>11
<1>7. CASE ~window[i].wrong /\ stale = {}
  <2>1. exception' = exception
    BY <1>0, <1>7
  <2>2. exception.type # "none" => Offset(exception.index) <= Offset(exception.index)
    BY <1>2, <1>4
  <2> QED BY <1>1, <1>4, <1>7, <2>1, <2>2
<1> QED BY <1>5, <1>6, <1>7

LEMMA CompleteIInv ==
  ASSUME IInv, NEW i \in Slots, NEW stale \in SUBSET Slots, NEW popAgain \in BOOLEAN,
         Complete(i, stale, popAgain)
  PROVE  IInv'
<1>0. /\ phase = "execute" /\ phase' = "execute" /\ i \in Executing
      /\ stale \subseteq Replayable(i)
      /\ UNCHANGED <<cycle, lastFetched, lastDecoded, lastScheduled, lastRetired, fetchPerCycle,
                     decodePerCycle, fetchStatus, fetchReady, lastCall, specBPS, archBPS,
                     retireCount>>
  BY DEF Complete, pointers, batches, fetching, bps
<1>1. /\ lastFetched \in Slots /\ lastRetired \in Slots
      /\ window \in [Slots -> Instruction \cup {Empty}]
  BY TypeFacts DEF IInv, Pointed
<1>2. /\ Fetched' = Fetched /\ Decoded' = Decoded /\ Scheduled' = Scheduled
      /\ \A j : Offset(j)' = Offset(j) /\ (Used(j)' <=> Used(j))
  BY <1>0 DEF Fetched, Decoded, Scheduled, Offset, Used
<1>3. /\ Offset(i) <= Scheduled /\ Used(i) /\ window[i] \in Instruction
      /\ \A j \in stale : /\ j # i /\ Offset(j) <= Scheduled
                          /\ Used(j) /\ window[j] \in Instruction
  <2>1. Offset(i) \in Nat
    BY PointerFacts DEF IInv
  <2> QED BY <1>0, <2>1, ExecutingFacts
<1> DEFINE completed == [window[i] EXCEPT !.done = TRUE, !.popAgain = popAgain,
               !.history = IF window[i].wrong /\ window[i].kind # "restore" /\ ~popAgain
                           THEN Flip(@) ELSE @]
           late(j) == [window[j] EXCEPT !.stale = TRUE]
<1>4. \A j \in Slots : window'[j] =
          IF j = i THEN completed ELSE IF j \in stale THEN late(j) ELSE window[j]
  BY DEF Complete
<1>5. /\ completed \in Instruction
      /\ completed.kind = window[i].kind /\ completed.wrong = window[i].wrong
      /\ completed.stale = window[i].stale
  <2>1. window[i].history \in 0 .. Histories - 1
    BY <1>3 DEF Instruction
  <2>2. Flip(window[i].history) \in 0 .. Histories - 1
    BY <2>1, FlipFacts
  <2> QED BY <1>3, <2>1, <2>2 DEF Instruction
<1>6. \A j \in stale : /\ late(j) \in Instruction
                       /\ late(j).kind = window[j].kind /\ late(j).wrong = window[j].wrong
                       /\ late(j).done = window[j].done
  BY <1>3 DEF Instruction
<1> HIDE DEF completed, late
<1>7. ASSUME NEW j \in Slots
      PROVE  /\ window'[j] \in Instruction \cup {Empty}
             /\ window'[j] = Empty <=> window[j] = Empty
             /\ window'[j].kind = window[j].kind /\ window'[j].wrong = window[j].wrong
             /\ j # i => window'[j].done = window[j].done
             /\ j \notin stale => window'[j].stale = window[j].stale
  <2>1. CASE j = i
    BY <1>3, <1>4, <1>5, <2>1, RecordFacts
  <2>2. CASE j # i /\ j \in stale
    BY <1>3, <1>4, <1>6, <2>2, RecordFacts
  <2>3. CASE j # i /\ j \notin stale
    BY <1>1, <1>4, <2>3
  <2> QED BY <2>1, <2>2, <2>3
<1>8. InRing'
  BY <1>2, <1>7 DEF IInv, InRing
<1>9. FetchDue' /\ DecodeDue' /\ Penalty'
  BY <1>0, <1>2 DEF IInv, FetchDue, DecodeDue, Penalty
<1>10. /\ exception.type # "none" =>
              /\ exception'.type # "none" /\ exception.index \in Slots
              /\ Offset(exception'.index) <= Offset(exception.index)
       /\ exception'.type # "none" =>
              exception'.index \in Slots /\ Offset(exception'.index) <= Scheduled
       /\ exception'.type = "mispredict" =>
              /\ 0 < Offset(exception'.index)
              /\ window[exception'.index].kind \in ControlKinds
       /\ exception'.type = "replay" => Offset(exception'.index) < Scheduled
       /\ exception.type = "mispredict" =>
              exception' = exception \/ Offset(exception'.index) < Offset(exception.index)
       /\ exception' \in [type : {"mispredict", "replay"}, index : Slots] \cup {NoException}
       /\ \A j \in stale : exception'.type # "none" /\ Offset(exception'.index) < Offset(j)
       /\ window[i].wrong =>
              \/ exception' = [type |-> "mispredict", index |-> i]
              \/ exception'.type # "none" /\ Offset(exception'.index) < Offset(i)
  BY CompletionRaises
<1>11. Offset(exception.index)' = Offset(exception'.index)
  BY <1>0 DEF Offset
<1>12. ExceptionFits'
  <2>1. /\ exception'.type # "none" =>
              exception'.index \in Slots /\ Offset(exception.index)' <= Scheduled'
        /\ exception'.type = "mispredict" =>
              /\ 0 < Offset(exception.index)'
              /\ window'[exception'.index].kind \in ControlKinds
        /\ exception'.type = "replay" => Offset(exception.index)' < Scheduled'
    BY <1>2, <1>7, <1>10, <1>11
  <2> QED BY <1>0, <2>1 DEF ExceptionFits
<1>13. Sound'
  BY <1>2, <1>3, <1>7 DEF IInv, Sound
<1>14. Covered'
  <2> SUFFICES ASSUME NEW j \in Slots, Used(j)
               PROVE  /\ window'[j].stale => /\ exception'.type # "none"
                                             /\ Offset(exception'.index) < Offset(j)
                      /\ window'[j].wrong /\ window'[j].done =>
                             \/ exception' = [type |-> "mispredict", index |-> j]
                             \/ exception'.type # "none" /\ Offset(exception'.index) < Offset(j)
    BY <1>2, <1>11 DEF Covered
  <2>1. /\ window[j].stale => /\ exception.type # "none"
                              /\ Offset(exception.index) < Offset(j)
        /\ window[j].wrong /\ window[j].done =>
               \/ exception = [type |-> "mispredict", index |-> j]
               \/ exception.type # "none" /\ Offset(exception.index) < Offset(j)
    BY DEF IInv, Covered
  <2>2. exception.type # "none" /\ Offset(exception.index) < Offset(j) =>
            exception'.type # "none" /\ Offset(exception'.index) < Offset(j)
    <3>1. \A k \in Slots : Offset(k) \in Nat
      BY PointerFacts DEF IInv
    <3> QED BY <1>10, <3>1
  <2>3. exception = [type |-> "mispredict", index |-> j] =>
            \/ exception' = [type |-> "mispredict", index |-> j]
            \/ exception'.type # "none" /\ Offset(exception'.index) < Offset(j)
    BY <1>10
  <2>4. window'[j].stale => /\ exception'.type # "none"
                            /\ Offset(exception'.index) < Offset(j)
    BY <1>7, <1>10, <2>1, <2>2
  <2>5. window'[j].wrong /\ window'[j].done =>
            \/ exception' = [type |-> "mispredict", index |-> j]
            \/ exception'.type # "none" /\ Offset(exception'.index) < Offset(j)
    BY <1>7, <1>10, <2>1, <2>2, <2>3
  <2> QED BY <2>4, <2>5
<1>15. Stopped' /\ CallKnown'
  BY <1>0, <1>1, <1>2, <1>7 DEF IInv, Stopped, CallKnown
<1>16. TypeOK'
  <2>1. window' \in [Slots -> Instruction \cup {Empty}]
    <3>1. window' = [j \in Slots |-> window'[j]]
      BY DEF Complete
    <3> QED BY <1>7, <3>1
  <2> QED BY <1>0, <1>10, <2>1 DEF IInv, TypeOK, pointers, bps
<1> QED BY <1>8, <1>9, <1>12, <1>13, <1>14, <1>15, <1>16 DEF IInv

-----------------------------------------------------------------------------
(***************************************************************************)
(* The invariant, and what it says of the window.                          *)
(***************************************************************************)

LEMMA StutterIInv == IInv /\ UNCHANGED vars => IInv'
<1> SUFFICES ASSUME IInv, UNCHANGED vars PROVE IInv'
  OBVIOUS
<1>0. /\ UNCHANGED <<phase, cycle, window, fetchPerCycle, decodePerCycle, exception,
                     fetchStatus, fetchReady, lastCall, specBPS, archBPS, retireCount>>
      /\ UNCHANGED <<lastFetched, lastDecoded, lastScheduled, lastRetired>>
  BY DEF vars, pointers, batches, fetching, bps
<1>1. /\ Fetched' = Fetched /\ Decoded' = Decoded /\ Scheduled' = Scheduled
      /\ \A i : Offset(i)' = Offset(i) /\ (Used(i)' <=> Used(i))
      /\ Offset(exception.index)' = Offset(exception.index)
  BY <1>0 DEF Fetched, Decoded, Scheduled, Offset, Used
<1>2. InRing' /\ Sound' /\ Covered' /\ Stopped' /\ ExceptionFits' /\ CallKnown'
  BY <1>0, <1>1 DEF IInv, InRing, Sound, Covered, Stopped, ExceptionFits, CallKnown
<1>3. FetchDue' /\ DecodeDue' /\ Penalty'
  BY <1>0, <1>1 DEF IInv, FetchDue, DecodeDue, Penalty
<1>4. TypeOK'
  BY <1>0 DEF IInv, TypeOK, pointers, bps
<1> QED BY <1>2, <1>3, <1>4 DEF IInv

LEMMA NextIInv == IInv /\ [Next]_vars => IInv'
<1> SUFFICES ASSUME IInv, [Next]_vars PROVE IInv'
  OBVIOUS
<1>1. CASE FetchStalled
  BY <1>1, FetchStalledIInv
<1>2. ASSUME NEW g \in Groups, FetchGroup(g) PROVE IInv'
  BY <1>2, FetchGroupIInv
<1>3. ASSUME NEW n \in 0 .. MaxDecode, Decode(n) PROVE IInv'
  BY <1>3, DecodeIInv
<1>4. CASE Schedule
  BY <1>4, ScheduleIInv
<1>5. CASE Recover
  BY <1>5, RecoverIInv
<1>6. CASE RetireOne
  BY <1>6, RetireOneIInv
<1>7. ASSUME NEW traps \in BOOLEAN, RetireAndSquash(traps) PROVE IInv'
  BY <1>7, RetireAndSquashIInv
<1>8. CASE RetireNone
  BY <1>8, RetireNoneIInv
<1>9. ASSUME NEW i \in Slots, NEW stale \in SUBSET Slots, NEW popAgain \in BOOLEAN,
             Complete(i, stale, popAgain)
      PROVE  IInv'
  BY <1>9, CompleteIInv
<1>10. CASE Wakeup
  BY <1>10, WakeupIInv
<1>11. CASE EndCycle
  BY <1>11, EndCycleIInv
<1>12. CASE UNCHANGED vars
  BY <1>12, StutterIInv
<1> QED BY <1>1, <1>2, <1>3, <1>4, <1>5, <1>6, <1>7, <1>8, <1>9, <1>10, <1>11, <1>12 DEF Next

\* The inductive invariant holds in every reachable state.
THEOREM Invariance == Spec => []IInv
<1>1. Init => IInv
  BY InitIInv
<1>2. IInv /\ [Next]_vars => IInv'
  BY NextIInv
<1> QED BY <1>1, <1>2, PTL DEF Spec

\* The slots in flight are those the invariant calls used.
LEMMA InFlightUsed == IInv => \A i \in Slots : i \in InFlight <=> Used(i)
<1> SUFFICES ASSUME IInv, NEW i \in Slots PROVE i \in InFlight <=> Used(i)
  OBVIOUS
<1>1. /\ lastFetched \in Slots /\ lastRetired \in Slots /\ Fetched \in Nat
      /\ Offset(lastRetired) = 0
  BY TypeFacts, PointerFacts DEF IInv, Pointed
<1>2. Distance(lastRetired, lastRetired) <= Distance(lastRetired, lastFetched)
  BY <1>1 DEF Offset, Fetched
<1>3. i \in Walk(lastFetched, lastRetired) <=>
         /\ Distance(lastRetired, lastRetired) < Distance(lastRetired, i)
         /\ Distance(lastRetired, i) <= Distance(lastRetired, lastFetched)
  BY <1>1, <1>2, WalkFacts
<1> QED BY <1>1, <1>3 DEF InFlight, Used, Offset, Fetched

\* The slots scheduled and not retired.
LEMMA ScheduledSlots ==
  IInv => \A i \in Slots : i \in Walk(lastScheduled, lastRetired) <=>
                               0 < Offset(i) /\ Offset(i) <= Scheduled
<1> SUFFICES ASSUME IInv, NEW i \in Slots
             PROVE  i \in Walk(lastScheduled, lastRetired) <=>
                        0 < Offset(i) /\ Offset(i) <= Scheduled
  OBVIOUS
<1>1. /\ lastScheduled \in Slots /\ lastRetired \in Slots /\ Scheduled \in Nat
      /\ Offset(lastRetired) = 0
  BY TypeFacts, PointerFacts DEF IInv, Pointed
<1>2. Distance(lastRetired, lastRetired) <= Distance(lastRetired, lastScheduled)
  BY <1>1 DEF Offset, Scheduled
<1>3. i \in Walk(lastScheduled, lastRetired) <=>
         /\ Distance(lastRetired, lastRetired) < Distance(lastRetired, i)
         /\ Distance(lastRetired, i) <= Distance(lastRetired, lastScheduled)
  BY <1>1, <1>2, WalkFacts
<1> QED BY <1>1, <1>3 DEF Offset, Scheduled

LEMMA IInvConsistent == IInv => WindowConsistent
<1> SUFFICES ASSUME IInv PROVE WindowConsistent
  OBVIOUS
<1>1. RingInOrder
  BY InFlightUsed DEF IInv, InRing, RingInOrder, Fetched, Decoded, Scheduled
<1>2. BatchesMatchWindow
  <2>1. Holds(fetchPerCycle, FetchRing, FetchStages, {"fetch"}, "decode", Fetched - Decoded)
    <3>1. /\ phase \in {"fetch"} \cup {"decode"} <=> phase \in {"fetch", "decode"}
          /\ phase \in {"fetch"} <=> phase = "fetch"
      OBVIOUS
    <3> QED BY <3>1 DEF IInv, FetchDue, Due, Counts, Holds
  <2>2. Holds(decodePerCycle, DecodeRing, DecodeStages, {"fetch", "decode"}, "schedule",
              Decoded - Scheduled)
    <3>1. phase \in {"fetch", "decode"} \cup {"schedule"} <=> phase \in {"fetch", "decode", "schedule"}
      OBVIOUS
    <3> QED BY <3>1 DEF IInv, DecodeDue, Due, Counts, Holds
  <2> QED BY <2>1, <2>2 DEF BatchesMatchWindow, RangeSubtract, Fetched, Decoded, Scheduled
<1>3. SquashStaysInWindow
  <2> SUFFICES ASSUME exception.type # "none"
               PROVE  exception.index \in {lastRetired} \cup Walk(lastScheduled, lastRetired)
    BY DEF SquashStaysInWindow
  <2>1. exception.index \in Slots /\ Offset(exception.index) <= Scheduled
    BY DEF IInv, ExceptionFits
  <2>2. Offset(exception.index) \in Nat /\ lastRetired \in Slots
    BY <2>1, TypeFacts, PointerFacts DEF IInv, Pointed
  <2>3. Offset(exception.index) = 0 => exception.index = lastRetired
    BY <2>1, <2>2, DistanceDetermines DEF Offset
  <2> QED BY <2>1, <2>2, <2>3, ScheduledSlots
<1> QED BY <1>1, <1>2, <1>3 DEF WindowConsistent, IInv

\* WindowConsistent, for every size of the ring, of the stages and of their
\* delays: the slots in use are those between the indices, the batches still due
\* are what lies between them, and a squash never leaves what was scheduled.
THEOREM WindowStaysConsistent == Spec => []WindowConsistent
<1> QED BY Invariance, IInvConsistent, PTL

LEMMA IInvCovers == IInv => ExceptionCoversHazards
BY InFlightUsed DEF IInv, Covered, ExceptionCoversHazards, InFlight, Walk

\* ExceptionCoversHazards: no stale instruction and no misprediction found out
\* can retire, since an exception waits in front of it.
THEOREM HazardsAreCovered == Spec => []ExceptionCoversHazards
<1> QED BY Invariance, IInvCovers, PTL

LEMMA IInvStalls == IInv => StallHasCause
<1> SUFFICES ASSUME IInv PROVE StallHasCause
  OBVIOUS
<1>1. \A i \in InFlight \ {lastFetched} : window[i].kind \notin Stoppers
  <2> SUFFICES ASSUME NEW i \in InFlight \ {lastFetched} PROVE window[i].kind \notin Stoppers
    OBVIOUS
  <2>1. i \in Slots /\ Used(i) /\ lastFetched \in Slots /\ lastRetired \in Slots
    BY InFlightUsed, TypeFacts DEF InFlight, Walk, IInv, Pointed
  <2>2. Offset(i) # Fetched
    BY <2>1, DistanceDetermines DEF Offset, Fetched
  <2>3. 0 < Offset(i) /\ Offset(i) <= Fetched /\ Offset(i) \in Nat /\ Fetched \in Nat
    BY <2>1, PointerFacts DEF Used, IInv
  <2>4. 0 < Offset(i) /\ Offset(i) < Fetched
    BY <2>2, <2>3
  <2> QED BY <2>1, <2>4 DEF IInv, Stopped
<1> QED BY <1>1 DEF IInv, Stopped, Penalty, StallHasCause

\* StallHasCause: a barrier or TLB miss that stops fetch is in flight and the
\* youngest, and a squash penalty always ends.
THEOREM StallsHaveCause == Spec => []StallHasCause
<1> QED BY Invariance, IInvStalls, PTL

-----------------------------------------------------------------------------
(***************************************************************************)
(* The predictor state that fetch runs on.                                 *)
(***************************************************************************)

\* The controls in flight up to a place, by distance from the last retired.
LEMMA ControlsFacts ==
  ASSUME NEW win, NEW retired \in Slots, NEW good \in Slots
  PROVE  /\ \A i : i \in ControlsOf(win, retired, good) <=>
                /\ i \in Slots /\ win[i].kind \in ControlKinds
                /\ 0 < Distance(retired, i) /\ Distance(retired, i) <= Distance(retired, good)
         /\ \A i \in ControlsOf(win, retired, good) :
                Distance(i, good) = Distance(retired, good) - Distance(retired, i)
<1> DEFINE G == Distance(retired, good)
<1>1. Distance(retired, retired) = 0 /\ G \in Nat
  BY DistanceDetermines
<1>2. \A i : i \in Walk(good, retired) <=>
          i \in Slots /\ 0 < Distance(retired, i) /\ Distance(retired, i) <= G
  <2>1. Distance(retired, retired) <= G
    BY <1>1
  <2>2. \A i : i \in Walk(good, retired) <=>
          /\ i \in Slots
          /\ Distance(retired, retired) < Distance(retired, i)
          /\ Distance(retired, i) <= G
    BY <2>1, WalkFacts
  <2> QED BY <1>1, <2>2
<1>3. ASSUME NEW i \in Slots, Distance(retired, i) <= G
      PROVE  Distance(i, good) = G - Distance(retired, i)
  BY <1>3, BetweenFacts
<1> HIDE DEF G
<1>4. \A i : i \in ControlsOf(win, retired, good) <=>
          i \in Slots /\ win[i].kind \in ControlKinds /\ 0 < Distance(retired, i) /\ Distance(retired, i) <= G
  BY <1>2 DEF ControlsOf
<1> QED BY <1>3, <1>4 DEF G

\* The youngest control is the farthest from the last retired.
LEMMA YoungestRestored ==
  ASSUME NEW win \in [Slots -> Instruction \cup {Empty}], NEW retired \in Slots,
         NEW good \in Slots, NEW arch
  PROVE  /\ \A i \in ControlsOf(win, retired, good) :
                (\A j \in ControlsOf(win, retired, good) : Distance(retired, j) <= Distance(retired, i))
                    => Restored(win, retired, good, arch) = win[i].history
         /\ ControlsOf(win, retired, good) # {} =>
                \E i \in ControlsOf(win, retired, good) :
                   /\ \A j \in ControlsOf(win, retired, good) :
                          Distance(retired, j) <= Distance(retired, i)
                   /\ Restored(win, retired, good, arch) = win[i].history
<1> DEFINE C == ControlsOf(win, retired, good)
           G == Distance(retired, good)
<1>1. \A i \in C : i \in Slots /\ Distance(i, good) = G - Distance(retired, i)
  BY ControlsFacts
<1>2. G \in Nat /\ \A i \in C : Distance(retired, i) \in Nat
  BY <1>1, DistanceDetermines
<1>3. \A i, j \in C : Distance(i, good) <= Distance(j, good)
                          <=> Distance(retired, j) <= Distance(retired, i)
  <2> SUFFICES ASSUME NEW i \in C, NEW j \in C
               PROVE  Distance(i, good) <= Distance(j, good)
                          <=> Distance(retired, j) <= Distance(retired, i)
    OBVIOUS
  <2>1. /\ Distance(i, good) = G - Distance(retired, i)
        /\ Distance(j, good) = G - Distance(retired, j)
        /\ Distance(retired, i) \in Nat /\ Distance(retired, j) \in Nat /\ G \in Nat
    BY <1>1, <1>2
  <2> HIDE DEF C, G
  <2> QED BY <2>1
<1>4. \A i \in C : (\A j \in C : Distance(i, good) <= Distance(j, good))
                       <=> (\A j \in C : Distance(retired, j) <= Distance(retired, i))
  <2> HIDE DEF C
  <2> QED BY <1>3
<1>5. \A i \in C : (\A j \in C : Distance(i, good) <= Distance(j, good))
                       => Restored(win, retired, good, arch) = win[i].history
  BY RestoredFacts
<1>6. C # {} => \E i \in C : /\ \A j \in C : Distance(i, good) <= Distance(j, good)
                             /\ Restored(win, retired, good, arch) = win[i].history
  BY RestoredFacts
<1> HIDE DEF C
<1>7. \A i \in C : (\A j \in C : Distance(retired, j) <= Distance(retired, i))
                       => Restored(win, retired, good, arch) = win[i].history
  BY <1>4, <1>5
<1>8. C # {} => \E i \in C : /\ \A j \in C : Distance(retired, j) <= Distance(retired, i)
                             /\ Restored(win, retired, good, arch) = win[i].history
  BY <1>4, <1>6
<1> QED BY <1>7, <1>8 DEF C

\* Two windows with the same controls, in the same order, restore the same state.
LEMMA RestoredSame ==
  ASSUME NEW win \in [Slots -> Instruction \cup {Empty}],
         NEW other \in [Slots -> Instruction \cup {Empty}],
         NEW r \in Slots, NEW s \in Slots, NEW good \in Slots, NEW till \in Slots, NEW arch, NEW brch,
         ControlsOf(win, r, good) = ControlsOf(other, s, till),
         \A i \in ControlsOf(win, r, good) : win[i].history = other[i].history,
         \A i, j \in ControlsOf(win, r, good) :
             Distance(r, i) <= Distance(r, j) => Distance(s, i) <= Distance(s, j),
         ControlsOf(win, r, good) = {} => arch = brch
  PROVE  Restored(win, r, good, arch) = Restored(other, s, till, brch)
<1> DEFINE C == ControlsOf(win, r, good)
<1>1. CASE C = {}
  <2>1. Restored(win, r, good, arch) = arch
    BY <1>1, RestoredFacts
  <2>2. Restored(other, s, till, brch) = brch
    <3>1. ControlsOf(other, s, till) = {}
      BY <1>1
    <3> QED BY <3>1, RestoredFacts
  <2> QED BY <1>1, <2>1, <2>2
<1>2. CASE C # {}
  <2>1. PICK i \in C : /\ \A j \in C : Distance(r, j) <= Distance(r, i)
                       /\ Restored(win, r, good, arch) = win[i].history
    BY <1>2, YoungestRestored
  <2>2. \A j \in C : Distance(s, j) <= Distance(s, i)
    BY <2>1
  <2>3. Restored(other, s, till, brch) = other[i].history
    BY <2>2, YoungestRestored
  <2> QED BY <2>1, <2>3
<1> QED BY <1>1, <1>2

\* The predictor state is that after the last control of a group, or the one
\* before the group.
LEMMA HistoryFacts ==
  ASSUME NEW g \in Groups, NEW after \in HistoryAfter(g), NEW k \in 0 .. Len(g),
         \A m \in 1 .. Len(g) : k < m => g[m].kind \notin ControlKinds
  PROVE  after[Len(g)] = after[k] /\ after[0] = specBPS
<1> DEFINE n == Len(g)
           Differ == {m \in 1 .. n : k < m /\ after[m] # after[k]}
<1>1. n \in Nat /\ after[0] = specBPS
  BY GroupFacts DEF HistoryAfter
<1>2. \A m \in 1 .. n : k < m => after[m] = after[m - 1]
  BY DEF HistoryAfter, UndoesPush, ControlKinds
<1>3. Differ = {}
  <2> SUFFICES ASSUME Differ # {} PROVE FALSE
    OBVIOUS
  <2>1. PICK m \in Differ : \A l \in Differ : m <= l
    <3>1. Differ \subseteq 1 .. n
      OBVIOUS
    <3> HIDE DEF Differ, n
    <3> QED BY <1>1, <3>1, LeastExists
  <2>2. m \in 1 .. n /\ k < m /\ after[m] # after[k] /\ after[m] = after[m - 1]
    BY <1>2, <2>1
  <2>3. m - 1 \in Differ
    <3>1. m - 1 # k /\ k \in 0 .. n
      BY <2>2
    <3>2. m - 1 \in 1 .. n /\ k < m - 1
      <4> HIDE DEF n
      <4> QED BY <1>1, <2>2, <3>1
    <3>3. after[m - 1] # after[k]
      BY <2>2
    <3> QED BY <3>2, <3>3
  <2>4. m <= m - 1
    BY <2>1, <2>3
  <2> QED BY <1>1, <2>2, <2>4
<1>4. CASE k = n
  BY <1>1, <1>4
<1>5. CASE k # n
  <2>1. n \in 1 .. n /\ k < n
    <3>1. k \in 0 .. n
      OBVIOUS
    <3> HIDE DEF n
    <3> QED BY <1>1, <1>5, <3>1
  <2>2. after[n] = after[k]
    <3>1. n \notin Differ
      BY <1>3
    <3> QED BY <2>1, <3>1
  <2> QED BY <1>1, <2>2
<1> QED BY <1>4, <1>5

\* The controls in flight, and the state fetch should run on.
Controls == ControlsOf(window, lastRetired, lastFetched)

LEMMA ControlsUsed ==
  IInv => \A i : i \in Controls <=> i \in Slots /\ window[i].kind \in ControlKinds /\ Used(i)
BY TypeFacts, ControlsFacts DEF IInv, Pointed, Controls, Used, Fetched, Offset

\* Fetch runs on the state of the controls it fetches, but for a restore that takes a
\* push back.
LEMMA FetchFollows ==
  ASSUME IInv, NEW g \in Groups, FetchGroup(g), SpecFollowsWindow, IInv'
  PROVE  SpecFollowsWindow' \/ PushTakenBack
<1> DEFINE n == Len(g)
<1>0. UNCHANGED <<exception, archBPS>>
  BY DEF FetchGroup
<1> DEFINE now == Restored(window', lastRetired', lastFetched', archBPS')
<1> SUFFICES ASSUME exception.type = "none"
             PROVE  specBPS' = now \/ PushTakenBack
  BY <1>0 DEF SpecFollowsWindow
<1>1. /\ lastRetired' = lastRetired /\ Fetched' = Fetched + n
      /\ \A i \in Slots : Offset(i)' = Offset(i)
      /\ \A i \in Slots : Fetched < Offset(i) /\ Offset(i) <= Fetched + n =>
             Offset(i) - Fetched \in 1 .. n
      /\ Fetched + n < RobSize
  BY FetchEffect
<1>2a. PICK after \in HistoryAfter(g) : \E kp \in HistoryKept(g, after) :
         /\ specBPS' = after[n]
         /\ \A i \in Slots : ~(Fetched < Offset(i) /\ Offset(i) <= Fetched + n)
                                => window'[i] = WithPushUndone(g, after)[i]
         /\ \A i \in Slots : Fetched < Offset(i) /\ Offset(i) <= Fetched + n =>
                window'[i] = Inserted(g[Offset(i) - Fetched], kp[Offset(i) - Fetched])
  BY FetchEffect
<1>2. PICK kept \in HistoryKept(g, after) :
         /\ specBPS' = after[n]
         /\ \A i \in Slots : ~(Fetched < Offset(i) /\ Offset(i) <= Fetched + n)
                                => window'[i] = WithPushUndone(g, after)[i]
         /\ \A i \in Slots : Fetched < Offset(i) /\ Offset(i) <= Fetched + n =>
                window'[i] = Inserted(g[Offset(i) - Fetched], kept[Offset(i) - Fetched])
  BY <1>2a
<1>3. /\ Fetched \in Nat /\ n \in Nat /\ RobSize \in Nat
      /\ \A i \in Slots : Offset(i) \in Nat
  BY PointerFacts, GroupFacts DEF IInv
<1>4. /\ lastFetched \in Slots /\ lastRetired \in Slots /\ lastFetched' \in Slots
      /\ window \in [Slots -> Instruction \cup {Empty}]
      /\ window' \in [Slots -> Instruction \cup {Empty}]
  BY FetchEffect, TypeFacts DEF IInv, Pointed
<1>5. \A i : i \in Controls <=>
          i \in Slots /\ window[i].kind \in ControlKinds /\ 0 < Offset(i) /\ Offset(i) <= Fetched
  BY ControlsUsed DEF Used
<1>6. \A i : i \in Controls' <=>
          i \in Slots /\ window'[i].kind \in ControlKinds /\ 0 < Offset(i) /\ Offset(i) <= Fetched + n
  <2>1. \A i : i \in Controls' <=> i \in Slots /\ window'[i].kind \in ControlKinds /\ Used(i)'
    BY <1>1, <1>4, ControlsFacts DEF Controls, Used, Fetched, Offset
  <2>2. \A i \in Slots : Used(i)' <=> 0 < Offset(i) /\ Offset(i) <= Fetched + n
    BY <1>1 DEF Used
  <2> QED BY <2>1, <2>2
<1>7. Controls' = ControlsOf(window', lastRetired', lastFetched')
  BY DEF Controls
<1>8. CASE \A k \in 1 .. n : g[k].kind \notin ControlKinds
  <2>1. specBPS' = specBPS
    <3>1. 0 \in 0 .. n
      BY <1>3
    <3> QED BY <1>2, <1>8, <3>1, HistoryFacts
  <2>2. ASSUME NEW i \in Controls' PROVE Offset(i) <= Fetched
    <3> SUFFICES ASSUME ~(Offset(i) <= Fetched) PROVE FALSE
      OBVIOUS
    <3>1. i \in Slots /\ Offset(i) <= Fetched + n /\ window'[i].kind \in ControlKinds
      BY <1>6
    <3>2. Fetched < Offset(i)
      BY <1>3, <3>1
    <3> DEFINE l == Offset(i) - Fetched
    <3>3. l \in 1 .. n /\ window'[i] = Inserted(g[l], kept[l])
      BY <1>1, <1>2, <3>1, <3>2
    <3>4. g[l].kind \in ControlKinds
      <4> HIDE DEF l
      <4> DEFINE h == kept[l]
      <4>1. window'[i] = Inserted(g[l], h)
        BY <3>3
      <4> HIDE DEF h
      <4>2. Inserted(g[l], h).kind = g[l].kind
        BY <3>3, InsertedFacts
      <4> HIDE DEF now
      <4> QED BY <3>1, <4>1, <4>2
    <3> QED BY <1>8, <3>3, <3>4
  <2>3. ASSUME NEW i \in Slots, Offset(i) <= Fetched
        PROVE  window'[i] = window[i] /\ Offset(i) <= Fetched + n
    <3>1. ~(lastCall = "inflight" /\ g # <<>> /\ g[1].kind = "restore" /\ i = lastFetched)
      <4> SUFFICES ASSUME g # <<>>, g[1].kind = "restore" PROVE FALSE
        OBVIOUS
      <4>1. 1 \in 1 .. n
        BY GroupFacts
      <4> QED BY <1>8, <4>1 DEF ControlKinds
    <3>2. WithPushUndone(g, after)[i] = window[i]
      BY <3>1, UndoneFacts
    <3>3. Offset(i) <= Fetched + n /\ ~(Fetched < Offset(i))
      <4> HIDE DEF n
      <4> QED BY <1>3, <2>3
    <3> QED BY <1>2, <3>2, <3>3
  <2>4. Controls' = Controls
    BY <1>5, <1>6, <2>2, <2>3
  <2>5. \A i \in Controls : window[i].history = window'[i].history
    BY <1>5, <2>3
  <2>6. Restored(window, lastRetired, lastFetched, archBPS)
            = Restored(window', lastRetired, lastFetched', archBPS)
    <3>1. \A i, j \in Controls : Distance(lastRetired, i) <= Distance(lastRetired, j)
              => Distance(lastRetired, i) <= Distance(lastRetired, j)
      OBVIOUS
    <3>2. ControlsOf(window, lastRetired, lastFetched) = ControlsOf(window', lastRetired, lastFetched')
      BY <1>1, <2>4 DEF Controls
    <3> QED BY <1>4, <2>5, <3>1, <3>2, RestoredSame DEF Controls
  <2>7. specBPS = Restored(window, lastRetired, lastFetched, archBPS)
    BY DEF SpecFollowsWindow
  <2> QED BY <1>0, <1>1, <2>1, <2>6, <2>7
<1>9. CASE \E k \in 1 .. n : g[k].kind \in ControlKinds
  <2> DEFINE K == {k \in 1 .. n : g[k].kind \in ControlKinds}
  <2>1. PICK k \in K : \A l \in K : l <= k
    <3>1. K # {} /\ K \subseteq 1 .. n
      BY <1>9
    <3> HIDE DEF K, n
    <3>2. Max(K) \in K /\ \A l \in K : l <= Max(K)
      BY <1>3, <3>1, MaxExists
    <3> QED BY <3>2
  <2>2. k \in 1 .. n /\ g[k].kind \in ControlKinds
    OBVIOUS
  <2>3. \A m \in 1 .. n : k < m => g[m].kind \notin ControlKinds
    <3> SUFFICES ASSUME NEW m \in 1 .. n, k < m, g[m].kind \in ControlKinds PROVE FALSE
      OBVIOUS
    <3>1. m <= k
      BY <2>1
    <3> HIDE DEF n
    <3> QED BY <1>3, <2>2, <3>1
  <2>4. specBPS' = after[k]
    <3>1. k \in 0 .. n
      <4> HIDE DEF n
      <4> QED BY <1>3, <2>2
    <3> QED BY <1>2, <2>3, <3>1, HistoryFacts
  <2>5. PICK i \in Slots : Offset(i) = Fetched + k
    <3> DEFINE i == (lastFetched + k) % RobSize
    <3>1. Distance(lastRetired, lastFetched) + k < RobSize /\ k \in Nat
      <4>1. Fetched + k < RobSize /\ k \in Nat
        <5> HIDE DEF n
        <5> QED BY <1>1, <1>3, <2>2
      <4> QED BY <4>1 DEF Fetched, Offset
    <3>2. i \in Slots /\ Distance(lastRetired, i) = Distance(lastRetired, lastFetched) + k
      BY <1>4, <3>1, AdvanceFacts
    <3> HIDE DEF i
    <3> QED BY <3>2 DEF Offset, Fetched
  <2>6. /\ Fetched < Offset(i) /\ Offset(i) <= Fetched + n /\ Offset(i) - Fetched = k
        /\ 0 < Offset(i)
    <3> HIDE DEF n
    <3> QED BY <1>3, <2>2, <2>5
  <2>7. window'[i] = Inserted(g[k], kept[k])
    BY <1>2, <2>6
  <2>8. window'[i].kind \in ControlKinds /\ window'[i].history = kept[k]
      /\ window'[i].kind = g[k].kind
    BY <2>2, <2>7 DEF Inserted
  <2>9. i \in Controls'
    BY <1>6, <2>6, <2>8
  <2>10. ASSUME NEW j \in Controls' PROVE Offset(j) <= Offset(i)
    <3> SUFFICES ASSUME ~(Offset(j) <= Offset(i)) PROVE FALSE
      OBVIOUS
    <3>1. j \in Slots /\ Offset(j) <= Fetched + n /\ window'[j].kind \in ControlKinds
      BY <1>6
    <3> DEFINE l == Offset(j) - Fetched
    <3>2. Fetched < Offset(j) /\ k < l
      BY <1>3, <2>2, <2>5, <3>1
    <3>3. l \in 1 .. n /\ window'[j] = Inserted(g[l], kept[l])
      BY <1>1, <1>2, <3>1, <3>2
    <3>4. g[l].kind \in ControlKinds
      <4> HIDE DEF l
      <4> DEFINE h == kept[l]
      <4>1. window'[j] = Inserted(g[l], h)
        BY <3>3
      <4> HIDE DEF h
      <4>2. Inserted(g[l], h).kind = g[l].kind
        BY <3>3, InsertedFacts
      <4> HIDE DEF now
      <4> QED BY <3>1, <4>1, <4>2
    <3> QED BY <2>3, <3>2, <3>3, <3>4
  <2>11. \A j \in ControlsOf(window', lastRetired', lastFetched') :
             Distance(lastRetired', j) <= Distance(lastRetired', i)
    BY <1>1, <1>7, <2>10 DEF Offset
  <2>12. Restored(window', lastRetired', lastFetched', archBPS') = window'[i].history
    BY <1>1, <1>4, <1>7, <2>9, <2>11, YoungestRestored
  <2>13. now = kept[k]
    BY <2>8, <2>12
  <2>14. CASE g[k].kind # "restore"
    <3>1. ~(k < n /\ g[k + 1].kind = "restore")
      <4> SUFFICES ASSUME k < n, g[k + 1].kind = "restore" PROVE FALSE
        OBVIOUS
      <4>1. k + 1 \in 1 .. n /\ k < k + 1
        <5> HIDE DEF n
        <5> QED BY <1>3, <2>2
      <4> QED BY <2>3, <4>1 DEF ControlKinds
    <3>2. kept[k] = after[IF k < n /\ g[k].kind = "call" /\ g[k + 1].kind = "restore"
                          THEN k + 1 ELSE k]
      BY <2>2, <2>14 DEF HistoryKept
    <3> HIDE DEF now
    <3> QED BY <2>4, <2>13, <3>1, <3>2
  <2>15. CASE g[k].kind = "restore"
    <3>1. kept[k] = after[k - 1] \/ kept[k] = after[k]
      BY <2>2, <2>15 DEF HistoryKept
    <3>2. after[k] = IF UndoesPush(g, k) THEN Pop(after[k - 1]) ELSE after[k - 1]
      BY <2>2, <2>15 DEF HistoryAfter
    <3>3. CASE kept[k] = after[k] \/ ~UndoesPush(g, k)
      <4> HIDE DEF now
      <4> QED BY <2>4, <2>13, <3>1, <3>2, <3>3
    <3>4. CASE kept[k] # after[k] /\ UndoesPush(g, k)
      <4>1. specBPS' = Pop(now)
        <5> HIDE DEF now
        <5> QED BY <2>4, <2>13, <3>1, <3>2, <3>4
      <4>2. i \in Slots /\ i \in InFlight' \ InFlight
        <5>1. Offset(lastRetired) = 0 /\ Offset(lastFetched) = Fetched /\ Fetched' = Offset(lastFetched')
          BY <1>1, PointerFacts DEF IInv, Fetched, Offset
        <5>2. i \in Walk(lastFetched, lastRetired) <=> 0 < Offset(i) /\ Offset(i) <= Fetched
          BY <1>3, <1>4, <5>1, WalkFacts DEF Offset
        <5>3. i \in Walk(lastFetched', lastRetired) <=> 0 < Offset(i) /\ Offset(i) <= Fetched + n
          <6>1. Distance(lastRetired, lastFetched') = Fetched + n /\ 0 <= Fetched + n
            <7>1. Distance(lastRetired, lastFetched') = Fetched + n
              BY <1>1 DEF Fetched, Offset
            <7> HIDE DEF n
            <7> QED BY <1>3, <7>1
          <6> QED BY <1>4, <5>1, <6>1, WalkFacts DEF Offset
        <5>4. ~(Offset(i) <= Fetched)
          BY <1>3, <2>6
        <5> QED BY <1>1, <2>6, <5>2, <5>3, <5>4 DEF InFlight
      <4>3. Dec(i) \in Slots /\ Offset(Dec(i)) = Fetched + (k - 1)
        <5>1. i # lastRetired
          BY <2>6, PointerFacts DEF IInv
        <5>2. Dec(i) \in Slots /\ Offset(Dec(i)) = Offset(i) - 1
          BY <1>4, <5>1, DecFacts DEF Offset
        <5>3. k \in Nat
          BY <2>2
        <5> QED BY <1>3, <2>5, <5>2, <5>3
      <4>4. CASE k = 1
        <5>1. Offset(Dec(i)) = Fetched
          BY <1>3, <4>3, <4>4
        <5>2. Dec(i) = lastFetched
          BY <1>4, <4>3, <5>1, DistanceDetermines DEF Offset, Fetched
        <5>3. lastCall # "none"
          BY <3>4, <4>4 DEF UndoesPush
        <5> QED BY <2>8, <2>15, <4>1, <4>2, <5>2, <5>3 DEF PushTakenBack
      <4>5. CASE k # 1
        <5> DEFINE l == k - 1
        <5>1. l \in 1 .. n /\ Fetched < Fetched + l /\ Fetched + l <= Fetched + n
              /\ (Fetched + l) - Fetched = l
          <6>1. k \in 1 .. n
            BY <2>2
          <6> HIDE DEF n
          <6> QED BY <1>3, <4>5, <6>1
        <5> HIDE DEF l
        <5>2. Offset(Dec(i)) = Fetched + l
          BY <4>3 DEF l
        <5>3. window'[Dec(i)] = Inserted(g[l], kept[l])
          BY <1>2, <4>3, <5>1, <5>2
        <5>4. window'[Dec(i)].kind = g[l].kind
          BY <5>1, <5>3, InsertedFacts
        <5>5. g[l].kind = "call"
          BY <3>4, <4>5 DEF UndoesPush, l
        <5>6. Dec(i) # lastFetched
          <6>1. Offset(lastFetched) = Fetched
            BY DEF Fetched
          <6> QED BY <1>3, <5>1, <5>2, <6>1
        <5> QED BY <2>8, <2>15, <4>1, <4>2, <5>4, <5>5, <5>6 DEF PushTakenBack
      <4> QED BY <4>4, <4>5
    <3> QED BY <3>3, <3>4
  <2> QED BY <2>14, <2>15
<1> QED BY <1>8, <1>9

\* A squash leaves fetch on the state of the youngest control that stays.
LEMMA SquashFollows ==
  ASSUME TypeOK, NEW win \in [Slots -> Instruction \cup {Empty}], NEW retired \in Slots,
         NEW good \in Slots, NEW arch \in 0 .. Histories - 1,
         PartialSquash(win, retired, good, arch),
         Distance(retired, good) <= Distance(retired, lastScheduled),
         Distance(retired, lastScheduled) <= Distance(retired, lastDecoded),
         Distance(retired, lastDecoded) <= Distance(retired, lastFetched),
         lastRetired' = retired, archBPS' = arch
  PROVE  SpecFollowsWindow'
<1> DEFINE G == Distance(retired, good)
<1>1. /\ lastFetched' = good
      /\ window' \in [Slots -> Instruction \cup {Empty}]
      /\ \A i \in Slots : window'[i] =
             IF G < Distance(retired, i) /\ Distance(retired, i) <= Distance(retired, lastFetched)
             THEN Empty ELSE win[i]
      /\ specBPS' = Restored(win, retired, good, arch)
  BY SquashEffect
<1>2. ASSUME NEW i \in Slots, Distance(retired, i) <= G
      PROVE  window'[i] = win[i]
  <2>1. Distance(retired, i) \in Nat /\ G \in Nat
    BY DistanceFacts
  <2>2. ~(G < Distance(retired, i))
    BY <1>2, <2>1
  <2> QED BY <1>1, <2>2
<1>3. ControlsOf(win, retired, good) = ControlsOf(window', retired, good)
  <2>1. \A i : i \in ControlsOf(win, retired, good) <=>
            /\ i \in Slots /\ win[i].kind \in ControlKinds
            /\ 0 < Distance(retired, i) /\ Distance(retired, i) <= G
    BY ControlsFacts
  <2>2. \A i : i \in ControlsOf(window', retired, good) <=>
            /\ i \in Slots /\ window'[i].kind \in ControlKinds
            /\ 0 < Distance(retired, i) /\ Distance(retired, i) <= G
    BY ControlsFacts
  <2> QED BY <1>2, <2>1, <2>2
<1>4. \A i \in ControlsOf(win, retired, good) : win[i].history = window'[i].history
  BY <1>2, ControlsFacts
<1>5. Restored(win, retired, good, arch) = Restored(window', retired, good, arch)
  <2>1. \A i, j \in ControlsOf(win, retired, good) :
            Distance(retired, i) <= Distance(retired, j) => Distance(retired, i) <= Distance(retired, j)
    OBVIOUS
  <2> QED BY <1>1, <1>3, <1>4, <2>1, RestoredSame
<1> QED BY <1>1, <1>5 DEF SpecFollowsWindow

LEMMA RecoverFollows ==
  ASSUME IInv, Recover, exception.type # "none"
  PROVE  SpecFollowsWindow'
<1> DEFINE good == exception.index
           win == IF exception.type = "mispredict"
                  THEN [window EXCEPT ![good].wrong = FALSE] ELSE window
<1>1. /\ lastRetired \in Slots /\ archBPS \in 0 .. Histories - 1 /\ TypeOK
      /\ window \in [Slots -> Instruction \cup {Empty}]
  BY TypeFacts DEF IInv, Pointed
<1>2. /\ good \in Slots /\ Offset(good) <= Scheduled
      /\ exception.type = "mispredict" => window[good].kind \in ControlKinds
  BY DEF IInv, ExceptionFits
<1>3. exception.type = "mispredict" => [window[good] EXCEPT !.wrong = FALSE] \in Instruction
  <2>1. exception.type = "mispredict" => window[good] \in Instruction
    BY <1>1, <1>2, RecordFacts
  <2>2. \A d \in Instruction : [d EXCEPT !.wrong = FALSE] \in Instruction
    BY DEF Instruction
  <2> QED BY <2>1, <2>2
<1>4. PartialSquash(win, lastRetired, good, archBPS) /\ lastRetired' = lastRetired /\ archBPS' = archBPS
  BY DEF Recover
<1> HIDE DEF good
<1>5. win \in [Slots -> Instruction \cup {Empty}]
  BY <1>1, <1>2, <1>3
<1> HIDE DEF win
<1>6. /\ Distance(lastRetired, good) <= Distance(lastRetired, lastScheduled)
      /\ Distance(lastRetired, lastScheduled) <= Distance(lastRetired, lastDecoded)
      /\ Distance(lastRetired, lastDecoded) <= Distance(lastRetired, lastFetched)
  BY <1>2 DEF IInv, InRing, Scheduled, Decoded, Fetched, Offset
<1> QED BY <1>1, <1>2, <1>4, <1>5, <1>6, SquashFollows

LEMMA RetireAndSquashFollows ==
  ASSUME IInv, NEW traps \in BOOLEAN, RetireAndSquash(traps)
  PROVE  SpecFollowsWindow'
<1>0. /\ OldestDone /\ lastRetired' = Oldest
      /\ archBPS' = (IF traps THEN archBPS ELSE ArchAfterOldest)
      /\ PartialSquash(WithoutOldest, Oldest, Oldest, archBPS')
  BY DEF RetireAndSquash
<1>1. archBPS \in 0 .. Histories - 1 /\ window \in [Slots -> Instruction \cup {Empty}]
  BY TypeFacts DEF IInv
<1>2. archBPS' \in 0 .. Histories - 1
  BY <1>0, <1>1, RetiredHistory
<1>3. /\ Oldest \in Slots
      /\ Distance(Oldest, lastFetched) = Fetched - 1
      /\ Distance(Oldest, lastDecoded) = Decoded - 1
      /\ Distance(Oldest, lastScheduled) = Scheduled - 1 /\ 1 <= Scheduled
  BY <1>0, OldestFacts
<1>4. /\ Fetched \in Nat /\ Decoded \in Nat /\ Scheduled \in Nat
      /\ Scheduled <= Decoded /\ Decoded <= Fetched
  BY PointerFacts DEF IInv, InRing
<1>5. Distance(Oldest, Oldest) = 0
  BY <1>3, DistanceDetermines
<1>6. /\ Distance(Oldest, Oldest) <= Distance(Oldest, lastScheduled)
      /\ Distance(Oldest, lastScheduled) <= Distance(Oldest, lastDecoded)
      /\ Distance(Oldest, lastDecoded) <= Distance(Oldest, lastFetched)
  BY <1>3, <1>4, <1>5
<1>7. WithoutOldest \in [Slots -> Instruction \cup {Empty}]
  BY <1>1, <1>3 DEF WithoutOldest
<1>8. TypeOK
  BY DEF IInv
<1> QED BY <1>0, <1>2, <1>3, <1>6, <1>7, <1>8, SquashFollows

\* A retirement keeps fetch on that state, unless the oldest pops the stack again
\* in front of other controls.
LEMMA RetireOneFollows ==
  ASSUME IInv, RetireOne, SpecFollowsWindow
  PROVE  \/ SpecFollowsWindow'
         \/ window[Oldest].popAgain /\ Controls' # {}
<1>0. /\ OldestDone /\ phase = "retire" /\ lastRetired' = Oldest /\ lastFetched' = lastFetched
      /\ archBPS' = ArchAfterOldest /\ specBPS' = SpecAfterOldest
  BY DEF RetireOne
<1>1. /\ lastFetched \in Slots /\ lastRetired \in Slots
      /\ window \in [Slots -> Instruction \cup {Empty}]
  BY TypeFacts DEF IInv, Pointed
<1>2. /\ Oldest \in Slots /\ Offset(Oldest) = 1 /\ Used(Oldest)
      /\ \A i \in Slots : Offset(i) \in Nat
  BY <1>0, OldestFacts, PointerFacts DEF IInv
<1>3. /\ \A i \in Slots : /\ Used(i)' <=> Used(i) /\ i # Oldest
                          /\ Used(i)' => Offset(i)' = Offset(i) - 1 /\ 1 < Offset(i)
      /\ \A i \in Slots : i # Oldest => window'[i] = window[i]
      /\ window' \in [Slots -> Instruction \cup {Empty}]
  BY RetireOneEffect
<1>4. specBPS = Restored(window, lastRetired, lastFetched, archBPS)
  BY <1>0, RecordFacts DEF SpecFollowsWindow, IInv, ExceptionFits
<1>5. \A i : i \in Controls <=> i \in Slots /\ window[i].kind \in ControlKinds /\ Used(i)
  BY ControlsUsed
<1>6. \A i : i \in Controls' <=> i \in Slots /\ window'[i].kind \in ControlKinds /\ Used(i)'
  BY <1>0, <1>1, <1>2, ControlsFacts DEF Controls, Used, Fetched, Offset
<1>7. \A i : i \in Controls' <=> i \in Controls /\ i # Oldest
  BY <1>3, <1>5, <1>6
<1>8. /\ Controls = ControlsOf(window, lastRetired, lastFetched)
      /\ Controls' = ControlsOf(window', lastRetired', lastFetched')
  BY DEF Controls
<1>9. CASE Controls' = {}
  <2>1. Restored(window', lastRetired', lastFetched', archBPS') = archBPS'
    BY <1>0, <1>1, <1>2, <1>3, <1>8, <1>9, RestoredFacts
  <2>2. specBPS' = archBPS'
    <3>1. CASE window[Oldest].popAgain
      BY <1>0, <3>1 DEF SpecAfterOldest
    <3>2. CASE ~window[Oldest].popAgain /\ Oldest \in Controls
      <4>1. \A j \in Controls : Distance(lastRetired, j) <= Distance(lastRetired, Oldest)
        BY <1>2, <1>7, <1>9 DEF Offset
      <4>2. Restored(window, lastRetired, lastFetched, archBPS) = window[Oldest].history
        BY <1>1, <1>8, <3>2, <4>1, YoungestRestored
      <4>3. window[Oldest].kind \in ControlKinds
        BY <1>5, <3>2
      <4> QED BY <1>0, <1>4, <3>2, <4>2, <4>3 DEF SpecAfterOldest, ArchAfterOldest
    <3>3. CASE ~window[Oldest].popAgain /\ Oldest \notin Controls
      <4>1. Controls = {}
        BY <1>7, <1>9, <3>3
      <4>2. Restored(window, lastRetired, lastFetched, archBPS) = archBPS
        BY <1>1, <1>8, <4>1, RestoredFacts
      <4>3. window[Oldest].kind \notin ControlKinds
        BY <1>2, <1>5, <3>3
      <4> QED BY <1>0, <1>4, <3>3, <4>2, <4>3 DEF SpecAfterOldest, ArchAfterOldest
    <3> QED BY <3>1, <3>2, <3>3
  <2> QED BY <2>1, <2>2 DEF SpecFollowsWindow
<1>10. CASE Controls' # {} /\ ~window[Oldest].popAgain
  <2>1. PICK i \in Controls' :
            /\ \A j \in Controls' : Distance(lastRetired', j) <= Distance(lastRetired', i)
            /\ Restored(window', lastRetired', lastFetched', archBPS') = window'[i].history
    BY <1>0, <1>1, <1>2, <1>3, <1>8, <1>10, YoungestRestored
  <2>2. /\ i \in Controls /\ window'[i] = window[i] /\ i \in Slots
        /\ Offset(i)' = Offset(i) - 1 /\ 1 < Offset(i)
    BY <1>3, <1>5, <1>6, <1>7, <2>1
  <2>3. \A j \in Controls : Offset(j) <= Offset(i)
    <3> SUFFICES ASSUME NEW j \in Controls, j # Oldest PROVE Offset(j) <= Offset(i)
      BY <1>2, <2>2
    <3>1. j \in Controls' /\ j \in Slots
      BY <1>5, <1>7
    <3>2. Offset(j)' <= Offset(i)'
      BY <2>1, <3>1 DEF Offset
    <3>3. Offset(j)' = Offset(j) - 1 /\ Offset(j) \in Nat /\ Offset(i) \in Nat
      BY <1>2, <1>3, <1>6, <2>2, <3>1
    <3> QED BY <2>2, <3>2, <3>3
  <2>4. Restored(window, lastRetired, lastFetched, archBPS) = window[i].history
    BY <1>1, <1>8, <2>2, <2>3, YoungestRestored DEF Offset
  <2>5. specBPS' = specBPS
    BY <1>0, <1>10 DEF SpecAfterOldest
  <2> QED BY <1>4, <2>1, <2>2, <2>4, <2>5 DEF SpecFollowsWindow
<1> QED BY <1>9, <1>10

\* A completion changes the state of a control only when it raises an exception.
LEMMA CompleteFollows ==
  ASSUME IInv, NEW i \in Slots, NEW stale \in SUBSET Slots, NEW popAgain \in BOOLEAN,
         Complete(i, stale, popAgain), SpecFollowsWindow, IInv'
  PROVE  /\ exception.type # "none" => exception'.type # "none"
         /\ SpecFollowsWindow'
<1>0. /\ UNCHANGED <<lastFetched, lastRetired, specBPS, archBPS>>
      /\ popAgain => window[i].wrong
  BY DEF Complete, pointers, bps
<1>1. /\ exception.type # "none" => exception'.type # "none"
      /\ window[i].wrong => exception'.type # "none"
  BY CompletionRaises
<1> SUFFICES ASSUME exception'.type = "none" PROVE SpecFollowsWindow'
  BY <1>1 DEF SpecFollowsWindow
<1>2. exception.type = "none" /\ ~window[i].wrong /\ ~popAgain
  BY <1>0, <1>1
<1>3. /\ lastFetched \in Slots /\ lastRetired \in Slots
      /\ window \in [Slots -> Instruction \cup {Empty}]
      /\ window' \in [Slots -> Instruction \cup {Empty}]
  BY TypeFacts DEF IInv, Pointed, TypeOK
<1>4. \A j \in Slots : window[j] \in Instruction =>
         /\ window'[j].kind = window[j].kind /\ window'[j].history = window[j].history
  <2> SUFFICES ASSUME NEW j \in Slots, window[j] \in Instruction
               PROVE  window'[j].kind = window[j].kind /\ window'[j].history = window[j].history
    OBVIOUS
  <2>1. window'[j] =
          IF j = i THEN [window[j] EXCEPT
                            !.done = TRUE, !.popAgain = popAgain,
                            !.history = IF window[j].wrong /\ window[j].kind # "restore" /\ ~popAgain
                                        THEN Flip(@) ELSE @]
          ELSE IF j \in stale THEN [window[j] EXCEPT !.stale = TRUE]
          ELSE window[j]
    BY DEF Complete
  <2> QED BY <1>2, <2>1 DEF Instruction
<1>5. \A j : j \in Controls <=> j \in Slots /\ window[j].kind \in ControlKinds /\ Used(j)
  BY ControlsUsed
<1>6. \A j : j \in Controls' <=> j \in Slots /\ window'[j].kind \in ControlKinds /\ Used(j)
  BY <1>0, <1>3, ControlsFacts DEF Controls, Used, Fetched, Offset
<1>7. \A j \in Slots : Used(j) => window[j] \in Instruction
  BY <1>3 DEF IInv, InRing
<1>8. Controls' = Controls
  BY <1>4, <1>5, <1>6, <1>7
<1>9. \A j \in Controls : window[j].history = window'[j].history
  BY <1>4, <1>5, <1>7
<1>10. Restored(window, lastRetired, lastFetched, archBPS)
           = Restored(window', lastRetired, lastFetched, archBPS)
  <2>1. \A j, k \in Controls : Distance(lastRetired, j) <= Distance(lastRetired, k)
            => Distance(lastRetired, j) <= Distance(lastRetired, k)
    OBVIOUS
  <2>2. ControlsOf(window, lastRetired, lastFetched) = ControlsOf(window', lastRetired, lastFetched)
    BY <1>0, <1>8 DEF Controls
  <2> QED BY <1>3, <1>9, <2>1, <2>2, RestoredSame DEF Controls
<1> QED BY <1>0, <1>2, <1>10 DEF SpecFollowsWindow

HistoryFollows ==
    /\ SpecFollowsWindow =>
           \/ SpecFollowsWindow'
           \/ /\ lastRetired' # lastRetired /\ window[Oldest].popAgain
              /\ \E i \in InFlight' : window'[i].kind \in ControlKinds
           \/ PushTakenBack
    /\ exception.type # "none" /\ exception'.type = "none" => SpecFollowsWindow'

LEMMA NextKeepsHistory == IInv /\ IInv' /\ Next => HistoryFollows
<1> SUFFICES ASSUME IInv, IInv', Next PROVE HistoryFollows
  OBVIOUS
<1>1. ASSUME UNCHANGED <<window, lastFetched, lastRetired, specBPS, archBPS, exception>>
      PROVE  HistoryFollows
  <2>1. SpecFollowsWindow => SpecFollowsWindow'
    BY <1>1 DEF SpecFollowsWindow
  <2> QED BY <1>1, <2>1 DEF HistoryFollows
<1>2. CASE FetchStalled \/ RetireNone \/ Wakeup \/ EndCycle
  BY <1>1, <1>2 DEF FetchStalled, RetireNone, Wakeup, EndCycle, pointers, bps
<1>3. ASSUME NEW g \in Groups, FetchGroup(g) PROVE HistoryFollows
  <2>1. exception' = exception
    BY <1>3 DEF FetchGroup
  <2>2. SpecFollowsWindow => SpecFollowsWindow' \/ PushTakenBack
    BY <1>3, FetchFollows
  <2> QED BY <2>1, <2>2 DEF HistoryFollows
<1>4. CASE Schedule \/ \E n \in 0 .. MaxDecode : Decode(n)
  BY <1>1, <1>4 DEF Schedule, Decode, bps
<1>5. CASE Recover
  <2>1. CASE exception.type = "none"
    <3>1. exception = NoException
      BY <2>1, TypeFacts DEF IInv
    <3>2. UNCHANGED <<window, lastFetched, lastRetired, specBPS, archBPS, exception>>
      BY <1>5, <2>1, <3>1 DEF Recover, ClearException, pointers
    <3> QED BY <1>1, <3>2
  <2>2. CASE exception.type # "none"
    BY <1>5, <2>2, RecoverFollows DEF HistoryFollows
  <2> QED BY <2>1, <2>2
<1>6. CASE RetireOne
  <2>1. exception' = exception /\ OldestDone /\ lastRetired' = Oldest
    BY <1>6 DEF RetireOne
  <2>2. lastRetired' # lastRetired
    BY <2>1, OldestFacts
  <2>3. SpecFollowsWindow => SpecFollowsWindow' \/ (window[Oldest].popAgain /\ Controls' # {})
    BY <1>6, RetireOneFollows
  <2>4. Controls' # {} => \E i \in InFlight' : window'[i].kind \in ControlKinds
    BY DEF Controls, ControlsOf, InFlight
  <2> QED BY <2>1, <2>2, <2>3, <2>4 DEF HistoryFollows
<1>7. ASSUME NEW traps \in BOOLEAN, RetireAndSquash(traps) PROVE HistoryFollows
  BY <1>7, RetireAndSquashFollows DEF HistoryFollows
<1>8. ASSUME NEW i \in Slots, NEW stale \in SUBSET Slots, NEW popAgain \in BOOLEAN,
             Complete(i, stale, popAgain)
      PROVE  HistoryFollows
  <2>1. exception.type # "none" => exception'.type # "none"
    BY <1>8, CompletionRaises
  <2>2. SpecFollowsWindow => SpecFollowsWindow'
    BY <1>8, CompleteFollows
  <2> QED BY <2>1, <2>2 DEF HistoryFollows
<1> QED BY <1>2, <1>3, <1>4, <1>5, <1>6, <1>7, <1>8 DEF Next

\* SpecHistoryKept: whatever a squash cuts off, fetch runs on the predictor state
\* of the youngest control left, and stays on it but for a return that pops the
\* stack again in front of other controls, and a restore that takes back the push of
\* the call it is fetched behind.
THEOREM PredictorFollowsWindow == Spec => SpecHistoryKept
<1>1. IInv /\ IInv' /\ [Next]_vars => [HistoryFollows]_vars
  BY NextKeepsHistory
<1>2. [][HistoryFollows]_vars => SpecHistoryKept
  BY PTL DEF SpecHistoryKept, HistoryFollows
<1> QED BY <1>1, <1>2, Invariance, PTL DEF Spec

-----------------------------------------------------------------------------
(***************************************************************************)
(* The window implements the queue of InOrderWindow.                       *)
(***************************************************************************)

\* What a pending exception names is a cause: a misprediction found out, or the
\* instruction before a stale one.
Caused ==
    /\ exception.type = "mispredict" =>
           window[exception.index].wrong /\ window[exception.index].done
    /\ exception.type = "replay" =>
           \E i \in Slots : Offset(i) = Offset(exception.index) + 1 /\ window[i].stale

StageAt(k, scheduled, decoded) ==
    IF k <= scheduled THEN "scheduled" ELSE IF k <= decoded THEN "decoded" ELSE "fetched"

Stages == {"scheduled", "decoded", "fetched"}

Elements == [kind : Kinds, done : BOOLEAN, stale : BOOLEAN, wrong : BOOLEAN, stage : Stages]

Place(i) == Queued(window[i], StageAt(Offset(i), Scheduled, Decoded))

\* The queue, place by place.
QueueShape ==
    /\ Queue \in [1 .. Fetched -> Elements]
    /\ \A i \in Slots : Used(i) => Offset(i) \in 1 .. Fetched /\ Queue[Offset(i)] = Place(i)
    /\ \A k \in 1 .. Fetched : \E i \in Slots : Used(i) /\ Offset(i) = k

LEMMA QueuedFacts ==
  ASSUME NEW d \in Instruction, NEW s \in Stages
  PROVE  Queued(d, s) \in Elements
BY DEF Queued, Instruction, Elements

LEMMA IInvShape == IInv => QueueShape
<1> SUFFICES ASSUME IInv PROVE QueueShape
  OBVIOUS
<1> DEFINE At(k) == (lastRetired + k) % RobSize
<1>1. /\ lastFetched \in Slots /\ lastDecoded \in Slots /\ lastScheduled \in Slots
      /\ lastRetired \in Slots /\ window \in [Slots -> Instruction \cup {Empty}]
  BY TypeFacts DEF IInv, Pointed
<1>2. /\ Fetched \in Nat /\ Fetched < RobSize /\ Decoded \in Nat /\ Scheduled \in Nat /\ RobSize \in Nat
      /\ Scheduled <= Decoded /\ Decoded <= Fetched
      /\ \A i \in Slots : Offset(i) \in Nat /\ Offset(i) < RobSize
      /\ Offset(lastRetired) = 0
  BY PointerFacts DEF IInv, InRing
<1>3. ASSUME NEW k \in 1 .. Fetched
      PROVE  At(k) \in Slots /\ Offset(At(k)) = k /\ Used(At(k))
  <2>1. k \in Nat /\ Distance(lastRetired, lastRetired) = 0
    BY <1>2 DEF Offset
  <2>2. Distance(lastRetired, lastRetired) + k < RobSize
    BY <1>2, <2>1
  <2>3. At(k) \in Slots /\ Distance(lastRetired, At(k)) = Distance(lastRetired, lastRetired) + k
    BY <1>1, <2>1, <2>2, AdvanceFacts
  <2> HIDE DEF At
  <2>4. Offset(At(k)) = k
    BY <2>1, <2>3 DEF Offset
  <2> QED BY <2>1, <2>3, <2>4 DEF Used
<1>4. ASSUME NEW i \in Slots, Used(i)
      PROVE  StageOf(i) = StageAt(Offset(i), Scheduled, Decoded)
  <2>1. i \in Walk(lastScheduled, lastRetired) <=> Offset(i) <= Scheduled
    BY <1>4, ScheduledSlots DEF Used
  <2>2. i \in Walk(lastDecoded, lastRetired) <=> Offset(i) <= Decoded
    <3>1. Distance(lastRetired, lastRetired) <= Distance(lastRetired, lastDecoded)
      BY <1>2 DEF Offset, Decoded
    <3>2. i \in Walk(lastDecoded, lastRetired) <=>
             /\ Distance(lastRetired, lastRetired) < Distance(lastRetired, i)
             /\ Distance(lastRetired, i) <= Distance(lastRetired, lastDecoded)
      BY <1>1, <3>1, WalkFacts
    <3> QED BY <1>2, <1>4, <3>2 DEF Used, Offset, Decoded
  <2> QED BY <2>1, <2>2 DEF StageOf, StageAt
<1>5. Queue = [k \in 1 .. Fetched |-> Queued(window[At(k)], StageOf(At(k)))]
  BY DEF Queue, Fetched
<1> HIDE DEF At
<1>6. \A k \in 1 .. Fetched : Queue[k] = Place(At(k))
  BY <1>3, <1>4, <1>5 DEF Place
<1>7. ASSUME NEW i \in Slots, Used(i)
      PROVE  Offset(i) \in 1 .. Fetched /\ Queue[Offset(i)] = Place(i) /\ Place(i) \in Elements
  <2>1. Offset(i) \in 1 .. Fetched
    BY <1>2, <1>7 DEF Used
  <2>2. At(Offset(i)) = i
    BY <1>1, <1>3, <2>1, DistanceDetermines DEF Offset
  <2>3. window[i] \in Instruction
    BY <1>1, <1>7 DEF IInv, InRing
  <2>4. StageAt(Offset(i), Scheduled, Decoded) \in Stages
    BY DEF StageAt, Stages
  <2> QED BY <1>6, <2>1, <2>2, <2>3, <2>4, QueuedFacts DEF Place
<1>8. Queue \in [1 .. Fetched -> Elements]
  BY <1>3, <1>5, <1>6, <1>7
<1> QED BY <1>3, <1>7, <1>8 DEF QueueShape

\* The queue as a sequence, its stages and the places that cause a squash.
LEMMA QueueFacts ==
  ASSUME IInv
  PROVE  /\ Queue \in Seq(Elements) /\ Len(Queue) = Fetched /\ DOMAIN Queue = 1 .. Fetched
         /\ \A k \in 1 .. Fetched : Queue[k].stage = StageAt(k, Scheduled, Decoded)
         /\ Fetched \in Nat /\ Fetched <= RobSize - 1
<1>1. QueueShape
  BY IInvShape
<1>2. Fetched \in Nat /\ Fetched <= RobSize - 1
  BY PointerFacts DEF IInv
<1>3. Queue \in Seq(Elements) /\ Len(Queue) = Fetched /\ DOMAIN Queue = 1 .. Fetched
  <2>1. Queue \in [1 .. Fetched -> Elements]
    BY <1>1 DEF QueueShape
  <2>2. Queue \in Seq(Elements)
    BY <1>2, <2>1, SeqDef
  <2> QED BY <1>2, <2>1, <2>2, LenProperties
<1>4. ASSUME NEW k \in 1 .. Fetched PROVE Queue[k].stage = StageAt(k, Scheduled, Decoded)
  <2>1. PICK i \in Slots : Used(i) /\ Offset(i) = k
    BY <1>1 DEF QueueShape
  <2>2. Queue[k] = Place(i)
    BY <1>1, <2>1 DEF QueueShape
  <2> QED BY <2>1, <2>2 DEF Place, Queued
<1> QED BY <1>2, <1>3, <1>4

\* The next queue is the one with these elements.
LEMMA NextQueue ==
  ASSUME QueueShape', NEW e, Fetched' \in Nat,
         \A i \in Slots : Used(i)' => Place(i)' = e[Offset(i)']
  PROVE  Queue' = [k \in 1 .. Fetched' |-> e[k]]
<1>1. Queue' \in [1 .. Fetched' -> Elements]
  BY DEF QueueShape
<1>2. ASSUME NEW k \in 1 .. Fetched' PROVE Queue'[k] = e[k]
  <2>1. PICK i \in Slots : Used(i)' /\ Offset(i)' = k
    BY DEF QueueShape
  <2>2. Queue'[k] = Place(i)'
    BY <2>1 DEF QueueShape
  <2> QED BY <2>1, <2>2
<1> QED BY <1>1, <1>2

LEMMA ShapeNext == IInv' => QueueShape'
BY IInvShape, PTL

LEMMA InitSimulates == Init => InOrder!Init
<1> SUFFICES ASSUME Init PROVE Queue = <<>>
  BY DEF InOrder!Init
<1>1. IInv /\ Fetched = 0
  <2>1. IInv /\ lastFetched = lastRetired
    BY InitIInv DEF Init
  <2> QED BY <2>1, PointerFacts DEF IInv, Fetched
<1>2. Queue \in Seq(Elements) /\ Len(Queue) = 0
  BY <1>1, QueueFacts
<1> QED BY <1>2, EmptySeq

\* A step that moves no index and no instruction is none of the queue.
LEMMA QueueKept ==
  ASSUME UNCHANGED <<window, lastFetched, lastDecoded, lastScheduled, lastRetired>>
  PROVE  Queue' = Queue
BY DEF Queue, Offset, Queued, StageOf

LEMMA FetchSimulates ==
  ASSUME IInv, IInv', NEW g \in Groups, FetchGroup(g)
  PROVE  InOrder!Fetch(QueuedGroup(g))
<1> DEFINE n == Len(g)
           group == QueuedGroup(g)
<1>1. /\ Queue \in Seq(Elements) /\ Len(Queue) = Fetched /\ DOMAIN Queue = 1 .. Fetched
      /\ Fetched \in Nat /\ RobSize \in Nat
  BY QueueFacts, PointerFacts DEF IInv
<1>2. /\ n \in Nat /\ DOMAIN g = 1 .. n
      /\ \A k \in 1 .. n : g[k].kind \in Kinds /\ g[k].wrong \in BOOLEAN
  BY GroupFacts
<1>3. group \in Seq(Elements) /\ Len(group) = n
  <2>1. \A k \in 1 .. n :
            Queued([kind |-> g[k].kind, done |-> FALSE, stale |-> FALSE, wrong |-> g[k].wrong],
                   "fetched") \in Elements
    BY <1>2 DEF Queued, Elements, Stages
  <2>2. group \in [1 .. n -> Elements]
    BY <1>2, <2>1 DEF QueuedGroup
  <2> HIDE DEF group, n
  <2>3. group \in Seq(Elements)
    BY <1>2, <2>2, SeqDef
  <2> QED BY <1>2, <2>2, <2>3, LenProperties
<1>4. /\ Fetched' = Fetched + n /\ Decoded' = Decoded /\ Scheduled' = Scheduled
      /\ Fetched + n < RobSize /\ UNCHANGED <<lastDecoded, lastScheduled, lastRetired>>
      /\ \A i \in Slots : Offset(i)' = Offset(i)
      /\ \A i \in Slots : ~(Fetched < Offset(i) /\ Offset(i) <= Fetched + n)
                             => SameButHistory(window'[i], window[i])
      /\ \A i \in Slots : Fetched < Offset(i) /\ Offset(i) <= Fetched + n =>
             /\ Offset(i) - Fetched \in 1 .. n
             /\ \E h \in 0 .. Histories - 1 : window'[i] = Inserted(g[Offset(i) - Fetched], h)
  BY FetchEffect
<1>5. Len(Queue) + Len(group) <= RobSize - 1
  <2> HIDE DEF n, group
  <2> QED BY <1>1, <1>2, <1>3, <1>4
<1>6. Queue # <<>> => Queue[Len(Queue)].kind \notin Stoppers
  <2> SUFFICES ASSUME Queue # <<>> PROVE Queue[Fetched].kind \notin Stoppers
    BY <1>1
  <2>1. Fetched # 0
    BY <1>1, EmptySeq
  <2>2. lastFetched \in Slots /\ Used(lastFetched) /\ Offset(lastFetched) = Fetched
    BY <1>1, <2>1, TypeFacts DEF IInv, Pointed, Used, Fetched
  <2>3. Queue[Fetched] = Place(lastFetched)
    BY <2>2, IInvShape DEF QueueShape
  <2>4. fetchStatus \notin Stoppers
    BY DEF FetchGroup, StatusNow, Stoppers
  <2>5. window[lastFetched].kind \notin Stoppers
    BY <2>4 DEF IInv, Stopped
  <2> QED BY <2>3, <2>5 DEF Place, Queued
<1>7. Queue' = Queue \o group
  <2> DEFINE e == Queue \o group
  <2>1. /\ e \in Seq(Elements) /\ Len(e) = Fetched + n
        /\ \A k \in 1 .. Fetched + n : e[k] = IF k <= Fetched THEN Queue[k] ELSE group[k - Fetched]
    <3> HIDE DEF group, n
    <3> QED BY <1>1, <1>3, ConcatProperties
  <2>2. \A i \in Slots : Used(i)' => Place(i)' = e[Offset(i)']
    <3> SUFFICES ASSUME NEW i \in Slots, Used(i)' PROVE Place(i)' = e[Offset(i)']
      OBVIOUS
    <3> DEFINE o == Offset(i)
    <3>1. /\ Offset(i)' = o /\ 0 < o /\ o <= Fetched + n /\ o \in Nat
          /\ Scheduled \in Nat /\ Decoded \in Nat /\ Scheduled <= Decoded /\ Decoded <= Fetched
      BY <1>4, PointerFacts DEF Used, IInv, InRing
    <3>2. Place(i)' = Queued(window'[i], StageAt(o, Scheduled, Decoded))
      BY <1>4, <3>1 DEF Place, Queued, StageAt
    <3>3. e[o] = IF o <= Fetched THEN Queue[o] ELSE group[o - Fetched]
      <4> HIDE DEF n, e, group, o
      <4> QED BY <1>1, <1>2, <2>1, <3>1
    <3>4. CASE o <= Fetched
      <4>1. Used(i) /\ SameButHistory(window'[i], window[i])
        BY <1>1, <1>4, <3>1, <3>4 DEF Used
      <4>2. Queue[o] = Place(i)
        BY <4>1, IInvShape DEF QueueShape
      <4>3. Place(i)' = Place(i)
        BY <3>2, <4>1 DEF Place, Queued, SameButHistory
      <4> QED BY <3>1, <3>3, <3>4, <4>2, <4>3
    <3>5. CASE ~(o <= Fetched)
      <4> DEFINE p == o - Fetched
      <4>1. Fetched < o
        BY <1>1, <3>1, <3>5
      <4>2. p \in 1 .. n /\ \E h \in 0 .. Histories - 1 : window'[i] = Inserted(g[p], h)
        BY <1>4, <3>1, <4>1
      <4>3. PICK h \in 0 .. Histories - 1 : window'[i] = Inserted(g[p], h)
        BY <4>2
      <4>4. StageAt(o, Scheduled, Decoded) = "fetched"
        BY <1>1, <3>1, <4>1 DEF StageAt
      <4>5. group[p] = Queued([kind |-> g[p].kind, done |-> FALSE, stale |-> FALSE,
                               wrong |-> g[p].wrong], "fetched")
        BY <1>2, <4>2 DEF QueuedGroup
      <4>6. Queued(Inserted(g[p], h), "fetched") = group[p]
        BY <4>5 DEF Queued, Inserted
      <4> QED BY <3>1, <3>2, <3>3, <3>5, <4>3, <4>4, <4>6
    <3> QED BY <3>4, <3>5
  <2>3. Queue' = [k \in 1 .. Fetched' |-> e[k]]
    <3>1. QueueShape' /\ Fetched' \in Nat
      BY <1>1, <1>2, <1>4, ShapeNext
    <3> HIDE DEF e
    <3> QED BY <2>2, <3>1, NextQueue
  <2>4. e = [k \in 1 .. Fetched' |-> e[k]]
    <3> HIDE DEF e, n
    <3>1. DOMAIN e = 1 .. Fetched'
      BY <1>4, <2>1, LenProperties
    <3>2. e \in [1 .. Fetched' -> Elements]
      BY <1>4, <2>1, LenProperties
    <3> QED BY <3>2
  <2> QED BY <2>3, <2>4
<1> QED BY <1>5, <1>6, <1>7 DEF InOrder!Fetch

LEMMA AdvanceSimulates ==
  ASSUME IInv, IInv', UNCHANGED <<window, lastFetched, lastRetired>>,
         NEW from \in Stages, NEW to \in Stages, NEW last \in Nat,
         \A k \in 1 .. Fetched : StageAt(k, Scheduled', Decoded') =
             IF StageAt(k, Scheduled, Decoded) = from /\ k <= last THEN to
             ELSE StageAt(k, Scheduled, Decoded)
  PROVE  InOrder!Advance(from, to, last)
<1> DEFINE e == [k \in DOMAIN Queue |->
                    IF k \in InOrder!Staged(from) /\ k <= last THEN [Queue[k] EXCEPT !.stage = to]
                    ELSE Queue[k]]
<1>1. /\ DOMAIN Queue = 1 .. Fetched /\ Fetched \in Nat
      /\ \A k \in 1 .. Fetched : Queue[k].stage = StageAt(k, Scheduled, Decoded)
  BY QueueFacts
<1>2. /\ Fetched' = Fetched
      /\ \A i : Offset(i)' = Offset(i) /\ (Used(i)' <=> Used(i))
  BY DEF Fetched, Offset, Used
<1>3. \A i \in Slots : Used(i)' => Place(i)' = e[Offset(i)']
  <2> SUFFICES ASSUME NEW i \in Slots, Used(i) PROVE Place(i)' = e[Offset(i)]
    BY <1>2
  <2> DEFINE o == Offset(i)
             stage == StageAt(o, Scheduled, Decoded)
  <2>1. o \in 1 .. Fetched /\ Queue[o] = Queued(window[i], stage)
    BY IInvShape DEF QueueShape, Place
  <2>2. Place(i)' = Queued(window[i], StageAt(o, Scheduled', Decoded'))
    BY <1>2 DEF Place, Queued, StageAt
  <2>3. o \in InOrder!Staged(from) <=> stage = from
    BY <1>1, <2>1 DEF InOrder!Staged
  <2>4. [Queued(window[i], stage) EXCEPT !.stage = to] = Queued(window[i], to)
    BY DEF Queued
  <2>5. e[o] = IF stage = from /\ o <= last THEN Queued(window[i], to) ELSE Queued(window[i], stage)
    <3>1. e[o] = IF o \in InOrder!Staged(from) /\ o <= last THEN [Queue[o] EXCEPT !.stage = to]
                 ELSE Queue[o]
      BY <1>1, <2>1
    <3> HIDE DEF e, o, stage
    <3> QED BY <2>1, <2>3, <2>4, <3>1
  <2>6. StageAt(o, Scheduled', Decoded') = IF stage = from /\ o <= last THEN to ELSE stage
    BY <2>1
  <2> HIDE DEF e, o, stage
  <2> QED BY <2>2, <2>5, <2>6 DEF o
<1>4. Queue' = [k \in 1 .. Fetched' |-> e[k]]
  <2>1. QueueShape' /\ Fetched' \in Nat
    BY <1>1, <1>2, ShapeNext
  <2> HIDE DEF e
  <2> QED BY <1>3, <2>1, NextQueue
<1>5. e = [k \in 1 .. Fetched' |-> e[k]]
  BY <1>1, <1>2
<1> QED BY <1>4, <1>5 DEF InOrder!Advance

LEMMA DecodeSimulates ==
  ASSUME IInv, IInv', NEW n \in 0 .. MaxDecode, Decode(n)
  PROVE  Queue' = Queue \/ \E last \in 1 .. RobSize - 1 : InOrder!Decode(last)
<1>0. UNCHANGED <<window, lastFetched, lastScheduled, lastRetired>>
  BY DEF Decode
<1>1. /\ Fetched' = Fetched /\ Scheduled' = Scheduled
      /\ Decoded <= Decoded' /\ Decoded' <= Fetched' /\ Scheduled <= Decoded
  BY <1>0, DecodeIInv DEF IInv, InRing, Fetched, Scheduled, Offset
<1>2. /\ Fetched \in Nat /\ Scheduled \in Nat /\ Decoded \in Nat /\ Fetched <= RobSize - 1
      /\ RobSize \in Nat /\ lastDecoded \in Slots /\ lastRetired \in Slots
  BY PointerFacts, QueueFacts, TypeFacts DEF IInv, Pointed
<1>3. lastDecoded' \in Slots /\ Decoded' = Distance(lastRetired, lastDecoded')
  BY <1>0 DEF IInv, TypeOK, pointers, Decoded, Offset
<1>4. Decoded' \in Nat
  BY <1>2, <1>3, DistanceFacts
<1>5. CASE Decoded' = Decoded
  <2>1. lastDecoded' = lastDecoded
    <3>1. Distance(lastRetired, lastDecoded') = Distance(lastRetired, lastDecoded)
      BY <1>3, <1>5 DEF Decoded, Offset
    <3> QED BY <1>2, <1>3, <3>1, DistanceDetermines
  <2> QED BY <1>0, <2>1, QueueKept
<1>6. CASE Decoded' # Decoded
  <2> DEFINE last == Decoded'
  <2>1. last \in 1 .. RobSize - 1 /\ Decoded < last /\ last \in 1 .. Fetched
    BY <1>1, <1>2, <1>4, <1>6
  <2>2. last \in InOrder!Staged("fetched")
    <3>1. DOMAIN Queue = 1 .. Fetched /\ Queue[last].stage = StageAt(last, Scheduled, Decoded)
      BY <2>1, QueueFacts
    <3>2. StageAt(last, Scheduled, Decoded) = "fetched"
      BY <1>1, <1>2, <1>4, <2>1 DEF StageAt
    <3> QED BY <2>1, <3>1, <3>2 DEF InOrder!Staged
  <2>3. InOrder!Advance("fetched", "decoded", last)
    <3>1. \A k \in 1 .. Fetched : StageAt(k, Scheduled', Decoded') =
             IF StageAt(k, Scheduled, Decoded) = "fetched" /\ k <= last THEN "decoded"
             ELSE StageAt(k, Scheduled, Decoded)
      BY <1>1, <1>2, <1>4 DEF StageAt
    <3>2. "fetched" \in Stages /\ "decoded" \in Stages
      BY DEF Stages
    <3> HIDE DEF last
    <3> QED BY <1>0, <2>1, <3>1, <3>2, AdvanceSimulates
  <2> QED BY <2>1, <2>2, <2>3 DEF InOrder!Decode
<1> QED BY <1>5, <1>6

LEMMA ScheduleSimulates ==
  ASSUME IInv, IInv', Schedule
  PROVE  Queue' = Queue \/ \E last \in 1 .. RobSize - 1 : InOrder!Schedule(last)
<1>0. UNCHANGED <<window, lastFetched, lastDecoded, lastRetired>>
  BY DEF Schedule
<1>1. /\ Fetched' = Fetched /\ Decoded' = Decoded
      /\ Scheduled <= Scheduled' /\ Scheduled' <= Decoded' /\ Decoded <= Fetched
      /\ Scheduled' <= WinSize
  BY <1>0, ScheduleIInv DEF IInv, InRing, Fetched, Decoded, Offset
<1>2. /\ Fetched \in Nat /\ Scheduled \in Nat /\ Decoded \in Nat /\ Fetched <= RobSize - 1
      /\ RobSize \in Nat /\ lastScheduled \in Slots /\ lastRetired \in Slots
  BY PointerFacts, QueueFacts, TypeFacts DEF IInv, Pointed
<1>3. lastScheduled' \in Slots /\ Scheduled' = Distance(lastRetired, lastScheduled')
  BY <1>0 DEF IInv, TypeOK, pointers, Scheduled, Offset
<1>4. Scheduled' \in Nat
  BY <1>2, <1>3, DistanceFacts
<1>5. CASE Scheduled' = Scheduled
  <2>1. lastScheduled' = lastScheduled
    <3>1. Distance(lastRetired, lastScheduled') = Distance(lastRetired, lastScheduled)
      BY <1>3, <1>5 DEF Scheduled, Offset
    <3> QED BY <1>2, <1>3, <3>1, DistanceDetermines
  <2> QED BY <1>0, <2>1, QueueKept
<1>6. CASE Scheduled' # Scheduled
  <2> DEFINE last == Scheduled'
  <2>1. last \in 1 .. RobSize - 1 /\ Scheduled < last /\ last \in 1 .. Fetched
    BY <1>1, <1>2, <1>4, <1>6
  <2>2. last \in InOrder!Staged("decoded")
    <3>1. DOMAIN Queue = 1 .. Fetched /\ Queue[last].stage = StageAt(last, Scheduled, Decoded)
      BY <2>1, QueueFacts
    <3>2. StageAt(last, Scheduled, Decoded) = "decoded"
      BY <1>1, <1>2, <1>4, <2>1 DEF StageAt
    <3> QED BY <2>1, <3>1, <3>2 DEF InOrder!Staged
  <2>3. InOrder!Advance("decoded", "scheduled", last)
    <3>1. \A k \in 1 .. Fetched : StageAt(k, Scheduled', Decoded') =
             IF StageAt(k, Scheduled, Decoded) = "decoded" /\ k <= last THEN "scheduled"
             ELSE StageAt(k, Scheduled, Decoded)
      BY <1>1, <1>2, <1>4 DEF StageAt
    <3>2. "scheduled" \in Stages /\ "decoded" \in Stages
      BY DEF Stages
    <3> HIDE DEF last
    <3> QED BY <1>0, <2>1, <3>1, <3>2, AdvanceSimulates
  <2> QED BY <1>1, <2>1, <2>2, <2>3 DEF InOrder!Schedule
<1> QED BY <1>5, <1>6

LEMMA CompletedFields ==
  ASSUME IInv, NEW i \in Slots, NEW stale \in SUBSET Slots, NEW popAgain \in BOOLEAN,
         Complete(i, stale, popAgain), NEW x \in Slots, window[x] \in Instruction
  PROVE  /\ i \notin stale
         /\ window'[x].kind = window[x].kind /\ window'[x].wrong = window[x].wrong
         /\ x = i => window'[x].done
         /\ x # i => window'[x].done = window[x].done
         /\ x \in stale => window'[x].stale
         /\ x \notin stale => window'[x].stale = window[x].stale
         /\ window'[x].done \in BOOLEAN /\ window'[x].stale \in BOOLEAN
<1>1. window'[x] =
         IF x = i THEN [window[x] EXCEPT
                           !.done = TRUE, !.popAgain = popAgain,
                           !.history = IF window[x].wrong /\ window[x].kind # "restore" /\ ~popAgain
                                       THEN Flip(@) ELSE @]
         ELSE IF x \in stale THEN [window[x] EXCEPT !.stale = TRUE]
         ELSE window[x]
  BY DEF Complete
<1>2. i \notin stale
  <2>1. i \in Executing /\ stale \subseteq Replayable(i)
    BY DEF Complete
  <2>2. Offset(i) \in Nat
    BY PointerFacts DEF IInv
  <2> QED BY <2>1, <2>2, ExecutingFacts
<1> QED BY <1>1, <1>2 DEF Instruction

LEMMA ElementChanged ==
  ASSUME NEW q \in Elements
  PROVE  /\ [q EXCEPT !.done = TRUE] = [kind |-> q.kind, done |-> TRUE, stale |-> q.stale,
                                        wrong |-> q.wrong, stage |-> q.stage]
         /\ [q EXCEPT !.stale = TRUE] = [kind |-> q.kind, done |-> q.done, stale |-> TRUE,
                                         wrong |-> q.wrong, stage |-> q.stage]
         /\ [q EXCEPT !.wrong = FALSE] = [kind |-> q.kind, done |-> q.done, stale |-> q.stale,
                                          wrong |-> FALSE, stage |-> q.stage]
         /\ q = [kind |-> q.kind, done |-> q.done, stale |-> q.stale, wrong |-> q.wrong,
                 stage |-> q.stage]
<1>1. \A a, b \in Elements :
          /\ a.kind = b.kind /\ a.done = b.done /\ a.stale = b.stale /\ a.wrong = b.wrong
          /\ a.stage = b.stage
          => a = b
  BY DEF Elements
<1>2. /\ q.kind \in Kinds /\ q.done \in BOOLEAN /\ q.stale \in BOOLEAN
      /\ q.wrong \in BOOLEAN /\ q.stage \in Stages
  BY DEF Elements
<1>3. [q EXCEPT !.done = TRUE] = [kind |-> q.kind, done |-> TRUE, stale |-> q.stale,
                                  wrong |-> q.wrong, stage |-> q.stage]
  <2> DEFINE new == [q EXCEPT !.done = TRUE]
             other == [kind |-> q.kind, done |-> TRUE, stale |-> q.stale,
                       wrong |-> q.wrong, stage |-> q.stage]
  <2>1. /\ new \in Elements /\ new.kind = q.kind /\ new.done = TRUE /\ new.stale = q.stale
        /\ new.wrong = q.wrong /\ new.stage = q.stage
    BY DEF Elements
  <2>2. /\ other \in Elements /\ other.kind = q.kind /\ other.done = TRUE
        /\ other.stale = q.stale /\ other.wrong = q.wrong /\ other.stage = q.stage
    BY <1>2 DEF Elements
  <2> HIDE DEF new, other
  <2> QED BY <1>1, <2>1, <2>2 DEF new, other
<1>4. [q EXCEPT !.stale = TRUE] = [kind |-> q.kind, done |-> q.done, stale |-> TRUE,
                                   wrong |-> q.wrong, stage |-> q.stage]
  <2> DEFINE new == [q EXCEPT !.stale = TRUE]
             other == [kind |-> q.kind, done |-> q.done, stale |-> TRUE,
                       wrong |-> q.wrong, stage |-> q.stage]
  <2>1. /\ new \in Elements /\ new.kind = q.kind /\ new.done = q.done /\ new.stale = TRUE
        /\ new.wrong = q.wrong /\ new.stage = q.stage
    BY DEF Elements
  <2>2. /\ other \in Elements /\ other.kind = q.kind /\ other.done = q.done
        /\ other.stale = TRUE /\ other.wrong = q.wrong /\ other.stage = q.stage
    BY <1>2 DEF Elements
  <2> HIDE DEF new, other
  <2> QED BY <1>1, <2>1, <2>2 DEF new, other
<1>5. [q EXCEPT !.wrong = FALSE] = [kind |-> q.kind, done |-> q.done, stale |-> q.stale,
                                    wrong |-> FALSE, stage |-> q.stage]
  <2> DEFINE new == [q EXCEPT !.wrong = FALSE]
             other == [kind |-> q.kind, done |-> q.done, stale |-> q.stale,
                       wrong |-> FALSE, stage |-> q.stage]
  <2>1. /\ new \in Elements /\ new.kind = q.kind /\ new.done = q.done /\ new.stale = q.stale
        /\ new.wrong = FALSE /\ new.stage = q.stage
    BY DEF Elements
  <2>2. /\ other \in Elements /\ other.kind = q.kind /\ other.done = q.done
        /\ other.stale = q.stale /\ other.wrong = FALSE /\ other.stage = q.stage
    BY <1>2 DEF Elements
  <2> HIDE DEF new, other
  <2> QED BY <1>1, <2>1, <2>2 DEF new, other
<1>6. q = [kind |-> q.kind, done |-> q.done, stale |-> q.stale, wrong |-> q.wrong,
           stage |-> q.stage]
  BY DEF Elements
<1> QED BY <1>3, <1>4, <1>5, <1>6

LEMMA CompleteSimulates ==
  ASSUME IInv, IInv', NEW i \in Slots, NEW stale \in SUBSET Slots, NEW popAgain \in BOOLEAN,
         Complete(i, stale, popAgain)
  PROVE  \E k \in 1 .. RobSize - 1 : \E late \in SUBSET (1 .. RobSize - 1) :
             InOrder!Complete(k, late)
<1> DEFINE k == Offset(i)
           late == {Offset(j) : j \in stale}
           e == [j \in DOMAIN Queue |->
                    IF j = k THEN [Queue[j] EXCEPT !.done = TRUE]
                    ELSE IF j \in late THEN [Queue[j] EXCEPT !.stale = TRUE]
                    ELSE Queue[j]]
<1>0. /\ i \in Executing /\ stale \subseteq Replayable(i)
      /\ UNCHANGED <<lastFetched, lastDecoded, lastScheduled, lastRetired>>
  BY DEF Complete, pointers
<1>1. /\ DOMAIN Queue = 1 .. Fetched /\ Fetched \in Nat /\ Fetched <= RobSize - 1
      /\ \A j \in 1 .. Fetched : Queue[j].stage = StageAt(j, Scheduled, Decoded)
      /\ RobSize \in Nat /\ Scheduled \in Nat /\ lastRetired \in Slots
      /\ Scheduled <= Fetched /\ Decoded \in Nat
      /\ window \in [Slots -> Instruction \cup {Empty}]
      /\ \A j \in Slots : Offset(j) \in Nat
  <2>1. Scheduled <= Decoded /\ Decoded <= Fetched
    BY DEF IInv, InRing
  <2> QED BY <2>1, QueueFacts, PointerFacts, TypeFacts DEF IInv, Pointed
<1>2. /\ Fetched' = Fetched /\ Decoded' = Decoded /\ Scheduled' = Scheduled
      /\ \A j : Offset(j)' = Offset(j) /\ (Used(j)' <=> Used(j))
  BY <1>0 DEF Fetched, Decoded, Scheduled, Offset, Used
<1>3. /\ 0 < k /\ k <= Scheduled /\ Used(i) /\ ~window[i].done
      /\ \A j \in stale : j \in Slots /\ k < Offset(j) /\ Offset(j) <= Scheduled
  BY <1>0, ExecutingFacts DEF Executing
<1>4. \A j \in 1 .. Scheduled : j \in InOrder!Staged("scheduled")
  BY <1>1 DEF InOrder!Staged, StageAt
<1>5. k \in 1 .. RobSize - 1 /\ k \in InOrder!Staged("scheduled") /\ ~Queue[k].done
  <2>1. Queue[k] = Place(i)
    BY <1>3, IInvShape DEF QueueShape
  <2>2. ~Queue[k].done
    BY <1>3, <2>1 DEF Place, Queued
  <2>3. k \in 1 .. Scheduled /\ k \in 1 .. RobSize - 1
    BY <1>1, <1>3
  <2> QED BY <1>4, <2>2, <2>3
<1>6. /\ late \in SUBSET (1 .. RobSize - 1)
      /\ late \subseteq {j \in InOrder!Staged("scheduled") : j > k}
  <2>1. ASSUME NEW j \in stale
        PROVE  Offset(j) \in 1 .. RobSize - 1 /\ Offset(j) \in 1 .. Scheduled /\ Offset(j) > k
    BY <1>1, <1>3
  <2> QED BY <1>4, <2>1
<1>7. \A x, y \in Slots : Offset(x) = Offset(y) => x = y
  BY <1>1, DistanceDetermines DEF Offset
<1>8. \A x \in Slots : Used(x)' => Place(x)' = e[Offset(x)']
  <2> SUFFICES ASSUME NEW x \in Slots, Used(x) PROVE Place(x)' = e[Offset(x)]
    BY <1>2
  <2> DEFINE o == Offset(x)
             stage == StageAt(o, Scheduled, Decoded)
  <2>1. o \in 1 .. Fetched /\ Queue[o] = Queued(window[x], stage)
    BY IInvShape DEF QueueShape, Place
  <2>2. Place(x)' = Queued(window'[x], stage)
    BY <1>2 DEF Place, Queued, StageAt
  <2>3. (o = k <=> x = i) /\ (o \in late <=> x \in stale)
    BY <1>3, <1>7
  <2>4. window[x] \in Instruction
    BY <1>1 DEF IInv, InRing
  <2>5. /\ window'[x].kind = window[x].kind /\ window'[x].wrong = window[x].wrong
        /\ x = i => window'[x].done
        /\ x # i => window'[x].done = window[x].done
        /\ x \in stale => window'[x].stale
        /\ x \notin stale => window'[x].stale = window[x].stale
        /\ window'[x].done \in BOOLEAN /\ window'[x].stale \in BOOLEAN
    BY <2>4, CompletedFields
  <2>6. ~(x = i /\ x \in stale)
    BY <1>1, <1>3
  <2>7. e[o] = IF x = i THEN [Queued(window[x], stage) EXCEPT !.done = TRUE]
               ELSE IF x \in stale THEN [Queued(window[x], stage) EXCEPT !.stale = TRUE]
               ELSE Queued(window[x], stage)
    <3>1. e[o] = IF o = k THEN [Queue[o] EXCEPT !.done = TRUE]
                 ELSE IF o \in late THEN [Queue[o] EXCEPT !.stale = TRUE]
                 ELSE Queue[o]
      BY <1>1, <2>1
    <3> HIDE DEF e, o, stage, late, k
    <3> QED BY <2>1, <2>3, <3>1
  <2>8. Queued(window'[x], stage) =
            [kind |-> window'[x].kind, done |-> window'[x].done, stale |-> window'[x].stale,
             wrong |-> window'[x].wrong, stage |-> stage]
    BY DEF Queued
  <2>9. /\ Queued(window[x], stage) \in Elements
        /\ Queued(window[x], stage).kind = window[x].kind
        /\ Queued(window[x], stage).done = window[x].done
        /\ Queued(window[x], stage).stale = window[x].stale
        /\ Queued(window[x], stage).wrong = window[x].wrong
        /\ Queued(window[x], stage).stage = stage
    <3>1. stage \in Stages
      BY DEF StageAt, Stages
    <3> QED BY <2>4, <3>1, QueuedFacts DEF Queued
  <2>10. /\ [Queued(window[x], stage) EXCEPT !.done = TRUE] =
                [kind |-> window[x].kind, done |-> TRUE, stale |-> window[x].stale,
                 wrong |-> window[x].wrong, stage |-> stage]
         /\ [Queued(window[x], stage) EXCEPT !.stale = TRUE] =
                [kind |-> window[x].kind, done |-> window[x].done, stale |-> TRUE,
                 wrong |-> window[x].wrong, stage |-> stage]
         /\ Queued(window[x], stage) =
                [kind |-> window[x].kind, done |-> window[x].done, stale |-> window[x].stale,
                 wrong |-> window[x].wrong, stage |-> stage]
    <3> DEFINE q == Queued(window[x], stage)
    <3> HIDE DEF q, stage
    <3>1. /\ q \in Elements
          /\ q.kind = window[x].kind /\ q.done = window[x].done /\ q.stale = window[x].stale
          /\ q.wrong = window[x].wrong /\ q.stage = stage
      BY <2>9 DEF q
    <3>2. /\ [q EXCEPT !.done = TRUE] = [kind |-> q.kind, done |-> TRUE, stale |-> q.stale,
                                         wrong |-> q.wrong, stage |-> q.stage]
          /\ [q EXCEPT !.stale = TRUE] = [kind |-> q.kind, done |-> q.done, stale |-> TRUE,
                                          wrong |-> q.wrong, stage |-> q.stage]
          /\ q = [kind |-> q.kind, done |-> q.done, stale |-> q.stale, wrong |-> q.wrong,
                  stage |-> q.stage]
      BY <3>1, ElementChanged, Zenon
    <3> QED BY <3>1, <3>2, Zenon DEF q
  <2> HIDE DEF e, o, stage, late, k
  <2> DEFINE before == window[x]
             after == window'[x]
  <2> HIDE DEF before, after
  <2>11. /\ x = i => after.done = TRUE /\ after.stale = before.stale
         /\ x \in stale => after.done = before.done /\ after.stale = TRUE
         /\ x # i /\ x \notin stale => after.done = before.done /\ after.stale = before.stale
         /\ after.kind = before.kind /\ after.wrong = before.wrong
    BY <2>5, <2>6 DEF before, after
  <2>12. ASSUME x = i PROVE Queued(after, stage) = e[o]
    <3>1. e[o] = [kind |-> before.kind, done |-> TRUE, stale |-> before.stale,
                  wrong |-> before.wrong, stage |-> stage]
      BY <2>7, <2>10, <2>12 DEF before
    <3>2. Queued(after, stage) = [kind |-> after.kind, done |-> after.done, stale |-> after.stale,
                                  wrong |-> after.wrong, stage |-> stage]
      BY <2>8 DEF after
    <3> QED BY <2>11, <2>12, <3>1, <3>2
  <2>13. ASSUME x \in stale PROVE Queued(after, stage) = e[o]
    <3>1. e[o] = [kind |-> before.kind, done |-> before.done, stale |-> TRUE,
                  wrong |-> before.wrong, stage |-> stage]
      BY <2>6, <2>7, <2>10, <2>13 DEF before
    <3>2. Queued(after, stage) = [kind |-> after.kind, done |-> after.done, stale |-> after.stale,
                                  wrong |-> after.wrong, stage |-> stage]
      BY <2>8 DEF after
    <3> QED BY <2>11, <2>13, <3>1, <3>2
  <2>14. ASSUME x # i, x \notin stale PROVE Queued(after, stage) = e[o]
    <3>1. e[o] = [kind |-> before.kind, done |-> before.done, stale |-> before.stale,
                  wrong |-> before.wrong, stage |-> stage]
      BY <2>7, <2>10, <2>14 DEF before
    <3>2. Queued(after, stage) = [kind |-> after.kind, done |-> after.done, stale |-> after.stale,
                                  wrong |-> after.wrong, stage |-> stage]
      BY <2>8 DEF after
    <3> QED BY <2>11, <2>14, <3>1, <3>2
  <2>15. Place(x)' = e[o]
    BY <2>2, <2>12, <2>13, <2>14 DEF after
  <2> QED BY <2>15 DEF o
<1>9. Queue' = [j \in 1 .. Fetched' |-> e[j]]
  <2>1. QueueShape' /\ Fetched' \in Nat
    BY <1>1, <1>2, ShapeNext
  <2> HIDE DEF e
  <2> QED BY <1>8, <2>1, NextQueue
<1>10. e = [j \in 1 .. Fetched' |-> e[j]]
  BY <1>1, <1>2
<1>11. Queue' = e
  BY <1>9, <1>10
<1>12. InOrder!Complete(k, late)
  BY <1>5, <1>6, <1>11 DEF InOrder!Complete
<1> QED BY <1>5, <1>6, <1>12

-----------------------------------------------------------------------------
(***************************************************************************)
(* What a pending exception names is a cause to cut the queue.             *)
(***************************************************************************)

LEMMA InitCaused == Init => Caused
BY DEF Init, Caused, NoException

LEMMA CompleteCaused ==
  ASSUME IInv, Caused, NEW i \in Slots, NEW stale \in SUBSET Slots, NEW popAgain \in BOOLEAN,
         Complete(i, stale, popAgain)
  PROVE  Caused'
<1>0. /\ i \in Executing /\ lastRetired' = lastRetired
      /\ stale # {} => stale \subseteq Replayable(i)
      /\ exception' =
            IF window[i].wrong THEN RaiseException("mispredict", i)
            ELSE IF stale # {}
            THEN RaiseException("replay", Dec(CHOOSE j \in stale :
                                     \A k \in stale : Offset(j) <= Offset(k)))
            ELSE exception
  BY DEF Complete, pointers
<1>1. /\ lastRetired \in Slots /\ window \in [Slots -> Instruction \cup {Empty}]
      /\ exception \in [type : {"mispredict", "replay"}, index : Slots] \cup {NoException}
      /\ \A x \in Slots : Offset(x) \in Nat /\ Offset(x)' = Offset(x)
      /\ Offset(lastRetired) = 0 /\ Fetched \in Nat /\ Scheduled \in Nat /\ Scheduled <= Fetched
  <2>1. Scheduled <= Decoded /\ Decoded <= Fetched
    BY DEF IInv, InRing
  <2> QED BY <1>0, <2>1, TypeFacts, PointerFacts DEF IInv, Pointed, Offset
<1>2. /\ window[i] \in Instruction
      /\ \A j \in stale : 0 < Offset(j) /\ window[j] \in Instruction
  <2>1. Offset(i) \in Nat /\ \A j \in stale : Offset(j) \in Nat
    BY <1>1
  <2> QED BY <1>0, <2>1, ExecutingFacts
<1>3. CASE exception' = exception
  <2>1. ASSUME exception.type = "mispredict"
        PROVE  window'[exception.index].wrong /\ window'[exception.index].done
    <3>1. exception.index \in Slots /\ window[exception.index].kind \in ControlKinds
      BY <1>1, <2>1, RecordFacts DEF IInv, ExceptionFits
    <3>2. window[exception.index] \in Instruction
      BY <1>1, <3>1, RecordFacts
    <3>3. window[exception.index].wrong /\ window[exception.index].done
      BY <2>1 DEF Caused
    <3> QED BY <3>1, <3>2, <3>3, CompletedFields
  <2>2. ASSUME exception.type = "replay"
        PROVE  \E x \in Slots : Offset(x)' = Offset(exception.index) + 1 /\ window'[x].stale
    <3>1. PICK x \in Slots : Offset(x) = Offset(exception.index) + 1 /\ window[x].stale
      BY <2>2 DEF Caused
    <3>2. Offset(exception.index) < Scheduled /\ exception.index \in Slots
      BY <2>2, RecordFacts DEF IInv, ExceptionFits
    <3>3. Used(x)
      BY <1>1, <3>1, <3>2 DEF Used
    <3>4. window[x] \in Instruction
      BY <1>1, <3>3 DEF IInv, InRing
    <3>5. window'[x].stale
      BY <3>1, <3>4, CompletedFields
    <3> QED BY <1>1, <3>1, <3>5
  <2>3. Offset(exception.index)' = Offset(exception.index)
    BY <1>0, <1>3 DEF Offset
  <2> QED BY <1>3, <2>1, <2>2, <2>3 DEF Caused
<1>4. CASE exception' # exception /\ window[i].wrong
  <2>1. exception' = [type |-> "mispredict", index |-> i]
    BY <1>0, <1>4 DEF RaiseException
  <2>2. window'[i].wrong /\ window'[i].done
    BY <1>2, <1>4, CompletedFields
  <2> QED BY <2>1, <2>2 DEF Caused
<1>5. CASE exception' # exception /\ ~window[i].wrong
  <2> DEFINE First(j) == \A k \in stale : Offset(j) <= Offset(k)
             oldest == CHOOSE j \in stale : First(j)
  <2>1. stale # {} /\ exception' = RaiseException("replay", Dec(oldest))
    BY <1>0, <1>5
  <2>2. oldest \in stale
    <3>1. \E j \in stale : First(j)
      BY <1>1, <2>1, ClosestExist DEF Offset
    <3> HIDE DEF First
    <3> QED BY <3>1
  <2>3. PICK first \in stale : first = oldest
    BY <2>2
  <2> HIDE DEF oldest
  <2>4. first \in Slots /\ first # lastRetired /\ window'[first].stale
    BY <1>1, <1>2, CompletedFields
  <2>5. PICK x \in Slots : x = Dec(first) /\ Offset(x) = Offset(first) - 1
    BY <1>1, <2>4, DecFacts DEF Offset
  <2>6. exception' = [type |-> "replay", index |-> x]
    BY <1>5, <2>1, <2>3, <2>5 DEF RaiseException
  <2>7. Offset(first)' = Offset(x)' + 1
    BY <1>1, <2>4, <2>5
  <2>8. Offset(exception.index)' = Offset(x)'
    BY <2>6 DEF Offset
  <2> QED BY <2>4, <2>6, <2>7, <2>8 DEF Caused
<1> QED BY <1>3, <1>4, <1>5

LEMMA NextCaused == IInv /\ IInv' /\ Caused /\ [Next]_vars => Caused'
<1> SUFFICES ASSUME IInv, IInv', Caused, [Next]_vars PROVE Caused'
  OBVIOUS
<1>1. UNCHANGED <<window, exception, lastRetired>> => Caused'
  BY DEF Caused, Offset
<1>2. exception' = NoException => Caused'
  BY DEF Caused, NoException
<1>3. CASE \/ FetchStalled \/ Schedule \/ RetireNone \/ Wakeup \/ EndCycle \/ UNCHANGED vars
           \/ \E n \in 0 .. MaxDecode : Decode(n)
  BY <1>1, <1>3
     DEF FetchStalled, Schedule, RetireNone, Wakeup, EndCycle, Decode, pointers, vars
<1>4. ASSUME NEW g \in Groups, FetchGroup(g) PROVE Caused'
  <2>1. /\ exception' = exception /\ lastRetired' = lastRetired
        /\ \A x \in Slots : Offset(x)' = Offset(x)
    BY <1>4 DEF FetchGroup, Offset
  <2>2. \A x \in Slots : Offset(x) <= Scheduled => SameButHistory(window'[x], window[x])
    <3>1. /\ Scheduled <= Decoded /\ Decoded <= Fetched /\ Scheduled \in Nat /\ Decoded \in Nat
          /\ Fetched \in Nat /\ \A x \in Slots : Offset(x) \in Nat
      BY PointerFacts DEF IInv, InRing
    <3>2. \A x \in Slots : Offset(x) <= Scheduled => ~(Fetched < Offset(x))
      BY <3>1
    <3>3. \A x \in Slots : ~(Fetched < Offset(x) /\ Offset(x) <= Fetched + Len(g))
                              => SameButHistory(window'[x], window[x])
      BY <1>4, FetchEffect
    <3> QED BY <3>2, <3>3
  <2>3. exception.type = "mispredict" =>
            window'[exception.index].wrong /\ window'[exception.index].done
    BY <2>2, RecordFacts DEF IInv, ExceptionFits, Caused, SameButHistory
  <2>4. ASSUME exception.type = "replay"
        PROVE  \E x \in Slots : Offset(x) = Offset(exception.index) + 1 /\ window'[x].stale
    <3>1. PICK x \in Slots : Offset(x) = Offset(exception.index) + 1 /\ window[x].stale
      BY <2>4 DEF Caused
    <3>2. Offset(exception.index) < Scheduled /\ exception.index \in Slots
      BY <2>4, RecordFacts DEF IInv, ExceptionFits
    <3>3. Offset(x) <= Scheduled
      BY <3>1, <3>2, PointerFacts DEF IInv
    <3> QED BY <2>2, <3>1, <3>3 DEF SameButHistory
  <2>5. Offset(exception.index)' = Offset(exception.index)
    BY <2>1 DEF Offset
  <2> QED BY <2>1, <2>3, <2>4, <2>5 DEF Caused
<1>5. CASE Recover
  BY <1>2, <1>5 DEF Recover, ClearException
<1>6. CASE RetireOne \/ \E traps \in BOOLEAN : RetireAndSquash(traps)
  <2>1. exception' = exception /\ phase = "retire"
    BY <1>6 DEF RetireOne, RetireAndSquash
  <2> QED BY <1>2, <2>1 DEF IInv, ExceptionFits
<1>7. ASSUME NEW i \in Slots, NEW stale \in SUBSET Slots, NEW popAgain \in BOOLEAN,
             Complete(i, stale, popAgain)
      PROVE  Caused'
  BY <1>7, CompleteCaused
<1> QED BY <1>3, <1>4, <1>5, <1>6, <1>7 DEF Next

\* The places to cut at are no older than the one the pending exception names.
LEMMA CausePlaces ==
  ASSUME IInv
  PROVE  \A k \in InOrder!Causes : exception.type # "none" /\ Offset(exception.index) <= k
<1> SUFFICES ASSUME NEW k \in InOrder!Causes
             PROVE  exception.type # "none" /\ Offset(exception.index) <= k
  OBVIOUS
<1>1. /\ Len(Queue) = Fetched /\ Fetched \in Nat
      /\ \A j \in 1 .. Fetched : \E i \in Slots : Used(i) /\ Offset(i) = j /\ Queue[j] = Place(i)
  BY QueueFacts, IInvShape DEF QueueShape
<1>2. /\ exception.type # "none" => Offset(exception.index) \in Nat
      /\ exception \in [type : {"mispredict", "replay"}, index : Slots] \cup {NoException}
      /\ \A i \in Slots : Offset(i) \in Nat
  <2>1. \A i \in Slots : Offset(i) \in Nat
    BY PointerFacts DEF IInv
  <2>2. exception \in [type : {"mispredict", "replay"}, index : Slots] \cup {NoException}
    BY TypeFacts DEF IInv
  <2> QED BY <2>1, <2>2, RecordFacts
<1>3. /\ k \in 0 .. Fetched
      /\ \/ k > 0 /\ Queue[k].done /\ Queue[k].wrong
         \/ k < Fetched /\ Queue[k + 1].stale
  BY <1>1 DEF InOrder!Causes
<1>4. CASE k > 0 /\ Queue[k].done /\ Queue[k].wrong
  <2>1. k \in 1 .. Fetched
    BY <1>1, <1>3, <1>4
  <2>2. PICK i \in Slots : Used(i) /\ Offset(i) = k /\ Queue[k] = Place(i)
    BY <1>1, <2>1
  <2>3. window[i].done /\ window[i].wrong
    BY <1>4, <2>2 DEF Place, Queued
  <2>4. \/ exception = [type |-> "mispredict", index |-> i]
        \/ exception.type # "none" /\ Offset(exception.index) < Offset(i)
    BY <2>2, <2>3 DEF IInv, Covered
  <2>5. CASE exception = [type |-> "mispredict", index |-> i]
    <3>1. exception.type # "none" /\ exception.index = i
      BY <2>5
    <3>2. k <= k
      BY <2>1
    <3> QED BY <2>2, <3>1, <3>2
  <2>6. CASE exception.type # "none" /\ Offset(exception.index) < Offset(i)
    BY <1>2, <2>1, <2>2, <2>6
  <2> QED BY <2>4, <2>5, <2>6
<1>5. CASE k < Fetched /\ Queue[k + 1].stale
  <2>1. k + 1 \in 1 .. Fetched /\ k \in Nat
    BY <1>1, <1>3, <1>5
  <2>2. PICK i \in Slots : Used(i) /\ Offset(i) = k + 1 /\ Queue[k + 1] = Place(i)
    BY <1>1, <2>1
  <2>3. window[i].stale
    BY <1>5, <2>2 DEF Place, Queued
  <2>4. exception.type # "none" /\ Offset(exception.index) < k + 1
    BY <2>2, <2>3 DEF IInv, Covered
  <2> QED BY <1>2, <2>1, <2>4
<1> QED BY <1>3, <1>4, <1>5

\* And that one is a place to cut at.
LEMMA ExceptionIsCause ==
  ASSUME IInv, Caused, exception.type # "none"
  PROVE  Offset(exception.index) \in InOrder!Causes
<1> DEFINE k == Offset(exception.index)
<1>1. /\ Len(Queue) = Fetched /\ Fetched \in Nat
      /\ \A i \in Slots : Used(i) => Offset(i) \in 1 .. Fetched /\ Queue[Offset(i)] = Place(i)
  BY QueueFacts, IInvShape DEF QueueShape
<1>2. /\ Scheduled \in Nat /\ Scheduled <= Fetched
      /\ \A i \in Slots : Offset(i) \in Nat
      /\ exception.index \in Slots /\ k \in Nat /\ k <= Scheduled
      /\ exception.type = "mispredict" => 0 < k
      /\ exception.type = "replay" => k < Scheduled
      /\ exception.type \in {"mispredict", "replay"}
  <2>1. /\ Scheduled <= Decoded /\ Decoded <= Fetched /\ Scheduled \in Nat /\ Decoded \in Nat
        /\ \A i \in Slots : Offset(i) \in Nat
    BY PointerFacts DEF IInv, InRing
  <2>2. exception \in [type : {"mispredict", "replay"}, index : Slots] \cup {NoException}
    BY TypeFacts DEF IInv
  <2>3. /\ exception.index \in Slots /\ k <= Scheduled
        /\ exception.type = "mispredict" => 0 < k
        /\ exception.type = "replay" => k < Scheduled
    BY DEF IInv, ExceptionFits
  <2>4. Scheduled <= Fetched
    BY <1>1, <2>1
  <2>5. exception.type \in {"mispredict", "replay"}
    BY <2>2, RecordFacts
  <2> QED BY <2>1, <2>3, <2>4, <2>5
<1>3. k \in 0 .. Fetched
  BY <1>1, <1>2
<1>4. CASE exception.type = "mispredict"
  <2>1. Used(exception.index)
    BY <1>1, <1>2, <1>4 DEF Used
  <2>2. Queue[k] = Place(exception.index)
    BY <1>1, <1>2, <2>1
  <2>3. window[exception.index].wrong /\ window[exception.index].done
    BY <1>4 DEF Caused
  <2>4. Queue[k].done /\ Queue[k].wrong
    BY <2>2, <2>3 DEF Place, Queued
  <2>5. k > 0
    BY <1>2, <1>4
  <2> QED BY <1>1, <1>3, <2>4, <2>5 DEF InOrder!Causes
<1>5. CASE exception.type = "replay"
  <2>1. PICK i \in Slots : Offset(i) = k + 1 /\ window[i].stale
    BY <1>5 DEF Caused
  <2>2. k < Fetched /\ Used(i)
    BY <1>1, <1>2, <1>5, <2>1 DEF Used
  <2>3. Queue[k + 1] = Place(i)
    BY <1>1, <2>1, <2>2
  <2>4. Queue[k + 1].stale
    BY <2>1, <2>3 DEF Place, Queued
  <2> QED BY <1>1, <1>3, <2>2, <2>4 DEF InOrder!Causes
<1> QED BY <1>2, <1>4, <1>5

\* What recovery leaves of the window.
LEMMA RecoverEffect ==
  ASSUME IInv, Recover, exception.type # "none", NEW good, good = exception.index
  PROVE  /\ good \in Slots /\ Offset(good) \in Nat /\ Offset(good) <= Scheduled
         /\ \A i : Offset(i)' = Offset(i)
         /\ Fetched' = Offset(good) /\ Decoded' = Offset(good) /\ Scheduled' = Offset(good)
         /\ exception.type = "mispredict" =>
                window'[good] = [window[good] EXCEPT !.wrong = FALSE]
         /\ \A i \in Slots :
                Used(i)' => /\ 0 < Offset(i) /\ Offset(i) <= Offset(good) /\ Used(i)
                            /\ i # good \/ exception.type # "mispredict"
                                   => window'[i] = window[i]
<1> DEFINE win == IF exception.type = "mispredict"
                  THEN [window EXCEPT ![good].wrong = FALSE] ELSE window
<1>1. /\ lastRetired \in Slots /\ archBPS \in 0 .. Histories - 1 /\ TypeOK
      /\ window \in [Slots -> Instruction \cup {Empty}]
      /\ \A i \in Slots : Offset(i) \in Nat
      /\ Fetched \in Nat /\ Decoded \in Nat /\ Scheduled \in Nat
      /\ Scheduled <= Decoded /\ Decoded <= Fetched
  BY TypeFacts, PointerFacts DEF IInv, Pointed, InRing
<1>2. /\ good \in Slots /\ Offset(good) <= Scheduled
      /\ exception.type = "mispredict" => window[good].kind \in ControlKinds
  BY DEF IInv, ExceptionFits
<1>3. exception.type = "mispredict" => [window[good] EXCEPT !.wrong = FALSE] \in Instruction
  <2>1. exception.type = "mispredict" => window[good] \in Instruction
    BY <1>1, <1>2, RecordFacts
  <2>2. \A d \in Instruction : [d EXCEPT !.wrong = FALSE] \in Instruction
    BY DEF Instruction
  <2> QED BY <2>1, <2>2
<1>4. PartialSquash(win, lastRetired, good, archBPS) /\ lastRetired' = lastRetired
  BY DEF Recover
<1>5. win \in [Slots -> Instruction \cup {Empty}]
  BY <1>1, <1>2, <1>3
<1>6. /\ exception.type = "mispredict" => win[good] = [window[good] EXCEPT !.wrong = FALSE]
      /\ \A i \in Slots : i # good \/ exception.type # "mispredict" => win[i] = window[i]
  BY <1>1, <1>2
<1> HIDE DEF win
<1>7. /\ lastFetched' = good /\ lastDecoded' = good /\ lastScheduled' = good
      /\ \A i \in Slots : window'[i] =
             IF Offset(good) < Offset(i) /\ Offset(i) <= Fetched THEN Empty ELSE win[i]
  <2>1. /\ Distance(lastRetired, good) <= Distance(lastRetired, lastScheduled)
        /\ Distance(lastRetired, lastScheduled) <= Distance(lastRetired, lastDecoded)
        /\ Distance(lastRetired, lastDecoded) <= Distance(lastRetired, lastFetched)
    BY <1>1, <1>2 DEF Scheduled, Decoded, Fetched, Offset
  <2> QED BY <1>1, <1>2, <1>4, <1>5, <2>1, SquashEffect DEF Offset, Fetched
<1>8. /\ \A i : Offset(i)' = Offset(i)
      /\ Fetched' = Offset(good) /\ Decoded' = Offset(good) /\ Scheduled' = Offset(good)
  BY <1>4, <1>7 DEF Offset, Fetched, Decoded, Scheduled
<1>9. ASSUME NEW i \in Slots, Used(i)'
      PROVE  /\ 0 < Offset(i) /\ Offset(i) <= Offset(good) /\ Used(i)
             /\ window'[i] = win[i]
  <2>1. 0 < Offset(i) /\ Offset(i) <= Offset(good)
    BY <1>8, <1>9 DEF Used
  <2>2. Used(i) /\ ~(Offset(good) < Offset(i))
    BY <1>1, <1>2, <2>1 DEF Used
  <2> QED BY <1>7, <2>1, <2>2
<1>10. window'[good] = win[good]
  <2>1. ~(Offset(good) < Offset(good))
    BY <1>1, <1>2
  <2> QED BY <1>2, <1>7, <2>1
<1> QED BY <1>1, <1>2, <1>6, <1>8, <1>9, <1>10

LEMMA RecoverSimulates ==
  ASSUME IInv, IInv', Caused, Recover
  PROVE  Queue' = Queue \/ InOrder!Recover
<1>1. CASE exception.type = "none"
  <2>1. UNCHANGED <<window, lastFetched, lastDecoded, lastScheduled, lastRetired>>
    BY <1>1 DEF Recover, pointers
  <2> QED BY <2>1, QueueKept
<1>2. CASE exception.type # "none"
  <2>1. PICK good : good = exception.index
    OBVIOUS
  <2>2. PICK last : last = Offset(good)
    OBVIOUS
  <2>3. /\ good \in Slots /\ last \in Nat /\ last <= Scheduled
        /\ \A i : Offset(i)' = Offset(i)
        /\ Fetched' = last /\ Decoded' = last /\ Scheduled' = last
        /\ exception.type = "mispredict" =>
               window'[good] = [window[good] EXCEPT !.wrong = FALSE]
        /\ \A i \in Slots :
               Used(i)' => /\ 0 < Offset(i) /\ Offset(i) <= last /\ Used(i)
                           /\ i # good \/ exception.type # "mispredict"
                                  => window'[i] = window[i]
    BY <1>2, <2>1, <2>2, RecoverEffect
  <2>4. last \in InOrder!Causes /\ \A k \in InOrder!Causes : last <= k
    BY <1>2, <2>1, <2>2, CausePlaces, ExceptionIsCause
  <2>5. /\ Scheduled \in Nat /\ \A i \in Slots : Offset(i) \in Nat
        /\ lastRetired \in Slots /\ window \in [Slots -> Instruction \cup {Empty}]
    BY PointerFacts, TypeFacts DEF IInv, Pointed
  <2> DEFINE e == [k \in 1 .. last |-> IF k = last /\ Queue[k].done
                                       THEN [Queue[k] EXCEPT !.wrong = FALSE] ELSE Queue[k]]
  <2>6. ASSUME NEW i \in Slots, Used(i)' PROVE Place(i)' = e[Offset(i)']
    <3>1. PICK o : o = Offset(i)
      OBVIOUS
    <3>2. /\ o \in 1 .. last /\ o <= Scheduled /\ Used(i) /\ Offset(i)' = o
          /\ i # good \/ exception.type # "mispredict" => window'[i] = window[i]
      BY <2>3, <2>5, <2>6, <3>1
    <3>3. Queue[o] = Queued(window[i], "scheduled")
      BY <3>1, <3>2, IInvShape DEF QueueShape, Place, StageAt
    <3>4. Place(i)' = Queued(window'[i], "scheduled")
      BY <2>3, <3>2 DEF Place, Queued, StageAt
    <3>5. window[i] \in Instruction
      BY <2>5, <3>2 DEF IInv, InRing
    <3>6. o = last <=> i = good
      BY <2>2, <2>3, <2>5, <3>1, DistanceDetermines DEF Offset
    <3>7. /\ Queue[o] \in Elements
          /\ Queue[o].kind = window[i].kind /\ Queue[o].done = window[i].done
          /\ Queue[o].stale = window[i].stale /\ Queue[o].wrong = window[i].wrong
          /\ Queue[o].stage = "scheduled"
      <4>1. "scheduled" \in Stages
        BY DEF Stages
      <4> QED BY <3>3, <3>5, <4>1, QueuedFacts DEF Queued
    <3>8. e[o] = IF o = last /\ Queue[o].done THEN [Queue[o] EXCEPT !.wrong = FALSE] ELSE Queue[o]
      BY <3>2
    <3> HIDE DEF e
    <3>9. [Queue[o] EXCEPT !.wrong = FALSE] =
              [kind |-> window[i].kind, done |-> window[i].done, stale |-> window[i].stale,
               wrong |-> FALSE, stage |-> "scheduled"]
      <4>1. [Queue[o] EXCEPT !.wrong = FALSE] =
                [kind |-> Queue[o].kind, done |-> Queue[o].done, stale |-> Queue[o].stale,
                 wrong |-> FALSE, stage |-> Queue[o].stage]
        BY <3>7, ElementChanged, Zenon
      <4> QED BY <3>7, <4>1, Zenon
    <3>10. CASE i = good /\ exception.type = "mispredict"
      <4>1. window[i].done
        BY <2>1, <3>10 DEF Caused
      <4>2. /\ window'[i].kind = window[i].kind /\ window'[i].done = window[i].done
            /\ window'[i].stale = window[i].stale /\ window'[i].wrong = FALSE
        <5>1. window'[i] = [window[i] EXCEPT !.wrong = FALSE]
          BY <2>3, <3>10
        <5>2. \A d \in Instruction : LET new == [d EXCEPT !.wrong = FALSE] IN
                 /\ new.kind = d.kind /\ new.stale = d.stale /\ new.done = d.done
                 /\ new.wrong = FALSE
          BY DEF Instruction
        <5> QED BY <3>5, <5>1, <5>2
      <4>3. e[o] = [Queue[o] EXCEPT !.wrong = FALSE]
        BY <3>6, <3>7, <3>8, <3>10, <4>1
      <4>4. Queued(window'[i], "scheduled") =
                [kind |-> window[i].kind, done |-> window[i].done, stale |-> window[i].stale,
                 wrong |-> FALSE, stage |-> "scheduled"]
        BY <4>2 DEF Queued
      <4>5. Place(i)' = e[o]
        BY <3>4, <3>9, <4>3, <4>4, Zenon
      <4> QED BY <3>2, <4>5
    <3>11. CASE i # good
      <4>1. e[o] = Queue[o]
        BY <3>6, <3>8, <3>11
      <4> QED BY <3>2, <3>3, <3>4, <3>11, <4>1
    <3>12. CASE i = good /\ exception.type # "mispredict"
      <4>1. Place(i)' = Queue[o]
        BY <3>2, <3>3, <3>4, <3>12
      <4>2. CASE ~Queue[o].done
        <5>1. e[o] = Queue[o]
          BY <3>8, <4>2
        <5> QED BY <3>2, <4>1, <5>1
      <4>3. CASE Queue[o].done
        <5>1. ~window[i].wrong
          <6>1. window[i].done
            BY <3>7, <4>3
          <6>2. ~(Offset(exception.index) < Offset(i))
            BY <2>1, <2>5, <3>12
          <6>3. exception # [type |-> "mispredict", index |-> i]
            BY <3>12
          <6> QED BY <3>2, <6>1, <6>2, <6>3 DEF IInv, Covered
        <5>2. window[i].wrong = FALSE
          BY <3>5, <5>1 DEF Instruction
        <5>3. Queued(window[i], "scheduled") =
                  [kind |-> window[i].kind, done |-> window[i].done, stale |-> window[i].stale,
                   wrong |-> FALSE, stage |-> "scheduled"]
          BY <5>2 DEF Queued
        <5>4. e[o] = [Queue[o] EXCEPT !.wrong = FALSE]
          BY <3>6, <3>8, <3>12, <4>3
        <5>5. Place(i)' = e[o]
          BY <3>3, <3>9, <4>1, <5>3, <5>4, Zenon
        <5> QED BY <3>2, <5>5
      <4> QED BY <4>2, <4>3
    <3> QED BY <3>10, <3>11, <3>12
  <2>7. Queue' = [k \in 1 .. Fetched' |-> e[k]]
    <3>1. QueueShape' /\ Fetched' \in Nat
      BY <2>3, ShapeNext
    <3> HIDE DEF e
    <3> QED BY <2>6, <3>1, NextQueue
  <2>8. Queue' = e
    BY <2>3, <2>7
  <2> QED BY <2>4, <2>8 DEF InOrder!Recover
<1> QED BY <1>1, <1>2

\* What can retire is the head of the queue, and no place is left to cut at.
LEMMA RetiredHead ==
  ASSUME IInv, OldestDone, phase = "retire"
  PROVE  Queue # <<>> /\ Queue[1].done /\ InOrder!Causes = {}
<1>1. Queue \in Seq(Elements) /\ Len(Queue) = Fetched
  BY QueueFacts
<1>2. Oldest \in Slots /\ Used(Oldest) /\ Offset(Oldest) = 1 /\ window[Oldest].done
  BY OldestFacts DEF OldestDone
<1>3. 1 \in 1 .. Fetched /\ Queue[1] = Place(Oldest)
  BY <1>2, IInvShape DEF QueueShape
<1>4. Queue # <<>>
  BY <1>1, <1>3, EmptySeq
<1>5. Queue[1].done
  BY <1>2, <1>3 DEF Place, Queued
<1>6. exception.type = "none"
  BY RecordFacts DEF IInv, ExceptionFits, NoException
<1>7. InOrder!Causes = {}
  BY <1>6, CausePlaces
<1> QED BY <1>4, <1>5, <1>7

LEMMA RetireOneSimulates ==
  ASSUME IInv, IInv', RetireOne
  PROVE  InOrder!Retire
<1> DEFINE e == Tail(Queue)
<1>1. Queue # <<>> /\ Queue[1].done /\ InOrder!Causes = {}
  BY RetiredHead DEF RetireOne
<1>2. /\ Queue \in Seq(Elements) /\ Len(Queue) = Fetched /\ Fetched \in Nat
      /\ Decoded \in Nat /\ Scheduled \in Nat
      /\ \A i \in Slots : Offset(i) \in Nat
  BY QueueFacts, PointerFacts DEF IInv
<1>3. /\ Fetched' = Fetched - 1 /\ Decoded' = Decoded - 1 /\ Scheduled' = Scheduled - 1
      /\ \A i \in Slots : /\ Used(i)' <=> Used(i) /\ i # Oldest
                          /\ Used(i)' => Offset(i)' = Offset(i) - 1 /\ 1 < Offset(i)
      /\ \A i \in Slots : i # Oldest => window'[i] = window[i]
  BY RetireOneEffect
<1>4. /\ e \in Seq(Elements) /\ Len(e) = Fetched - 1
      /\ \A k \in 1 .. Fetched - 1 : e[k] = Queue[k + 1]
  BY <1>1, <1>2, HeadTailProperties
<1>5. ASSUME NEW i \in Slots, Used(i)' PROVE Place(i)' = e[Offset(i)']
  <2>1. PICK o : o = Offset(i)
    OBVIOUS
  <2>2. Used(i) /\ window'[i] = window[i] /\ Offset(i)' = o - 1 /\ 1 < o /\ o \in Nat
    BY <1>2, <1>3, <1>5, <2>1
  <2>3. o \in 1 .. Fetched /\ Queue[o] = Queued(window[i], StageAt(o, Scheduled, Decoded))
    BY <2>1, <2>2, IInvShape DEF QueueShape, Place
  <2>4. StageAt(o - 1, Scheduled - 1, Decoded - 1) = StageAt(o, Scheduled, Decoded)
    BY <1>2, <2>2 DEF StageAt
  <2>5. Place(i)' = Queued(window[i], StageAt(o - 1, Scheduled - 1, Decoded - 1))
    BY <1>3, <2>2 DEF Place, Queued, StageAt
  <2>6. o - 1 \in 1 .. Fetched - 1 /\ (o - 1) + 1 = o
    BY <1>2, <2>2, <2>3
  <2>7. e[o - 1] = Queue[o]
    BY <1>4, <2>6
  <2> QED BY <2>2, <2>3, <2>4, <2>5, <2>7
<1> HIDE DEF e
<1>6. Fetched' \in Nat /\ Fetched' = Len(e)
  BY <1>3, <1>4, LenProperties
<1>7. Queue' = [k \in 1 .. Fetched' |-> e[k]]
  BY <1>5, <1>6, ShapeNext, NextQueue
<1>8. e = [k \in 1 .. Fetched' |-> e[k]]
  <2>1. e \in [1 .. Fetched' -> Elements]
    BY <1>4, <1>6, LenProperties
  <2> QED BY <2>1
<1>9. Queue' = Tail(Queue)
  BY <1>7, <1>8 DEF e
<1> QED BY <1>1, <1>9 DEF InOrder!Retire

LEMMA RetireAndSquashSimulates ==
  ASSUME IInv, IInv', NEW traps \in BOOLEAN, RetireAndSquash(traps)
  PROVE  InOrder!Retire
<1>1. Queue # <<>> /\ Queue[1].done /\ InOrder!Causes = {}
  BY RetiredHead DEF RetireAndSquash
<1>2. OldestDone /\ lastRetired' = Oldest /\ lastFetched' = Oldest /\ Oldest \in Slots
  <2>1. OldestDone /\ lastRetired' = Oldest /\ lastFetched' = Oldest
    BY DEF RetireAndSquash, PartialSquash
  <2> QED BY <2>1, OldestFacts
<1>3. Fetched' = 0
  BY <1>2, DistanceDetermines DEF Fetched, Offset
<1>4. Queue' \in [1 .. Fetched' -> Elements]
  BY ShapeNext DEF QueueShape
<1>5. Queue' \in Seq(Elements) /\ Len(Queue') = 0
  <2>1. Queue' \in Seq(Elements)
    BY <1>3, <1>4, SeqDef
  <2> QED BY <1>3, <1>4, <2>1, LenProperties
<1>6. Queue' = <<>>
  BY <1>5, EmptySeq
<1> QED BY <1>1, <1>6 DEF InOrder!Retire

LEMMA NextSimulates == IInv /\ IInv' /\ Caused /\ [Next]_vars => [InOrder!Next]_Queue
<1> SUFFICES ASSUME IInv, IInv', Caused, [Next]_vars
             PROVE  InOrder!Next \/ Queue' = Queue
  OBVIOUS
<1>1. CASE FetchStalled \/ RetireNone \/ Wakeup \/ EndCycle \/ UNCHANGED vars
  BY <1>1, QueueKept DEF FetchStalled, RetireNone, Wakeup, EndCycle, pointers, vars
<1>2. ASSUME NEW g \in Groups, FetchGroup(g) PROVE InOrder!Next
  <2>1. InOrder!Fetch(QueuedGroup(g))
    BY <1>2, FetchSimulates
  <2> QED BY <2>1 DEF InOrder!Next
<1>3. ASSUME NEW n \in 0 .. MaxDecode, Decode(n) PROVE InOrder!Next \/ Queue' = Queue
  BY <1>3, DecodeSimulates DEF InOrder!Next
<1>4. CASE Schedule
  BY <1>4, ScheduleSimulates DEF InOrder!Next
<1>5. CASE Recover
  BY <1>5, RecoverSimulates DEF InOrder!Next
<1>6. CASE RetireOne
  BY <1>6, RetireOneSimulates DEF InOrder!Next
<1>7. ASSUME NEW traps \in BOOLEAN, RetireAndSquash(traps) PROVE InOrder!Next
  BY <1>7, RetireAndSquashSimulates DEF InOrder!Next
<1>8. ASSUME NEW i \in Slots, NEW stale \in SUBSET Slots, NEW popAgain \in BOOLEAN,
             Complete(i, stale, popAgain)
      PROVE  InOrder!Next
  BY <1>8, CompleteSimulates DEF InOrder!Next
<1> QED BY <1>1, <1>2, <1>3, <1>4, <1>5, <1>6, <1>7, <1>8 DEF Next

\* ImplementsInOrder: the ring, the delay rings and the pending exception of
\* pseq_t and iwindow_t are an in-order queue, for every size of the window: what
\* retires is the head, done, neither stale nor behind an unrepaired
\* misprediction, and a squash cuts exactly at the oldest cause.
THEOREM Refinement == Spec => ImplementsInOrder
<1>1. Init => Caused /\ InOrder!Init
  BY InitCaused, InitSimulates
<1>2. IInv /\ IInv' /\ Caused /\ [Next]_vars => Caused' /\ [InOrder!Next]_Queue
  BY NextCaused, NextSimulates
<1> QED BY <1>1, <1>2, Invariance, PTL DEF Spec, ImplementsInOrder, InOrder!Spec

=============================================================================
