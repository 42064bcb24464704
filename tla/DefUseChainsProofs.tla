------------------------- MODULE DefUseChainsProofs -------------------------
(***************************************************************************)
(* Proofs about DefUseChains, for any program text, any addresses and any  *)
(* bounds: the heap of chains, the list of each address and the list of    *)
(* each pc stay in step while chains end, merge and are deleted; every     *)
(* store is counted once; and the classes are those of StoreEquivalence.   *)
(***************************************************************************)
EXTENDS DefUseChains, FiniteSetsExt, SequenceTheorems, FiniteSetTheorems, WellFoundedInduction, TLAPS

-----------------------------------------------------------------------------
(***************************************************************************)
(* Numbers and finite sets of them.                                        *)
(***************************************************************************)

\* A set of positive numbers has a least element.
LEMMA LeastExists ==
  ASSUME NEW S, NEW n \in Nat, S \subseteq 1 .. n, S # {}
  PROVE  \E x \in S : \A y \in S : x <= y
<1> DEFINE R == OpToRel(<, Nat)
<1>1. IsWellFoundedOn(R, Nat)
  BY NatLessThanWellFounded
<1>2. \A x, y \in Nat : x < y => <<x, y>> \in R
  BY DEF OpToRel
<1>3. S \subseteq Nat
  OBVIOUS
<1>4. PICK x \in S : \A y \in S : ~ (<<y, x>> \in R)
  <2> HIDE DEF R
  <2> QED BY <1>1, <1>3, WFMin
<1>5. ASSUME NEW y \in S PROVE x <= y
  <2>1. x \in Nat /\ y \in Nat
    OBVIOUS
  <2>2. ~ (y < x)
    BY <1>2, <1>4, <2>1
  <2> QED
    BY <2>1, <2>2
<1> QED
  BY <1>5

\* The extrema of two numbers.
LEMMA OfTwo ==
  ASSUME NEW a \in Int, NEW b \in Int
  PROVE  /\ Max({a, b}) = IF a <= b THEN b ELSE a
         /\ Min({a, b}) = IF a <= b THEN a ELSE b
<1>1. Max({a, b}) \in {a, b} /\ \A y \in {a, b} : y <= Max({a, b})
  <2>1. \E x \in {a, b} : \A y \in {a, b} : y <= x
    OBVIOUS
  <2> QED BY <2>1 DEF Max
<1>2. Min({a, b}) \in {a, b} /\ \A y \in {a, b} : Min({a, b}) <= y
  <2>1. \E x \in {a, b} : \A y \in {a, b} : x <= y
    OBVIOUS
  <2> QED BY <2>1 DEF Min
<1> DEFINE m == Max({a, b})
           l == Min({a, b})
<1>3. m \in {a, b} /\ a <= m /\ b <= m
  BY <1>1
<1>4. l \in {a, b} /\ l <= a /\ l <= b
  BY <1>2
<1> HIDE DEF m, l
<1>5. m = (IF a <= b THEN b ELSE a) /\ l = IF a <= b THEN a ELSE b
  BY <1>3, <1>4
<1> QED BY <1>5 DEF m, l

-----------------------------------------------------------------------------
(***************************************************************************)
(* Lists of cycles.                                                        *)
(***************************************************************************)

\* Chains are listed in the order of their cycles, so no list is longer than the
\* number of its last cycle.
Increasing(list) ==
    \A p \in DOMAIN list : /\ p <= list[p]
                           /\ \A q \in DOMAIN list : p < q => list[p] < list[q]

LEMMA FrontList ==
  ASSUME NEW S, NEW list \in Seq(S), list # <<>>
  PROVE  /\ Front(list) \in Seq(S) /\ Len(Front(list)) = Len(list) - 1
         /\ DOMAIN Front(list) = 1 .. Len(list) - 1 /\ DOMAIN list = 1 .. Len(list)
         /\ Len(list) \in Nat \ {0} /\ Len(list) \in DOMAIN list
         /\ \A p \in 1 .. Len(list) - 1 : Front(list)[p] = list[p] /\ p \in DOMAIN list
<1>1. Len(list) \in Nat \ {0} /\ DOMAIN list = 1 .. Len(list)
  BY EmptySeq, LenProperties
<1>2. \A p \in 1 .. Len(list) - 1 : list[p] \in S
  BY <1>1, ElementOfSeq
<1>3. /\ Front(list) \in Seq(S) /\ Len(Front(list)) = Len(list) - 1
      /\ \A p \in 1 .. Len(list) - 1 : Front(list)[p] = list[p]
  BY <1>1, <1>2, SubSeqProperties DEF Front
<1>4. DOMAIN Front(list) = 1 .. Len(list) - 1
  BY <1>3, LenProperties
<1> QED BY <1>1, <1>3, <1>4

LEMMA RemovedList ==
  ASSUME NEW S, NEW list \in Seq(S), NEW k \in DOMAIN list
  PROVE  /\ RemoveAt(list, k) \in Seq(S) /\ DOMAIN list = 1 .. Len(list)
         /\ Len(list) \in Nat \ {0} /\ Len(RemoveAt(list, k)) = Len(list) - 1
         /\ DOMAIN RemoveAt(list, k) = 1 .. Len(list) - 1
         /\ \A p \in 1 .. Len(list) - 1 :
               RemoveAt(list, k)[p] = IF p < k THEN list[p] ELSE list[p + 1]
<1>1. Len(list) \in Nat /\ DOMAIN list = 1 .. Len(list) /\ k \in 1 .. Len(list)
  BY LenProperties
<1> DEFINE n == Len(list)
           s1 == SubSeq(list, 1, k - 1)
           s2 == SubSeq(list, k + 1, n)
<1>2. \A p \in 1 .. n : list[p] \in S
  BY ElementOfSeq
<1>3. /\ s1 \in Seq(S) /\ Len(s1) = k - 1
      /\ \A p \in 1 .. k - 1 : s1[p] = list[p]
  <2>1. \A p \in 1 .. k - 1 : list[p] \in S
    BY <1>1, <1>2
  <2> QED BY <1>1, <2>1, SubSeqProperties
<1>4. /\ s2 \in Seq(S) /\ Len(s2) = n - k
      /\ \A p \in 1 .. n - k : s2[p] = list[k + p]
  <2>1. \A p \in k + 1 .. n : list[p] \in S
    BY <1>1, <1>2
  <2>2. /\ s2 \in Seq(S) /\ Len(s2) = IF k + 1 <= n THEN n - (k + 1) + 1 ELSE 0
        /\ \A p \in 1 .. n - (k + 1) + 1 : s2[p] = list[(k + 1) + p - 1]
    BY <1>1, <2>1, SubSeqProperties
  <2>3. \A p \in 1 .. n - k : (k + 1) + p - 1 = k + p
    BY <1>1
  <2> HIDE DEF s2
  <2> QED BY <1>1, <2>2, <2>3
<1> DEFINE s == s1 \o s2
<1>5. RemoveAt(list, k) = s
  BY DEF RemoveAt
<1>6. /\ s \in Seq(S) /\ Len(s) = Len(s1) + Len(s2)
      /\ \A p \in 1 .. Len(s1) + Len(s2) : s[p] = IF p <= Len(s1) THEN s1[p] ELSE s2[p - Len(s1)]
  <2> HIDE DEF s1, s2
  <2> QED BY <1>3, <1>4, ConcatProperties
<1> HIDE DEF s, s1, s2, n
<1>7. Len(s1) + Len(s2) = n - 1 /\ n \in Nat \ {0}
  BY <1>1, <1>3, <1>4 DEF n
<1>8. DOMAIN s = 1 .. n - 1 /\ Len(s) = n - 1
  BY <1>6, <1>7, LenProperties
<1>9. ASSUME NEW p \in 1 .. n - 1
      PROVE  s[p] = IF p < k THEN list[p] ELSE list[p + 1]
  <2>1. CASE p < k
    <3>1. p \in 1 .. k - 1 /\ p <= k - 1
      BY <1>1, <1>7, <2>1
    <3> QED BY <1>3, <1>6, <1>7, <2>1, <3>1
  <2>2. CASE p >= k
    <3> DEFINE q == p - (k - 1)
    <3>1. q \in 1 .. n - k /\ k + q = p + 1 /\ ~(p <= k - 1) /\ ~(p < k)
      BY <1>1, <1>7, <2>2
    <3>2. s[p] = s2[q]
      BY <1>3, <1>6, <1>7, <3>1
    <3>3. s2[q] = list[k + q]
      <4> HIDE DEF q
      <4> QED BY <1>4, <3>1
    <3> QED BY <3>1, <3>2, <3>3
  <2>3. p < k \/ p >= k
    BY <1>1, <1>7
  <2> QED BY <2>1, <2>2, <2>3
<1> QED BY <1>1, <1>5, <1>6, <1>7, <1>8, <1>9 DEF n

\* The three changes of a list keep it increasing.
LEMMA FrontIncreasing ==
  ASSUME NEW S, NEW list \in Seq(S), list # <<>>, Increasing(list)
  PROVE  Increasing(Front(list))
BY FrontList DEF Increasing

LEMMA RemovedIncreasing ==
  ASSUME NEW S, S \subseteq Nat, NEW list \in Seq(S), NEW k \in DOMAIN list, Increasing(list)
  PROVE  Increasing(RemoveAt(list, k))
<1> DEFINE n == Len(list)
           shorter == RemoveAt(list, k)
<1>1. /\ n \in Nat \ {0} /\ DOMAIN list = 1 .. n /\ DOMAIN shorter = 1 .. n - 1 /\ k \in 1 .. n
      /\ \A p \in 1 .. n - 1 : shorter[p] = IF p < k THEN list[p] ELSE list[p + 1]
  BY RemovedList
<1>2. \A p \in 1 .. n : list[p] \in Nat
  BY ElementOfSeq
<1> HIDE DEF n, shorter
<1>3. ASSUME NEW p \in 1 .. n - 1
      PROVE  p <= shorter[p]
  <2>1. p \in 1 .. n /\ p + 1 \in 1 .. n /\ p <= list[p] /\ p + 1 <= list[p + 1]
    BY <1>1 DEF Increasing
  <2> QED BY <1>1, <1>2, <2>1
<1>4. ASSUME NEW p \in 1 .. n - 1, NEW q \in 1 .. n - 1, p < q
      PROVE  shorter[p] < shorter[q]
  <2>1. /\ p \in 1 .. n /\ p + 1 \in 1 .. n /\ q \in 1 .. n /\ q + 1 \in 1 .. n
        /\ p < q + 1 /\ p + 1 < q + 1
    BY <1>1, <1>4
  <2>2. list[p] < list[q] /\ list[p] < list[q + 1] /\ list[p + 1] < list[q + 1]
    BY <1>1, <1>4, <2>1 DEF Increasing
  <2>3. p < k \/ ~(q < k)
    BY <1>1, <1>4
  <2> QED BY <1>1, <2>2, <2>3
<1> QED BY <1>1, <1>3, <1>4 DEF Increasing, shorter

LEMMA AppendIncreasing ==
  ASSUME NEW n \in Nat, NEW list \in Seq(1 .. n), Increasing(list)
  PROVE  Increasing(Append(list, n + 1))
<1> DEFINE m == Len(list)
           longer == Append(list, n + 1)
<1>1. list \in Seq(1 .. n + 1) /\ n + 1 \in 1 .. n + 1
  BY SeqMonotonic
<1>2. /\ m \in Nat /\ DOMAIN list = 1 .. m /\ longer \in Seq(1 .. n + 1) /\ Len(longer) = m + 1
      /\ \A p \in 1 .. m : longer[p] = list[p] /\ list[p] \in 1 .. n
      /\ longer[m + 1] = n + 1
  BY <1>1, LenProperties, ElementOfSeq, AppendProperties
<1>3. DOMAIN longer = 1 .. m + 1
  BY <1>2, LenProperties
<1> HIDE DEF m, longer
<1>4. m <= n
  <2>1. CASE m = 0
    BY <1>2, <2>1
  <2>2. CASE m # 0
    <3>1. m \in 1 .. m
      BY <1>2, <2>2
    <3>2. m <= list[m] /\ list[m] \in 1 .. n
      BY <1>2, <3>1 DEF Increasing
    <3> QED BY <1>2, <3>2
  <2> QED BY <2>1, <2>2
<1>5. ASSUME NEW p \in 1 .. m + 1
      PROVE  p <= longer[p]
  <2>1. CASE p \in 1 .. m
    BY <1>2, <2>1 DEF Increasing
  <2>2. CASE p = m + 1
    BY <1>2, <1>4, <2>2
  <2> QED BY <1>2, <2>1, <2>2
<1>6. ASSUME NEW p \in 1 .. m + 1, NEW q \in 1 .. m + 1, p < q
      PROVE  longer[p] < longer[q]
  <2>1. p \in 1 .. m /\ longer[p] = list[p] /\ list[p] \in 1 .. n
    BY <1>2, <1>6
  <2>2. CASE q \in 1 .. m
    BY <1>2, <1>6, <2>1, <2>2 DEF Increasing
  <2>3. CASE q = m + 1
    BY <1>2, <2>1, <2>3
  <2> QED BY <1>2, <2>2, <2>3
<1> QED BY <1>3, <1>5, <1>6 DEF Increasing, longer

-----------------------------------------------------------------------------
(***************************************************************************)
(* The data structures, of a heap and two sets of lists with n stores      *)
(* recorded.                                                               *)
(***************************************************************************)

HeapOK(heap, n) == DOMAIN heap \subseteq 1 .. n /\ \A i \in DOMAIN heap : heap[i] \in Chain

ListsOK(lists, heap) ==
    \A k \in DOMAIN lists : lists[k] \in Seq(DOMAIN heap) /\ Increasing(lists[k])

\* Each chain is on the list of one address.
AddressesOK(addresses, heap) ==
    /\ \A i \in DOMAIN heap :
          \E a \in DOMAIN addresses : \E p \in DOMAIN addresses[a] : addresses[a][p] = i
    /\ \A a, b \in DOMAIN addresses : \A p \in DOMAIN addresses[a], q \in DOMAIN addresses[b] :
          addresses[a][p] = addresses[b][q] => a = b

\* Each chain is on the list of its pc.
PcsOK(pcs, heap) ==
    /\ \A i \in DOMAIN heap :
          heap[i].pc \in DOMAIN pcs /\ \E p \in DOMAIN pcs[heap[i].pc] : pcs[heap[i].pc][p] = i
    /\ \A pc \in DOMAIN pcs : \A p \in DOMAIN pcs[pc] : heap[pcs[pc][p]].pc = pc

Distinct(heap) ==
    \A i, j \in DOMAIN heap :
        heap[i].done /\ heap[j].done /\ heap[i].pc = heap[j].pc /\ heap[i].uses = heap[j].uses
            => i = j

DataOK(heap, addresses, pcs, n) ==
    /\ HeapOK(heap, n)
    /\ DOMAIN addresses \subseteq Addresses /\ ListsOK(addresses, heap) /\ AddressesOK(addresses, heap)
    /\ DOMAIN pcs \subseteq RecordPcs /\ ListsOK(pcs, heap) /\ PcsOK(pcs, heap)
    /\ Distinct(heap)

\* The last chain of a list is in use, the others have ended; or all have.
OpenAt(heap, list) ==
    list # <<>> /\ \A k \in DOMAIN list : heap[list[k]].done <=> k < Len(list)
ClosedAt(heap, list) == \A k \in DOMAIN list : heap[list[k]].done

InUse ==
    \A a \in DOMAIN addressChains :
        IF phase = "tracking" \/ a \in toAnalyze THEN OpenAt(chain, addressChains[a])
        ELSE ClosedAt(chain, addressChains[a])

ChainsInv ==
    /\ phase \in {"tracking", "analyzing", "reported"}
    /\ cycle \in 0 .. MaxStores
    /\ toAnalyze \subseteq DOMAIN addressChains
    /\ phase = "reported" => toAnalyze = {}
    /\ DataOK(chain, addressChains, pcChains, cycle)
    /\ InUse

\* Lists name chains by cycle and pc only.
LEMMA SameShape ==
  ASSUME NEW heap, NEW other, NEW addresses, NEW pcs, NEW n,
         DataOK(heap, addresses, pcs, n), DOMAIN other = DOMAIN heap,
         \A i \in DOMAIN heap : other[i] \in Chain /\ other[i].pc = heap[i].pc,
         Distinct(other)
  PROVE  DataOK(other, addresses, pcs, n)
<1>1. HeapOK(other, n)
  BY DEF DataOK, HeapOK
<1>2. ListsOK(addresses, other) /\ ListsOK(pcs, other) /\ AddressesOK(addresses, other)
  BY DEF DataOK, ListsOK, AddressesOK
<1>3. PcsOK(pcs, other)
  <2>1. \A pc \in DOMAIN pcs : \A p \in DOMAIN pcs[pc] : pcs[pc][p] \in DOMAIN heap
    <3> SUFFICES ASSUME NEW pc \in DOMAIN pcs, NEW p \in DOMAIN pcs[pc]
                 PROVE  pcs[pc][p] \in DOMAIN heap
      OBVIOUS
    <3>1. pcs[pc] \in Seq(DOMAIN heap)
      BY DEF DataOK, ListsOK
    <3> QED BY <3>1, LenProperties, ElementOfSeq
  <2> QED BY <2>1 DEF DataOK, PcsOK
<1> QED BY <1>1, <1>2, <1>3 DEF DataOK

\* What a list holds is on the heap.
LEMMA ListedOnHeap ==
  ASSUME NEW heap, NEW lists, ListsOK(lists, heap), NEW k \in DOMAIN lists
  PROVE  /\ lists[k] \in Seq(DOMAIN heap) /\ Increasing(lists[k])
         /\ DOMAIN lists[k] = 1 .. Len(lists[k]) /\ Len(lists[k]) \in Nat
         /\ \A p \in DOMAIN lists[k] : lists[k][p] \in DOMAIN heap
<1>1. lists[k] \in Seq(DOMAIN heap) /\ Increasing(lists[k])
  BY DEF ListsOK
<1> QED BY <1>1, LenProperties, ElementOfSeq

LEMMA ChainFields ==
  ASSUME NEW c \in Chain
  PROVE  /\ c.pc \in StorePcs /\ c.uses \in Seq(0 .. TagSpace - 1) /\ c.done \in BOOLEAN
         /\ c.population \in Nat /\ c.equalized \in Seq(Cycle)
BY DEF Chain

LEMMA GrownClass ==
  ASSUME NEW d \in Chain, NEW i \in Cycle, NEW c \in AddCycle(d, i)
  PROVE  c \in Chain /\ c.pc = d.pc /\ c.uses = d.uses /\ c.done = d.done
<1> DEFINE grown == [d EXCEPT !.population = @ + 1]
           longer == Append(d.equalized, i)
           last == IF ClassSize = 1 THEN 1 ELSE ClassSize - 1
<1>1. d.population + 1 \in Nat /\ d.equalized \in Seq(Cycle)
  BY ChainFields
<1>2. grown \in Chain /\ grown.pc = d.pc /\ grown.uses = d.uses /\ grown.done = d.done
  BY <1>1 DEF Chain
<1>3. longer \in Seq(Cycle) /\ Len(longer) = Len(d.equalized) + 1 /\ Len(d.equalized) \in Nat
  BY <1>1, AppendProperties, LenProperties
<1>4. ASSUME NEW q \in Seq(Cycle), c = [grown EXCEPT !.equalized = q]
      PROVE  c \in Chain /\ c.pc = d.pc /\ c.uses = d.uses /\ c.done = d.done
  <2> HIDE DEF grown
  <2> QED BY <1>2, <1>4 DEF Chain
<1>5. ASSUME ~(Len(d.equalized) < ClassSize), NEW k \in 1 .. last
      PROVE  RemoveAt(longer, k) \in Seq(Cycle)
  <2>1. k \in 1 .. Len(longer)
    BY <1>3, <1>5, BoundsAssumption
  <2>2. k \in DOMAIN longer
    BY <1>3, <2>1, LenProperties
  <2> HIDE DEF longer
  <2> QED BY <1>3, <2>2, RemovedList
<1>6. CASE Len(d.equalized) < ClassSize
  <2>1. c = [grown EXCEPT !.equalized = longer]
    BY <1>6 DEF AddCycle
  <2> QED BY <1>3, <1>4, <2>1
<1>7. CASE ~(Len(d.equalized) < ClassSize)
  <2>1. c = grown \/ \E k \in 1 .. last : c = [grown EXCEPT !.equalized = RemoveAt(longer, k)]
    BY <1>7 DEF AddCycle
  <2> HIDE DEF grown, longer, last
  <2> QED BY <1>2, <1>4, <1>5, <1>7, <2>1
<1> QED BY <1>6, <1>7

\* A list none of whose elements is x is a list of the others.
LEMMA WithoutElement ==
  ASSUME NEW S, NEW list \in Seq(S), NEW x, \A p \in DOMAIN list : list[p] # x
  PROVE  list \in Seq(S \ {x})
<1>1. /\ Len(list) \in Nat /\ DOMAIN list = 1 .. Len(list)
      /\ list \in [1 .. Len(list) -> S]
  BY LenProperties
<1>2. list \in [1 .. Len(list) -> S \ {x}]
  BY <1>1
<1> QED BY <1>1, <1>2, SeqDef

\* The last chain of address a leaves the heap, its address list and its pc list.
LEMMA MergeOK ==
  ASSUME NEW heap, NEW addresses, NEW pcs, NEW n \in Nat, DataOK(heap, addresses, pcs, n),
         NEW a \in DOMAIN addresses, addresses[a] # <<>>,
         NEW last, last = addresses[a][Len(addresses[a])],
         NEW other, DOMAIN other = DOMAIN heap \ {last},
         \A i \in DOMAIN other : /\ other[i] \in Chain /\ other[i].pc = heap[i].pc
                                 /\ other[i].uses = heap[i].uses /\ other[i].done = heap[i].done,
         NEW pc, pc = heap[last].pc, NEW k \in DOMAIN pcs[pc], pcs[pc][k] = last
  PROVE  DataOK(other, [addresses EXCEPT ![a] = Front(@)], [pcs EXCEPT ![pc] = RemoveAt(@, k)], n)
<1> DEFINE rest == Front(addresses[a])
           short == RemoveAt(pcs[pc], k)
           fewer == [addresses EXCEPT ![a] = rest]
           less == [pcs EXCEPT ![pc] = short]
           m == Len(addresses[a])
           w == Len(pcs[pc])
<1>1. /\ HeapOK(heap, n) /\ ListsOK(addresses, heap) /\ AddressesOK(addresses, heap)
      /\ ListsOK(pcs, heap) /\ PcsOK(pcs, heap) /\ Distinct(heap)
      /\ DOMAIN addresses \subseteq Addresses /\ DOMAIN pcs \subseteq RecordPcs
  BY DEF DataOK
<1>2. DOMAIN heap \subseteq Nat
  BY <1>1 DEF HeapOK
<1>3. /\ rest \in Seq(DOMAIN heap) /\ DOMAIN rest = 1 .. m - 1 /\ DOMAIN addresses[a] = 1 .. m
      /\ m \in Nat \ {0} /\ m \in DOMAIN addresses[a]
      /\ \A p \in 1 .. m - 1 : rest[p] = addresses[a][p] /\ p \in DOMAIN addresses[a]
      /\ Increasing(rest) /\ Increasing(addresses[a])
  BY <1>1, ListedOnHeap, FrontList, FrontIncreasing
<1>4. last \in DOMAIN heap /\ pc \in DOMAIN pcs
  BY <1>1, <1>3, ListedOnHeap DEF PcsOK
<1>5. /\ short \in Seq(DOMAIN heap) /\ DOMAIN short = 1 .. w - 1 /\ DOMAIN pcs[pc] = 1 .. w
      /\ w \in Nat \ {0}
      /\ \A p \in 1 .. w - 1 : short[p] = IF p < k THEN pcs[pc][p] ELSE pcs[pc][p + 1]
      /\ Increasing(short) /\ Increasing(pcs[pc])
  <2>1. pcs[pc] \in Seq(DOMAIN heap) /\ Increasing(pcs[pc])
    BY <1>1, <1>4, ListedOnHeap
  <2>2. Increasing(short)
    BY <1>2, <2>1, RemovedIncreasing
  <2>3. /\ short \in Seq(DOMAIN heap) /\ DOMAIN pcs[pc] = 1 .. w
        /\ w \in Nat \ {0} /\ DOMAIN short = 1 .. w - 1
        /\ \A p \in 1 .. w - 1 : short[p] = IF p < k THEN pcs[pc][p] ELSE pcs[pc][p + 1]
    BY <2>1, RemovedList
  <2> QED BY <2>1, <2>2, <2>3
<1>6. /\ DOMAIN fewer = DOMAIN addresses /\ fewer[a] = rest
      /\ \A b \in DOMAIN addresses \ {a} : fewer[b] = addresses[b]
      /\ DOMAIN less = DOMAIN pcs /\ less[pc] = short
      /\ \A q \in DOMAIN pcs \ {pc} : less[q] = pcs[q]
  BY <1>4
<1> HIDE DEF rest, short, fewer, less, m, w
<1>7. HeapOK(other, n)
  BY <1>1 DEF HeapOK
<1>8. Distinct(other)
  BY <1>1 DEF Distinct
<1>9. \A b \in DOMAIN addresses : \A p \in DOMAIN fewer[b] :
         p \in DOMAIN addresses[b] /\ fewer[b][p] = addresses[b][p] /\ fewer[b][p] # last
  <2> SUFFICES ASSUME NEW b \in DOMAIN addresses, NEW p \in DOMAIN fewer[b]
               PROVE  p \in DOMAIN addresses[b] /\ fewer[b][p] = addresses[b][p] /\ fewer[b][p] # last
    OBVIOUS
  <2>1. CASE b = a
    <3>1. p \in 1 .. m - 1 /\ p < m /\ p \in DOMAIN addresses[a]
      BY <1>3, <1>6, <2>1
    <3>2. addresses[a][p] < addresses[a][m] /\ addresses[a][p] \in Nat /\ addresses[a][m] \in Nat
      BY <1>1, <1>2, <1>3, <3>1, ListedOnHeap DEF Increasing
    <3> QED BY <1>3, <1>6, <2>1, <3>1, <3>2 DEF m
  <2>2. CASE b # a
    <3>1. fewer[b] = addresses[b]
      BY <1>6, <2>2
    <3> QED BY <1>1, <1>3, <2>2, <3>1 DEF AddressesOK, m
  <2> QED BY <2>1, <2>2
<1>10. ListsOK(fewer, other)
  <2> SUFFICES ASSUME NEW b \in DOMAIN addresses
               PROVE  fewer[b] \in Seq(DOMAIN other) /\ Increasing(fewer[b])
    BY <1>6 DEF ListsOK
  <2>1. fewer[b] \in Seq(DOMAIN heap) /\ Increasing(fewer[b])
    BY <1>1, <1>3, <1>6, ListedOnHeap
  <2> QED BY <1>9, <2>1, WithoutElement
<1>11. AddressesOK(fewer, other)
  <2>1. ASSUME NEW i \in DOMAIN other
        PROVE  \E b \in DOMAIN fewer : \E p \in DOMAIN fewer[b] : fewer[b][p] = i
    <3>1. PICK b \in DOMAIN addresses : \E p \in DOMAIN addresses[b] : addresses[b][p] = i
      BY <1>1, <2>1 DEF AddressesOK
    <3>2. PICK p \in DOMAIN addresses[b] : addresses[b][p] = i
      BY <3>1
    <3>3. CASE b # a
      BY <1>6, <3>2, <3>3
    <3>4. CASE b = a
      <4>1. p # m
        BY <2>1, <3>2, <3>4 DEF m
      <4>2. p \in 1 .. m - 1
        BY <1>3, <3>2, <3>4, <4>1
      <4> QED BY <1>3, <1>6, <3>2, <3>4, <4>2
    <3> QED BY <3>3, <3>4
  <2>2. ASSUME NEW b \in DOMAIN fewer, NEW d \in DOMAIN fewer,
               NEW p \in DOMAIN fewer[b], NEW q \in DOMAIN fewer[d], fewer[b][p] = fewer[d][q]
        PROVE  b = d
    <3>1. /\ p \in DOMAIN addresses[b] /\ fewer[b][p] = addresses[b][p]
          /\ q \in DOMAIN addresses[d] /\ fewer[d][q] = addresses[d][q]
      BY <1>6, <1>9
    <3>2. b \in DOMAIN addresses /\ d \in DOMAIN addresses /\ addresses[b][p] = addresses[d][q]
      BY <1>6, <2>2, <3>1
    <3> QED BY <1>1, <3>1, <3>2 DEF AddressesOK
  <2> QED BY <2>1, <2>2 DEF AddressesOK
<1>12. \A q \in DOMAIN pcs : \A p \in DOMAIN less[q] :
          \E r \in DOMAIN pcs[q] : less[q][p] = pcs[q][r] /\ less[q][p] # last
  <2> SUFFICES ASSUME NEW q \in DOMAIN pcs, NEW p \in DOMAIN less[q]
               PROVE  \E r \in DOMAIN pcs[q] : less[q][p] = pcs[q][r] /\ less[q][p] # last
    OBVIOUS
  <2>1. CASE q = pc
    <3>1. p \in 1 .. w - 1 /\ p \in 1 .. w /\ p + 1 \in 1 .. w /\ k \in 1 .. w
      BY <1>5, <1>6, <2>1
    <3>2. pcs[pc][p] \in Nat /\ pcs[pc][p + 1] \in Nat /\ last \in Nat
      BY <1>1, <1>2, <1>4, <1>5, <3>1, ListedOnHeap
    <3>3. CASE p < k
      <4>1. less[q][p] = pcs[q][p] /\ pcs[pc][p] < last
        BY <1>5, <1>6, <2>1, <3>1, <3>3 DEF Increasing
      <4> QED BY <1>5, <2>1, <3>1, <3>2, <4>1
    <3>4. CASE ~(p < k)
      <4>1. k < p + 1
        BY <3>1, <3>4
      <4>2. less[q][p] = pcs[q][p + 1] /\ last < pcs[pc][p + 1]
        BY <1>5, <1>6, <2>1, <3>1, <3>4, <4>1 DEF Increasing
      <4>3. p + 1 \in DOMAIN pcs[q] /\ less[q][p] # last
        BY <1>5, <2>1, <3>1, <3>2, <4>2
      <4> QED BY <4>2, <4>3
    <3> QED BY <3>3, <3>4
  <2>2. CASE q # pc
    <3>1. less[q] = pcs[q]
      BY <1>6, <2>2
    <3>2. heap[pcs[q][p]].pc = q
      BY <1>1, <3>1 DEF PcsOK
    <3> QED BY <2>2, <3>1, <3>2
  <2> QED BY <2>1, <2>2
<1>13. ListsOK(less, other)
  <2> SUFFICES ASSUME NEW q \in DOMAIN pcs
               PROVE  less[q] \in Seq(DOMAIN other) /\ Increasing(less[q])
    BY <1>6 DEF ListsOK
  <2>1. less[q] \in Seq(DOMAIN heap) /\ Increasing(less[q])
    BY <1>1, <1>5, <1>6, ListedOnHeap
  <2>2. \A p \in DOMAIN less[q] : less[q][p] # last
    BY <1>12
  <2> QED BY <2>1, <2>2, WithoutElement
<1>14. PcsOK(less, other)
  <2>1. ASSUME NEW i \in DOMAIN other
        PROVE  /\ other[i].pc \in DOMAIN less
               /\ \E p \in DOMAIN less[other[i].pc] : less[other[i].pc][p] = i
    <3> DEFINE q == heap[i].pc
    <3>1. q \in DOMAIN pcs /\ other[i].pc = q /\ i # last
      BY <1>1, <2>1 DEF PcsOK
    <3>2. PICK r \in DOMAIN pcs[q] : pcs[q][r] = i
      BY <1>1, <2>1 DEF PcsOK
    <3> HIDE DEF q
    <3>3. CASE q # pc
      BY <1>6, <3>1, <3>2, <3>3
    <3>4. CASE q = pc
      <4>1. r \in 1 .. w /\ k \in 1 .. w /\ r # k
        BY <1>5, <3>1, <3>2, <3>4
      <4>2. CASE r < k
        <5>1. r \in 1 .. w - 1 /\ short[r] = i
          BY <1>5, <3>2, <3>4, <4>1, <4>2
        <5> QED BY <1>5, <1>6, <3>1, <3>4, <5>1
      <4>3. CASE ~(r < k)
        <5>1. r - 1 \in 1 .. w - 1 /\ ~(r - 1 < k) /\ (r - 1) + 1 = r
          BY <1>5, <4>1, <4>3
        <5>2. short[r - 1] = i
          BY <1>5, <3>2, <3>4, <5>1
        <5> QED BY <1>5, <1>6, <3>1, <3>4, <5>1, <5>2
      <4> QED BY <4>2, <4>3
    <3> QED BY <1>6, <3>1, <3>3, <3>4
  <2>2. ASSUME NEW q \in DOMAIN less, NEW p \in DOMAIN less[q]
        PROVE  other[less[q][p]].pc = q
    <3>1. PICK r \in DOMAIN pcs[q] : less[q][p] = pcs[q][r] /\ less[q][p] # last
      BY <1>6, <1>12
    <3>2. pcs[q][r] \in DOMAIN heap /\ heap[pcs[q][r]].pc = q
      BY <1>1, <1>6, ListedOnHeap DEF PcsOK
    <3> QED BY <3>1, <3>2
  <2> QED BY <2>1, <2>2 DEF PcsOK
<1>15. DataOK(other, fewer, less, n)
  BY <1>1, <1>6, <1>7, <1>8, <1>10, <1>11, <1>13, <1>14 DEF DataOK
<1> QED BY <1>15 DEF fewer, less, rest, short

\* Chain i of a heap ends: it stays, or it is counted in the class of its twin.
EndsAlone(heap, other, i) ==
    /\ DOMAIN other = DOMAIN heap
    /\ other[i] = [heap[i] EXCEPT !.done = TRUE]
    /\ \A j \in DOMAIN heap \ {i} : other[j] = heap[j]

EndsIn(heap, other, i, twin) ==
    /\ heap[twin].done /\ heap[twin].pc = heap[i].pc /\ heap[twin].uses = heap[i].uses
    /\ DOMAIN other = DOMAIN heap \ {i}
    /\ other[twin] \in AddCycle(heap[twin], i)
    /\ \A j \in DOMAIN heap \ {i, twin} : other[j] = heap[j]

Ends(heap, other, i) ==
    /\ i \in DOMAIN heap /\ ~heap[i].done
    /\ \/ EndsAlone(heap, other, i)
       \/ \E twin \in DOMAIN heap \ {i} : EndsIn(heap, other, i, twin)

\* What ends with the last chain of address a: everything stays in step, and all
\* the chains of the address have ended.
LEMMA EndedOK ==
  ASSUME DataOK(chain, addressChains, pcChains, cycle), cycle \in 0 .. MaxStores,
         NEW a \in DOMAIN addressChains, OpenAt(chain, addressChains[a]), NEW after \in Ended(a)
  PROVE  /\ DataOK(after.chain, after.addresses, after.pcs, cycle)
         /\ DOMAIN after.addresses = DOMAIN addressChains
         /\ ClosedAt(after.chain, after.addresses[a])
         /\ Ends(chain, after.chain, Last(addressChains[a]))
         /\ \A b \in DOMAIN addressChains \ {a} :
               /\ after.addresses[b] = addressChains[b]
               /\ OpenAt(chain, addressChains[b]) => OpenAt(after.chain, after.addresses[b])
               /\ ClosedAt(chain, addressChains[b]) => ClosedAt(after.chain, after.addresses[b])
<1> DEFINE list == addressChains[a]
           m == Len(list)
           last == Last(list)
           done == SetDefDone(last)
           pc == chain[last].pc
           equal == EqualTo(done, last)
           twin == pcChains[pc][Min(equal)]
<1>1. /\ HeapOK(chain, cycle) /\ ListsOK(addressChains, chain) /\ AddressesOK(addressChains, chain)
      /\ ListsOK(pcChains, chain) /\ PcsOK(pcChains, chain) /\ Distinct(chain)
  BY DEF DataOK
<1>2. /\ list # <<>> /\ DOMAIN list = 1 .. m /\ m \in Nat \ {0} /\ m \in DOMAIN list
      /\ last = list[m] /\ last \in DOMAIN chain
      /\ \A p \in DOMAIN list : list[p] \in DOMAIN chain /\ (chain[list[p]].done <=> p < m)
  <2>1. /\ list \in Seq(DOMAIN chain) /\ DOMAIN list = 1 .. m /\ m \in Nat
        /\ \A p \in DOMAIN list : list[p] \in DOMAIN chain
    BY <1>1, ListedOnHeap
  <2>2. list # <<>> /\ \A p \in DOMAIN list : chain[list[p]].done <=> p < m
    BY DEF OpenAt
  <2>3. m # 0
    BY <2>1, <2>2, EmptySeq
  <2>4. last = list[m]
    BY DEF Last
  <2> QED BY <2>1, <2>2, <2>3, <2>4
<1>3. \A b \in DOMAIN addressChains \ {a} : \A p \in DOMAIN addressChains[b] :
         addressChains[b][p] \in DOMAIN chain /\ addressChains[b][p] # last
  <2> HIDE DEF list, m, last
  <2>1. \A b \in DOMAIN addressChains \ {a} : \A p \in DOMAIN addressChains[b] :
           addressChains[b][p] # last
    BY <1>1, <1>2 DEF AddressesOK, list
  <2> QED BY <1>1, <2>1, ListedOnHeap
<1>4. \A i \in DOMAIN chain : chain[i] \in Chain
  BY <1>1 DEF HeapOK
<1>5. /\ DOMAIN done = DOMAIN chain /\ done[last].done
      /\ \A i \in DOMAIN chain : /\ done[i] \in Chain /\ done[i].pc = chain[i].pc
                                 /\ done[i].uses = chain[i].uses
                                 /\ i # last => done[i] = chain[i]
  <2> HIDE DEF list, m, last
  <2> QED BY <1>2, <1>4 DEF SetDefDone, Chain
<1>5a. /\ done[last] = [chain[last] EXCEPT !.done = TRUE] /\ ~chain[last].done
       /\ done[last].uses = chain[last].uses
  <2>1. ~chain[last].done
    <3> HIDE DEF list, m, last
    <3>1. (chain[list[m]].done <=> m < m) /\ m \in Nat /\ last = list[m]
      BY <1>2
    <3> QED BY <3>1
  <2>2. done[last].uses = chain[last].uses
    BY <1>2, <1>5
  <2>3. done[last] = [chain[last] EXCEPT !.done = TRUE]
    <3> HIDE DEF list, m, last
    <3> QED BY <1>2 DEF SetDefDone
  <2> QED BY <2>1, <2>2, <2>3
<1>6. equal = {k \in DOMAIN pcChains[pc] :
                  /\ pcChains[pc][k] # last /\ done[pcChains[pc][k]].done
                  /\ done[pcChains[pc][k]].uses = done[last].uses}
  <2>1. done[last].pc = pc
    BY <1>2, <1>5
  <2> HIDE DEF last, done, pc
  <2> QED BY <2>1 DEF EqualTo, IsChainEqual
<1>7. CASE equal = {}
  <2>1. after = [chain |-> done, addresses |-> addressChains, pcs |-> pcChains]
    BY <1>7 DEF Ended
  <2> HIDE DEF done, pc, equal, twin, last, m, list
  <2>2. \A j \in DOMAIN chain \ {last} :
           done[j].done /\ done[j].pc = pc => done[j].uses # done[last].uses
    <3> SUFFICES ASSUME NEW j \in DOMAIN chain \ {last}, done[j].done, done[j].pc = pc,
                        done[j].uses = done[last].uses
                 PROVE  FALSE
      OBVIOUS
    <3>1. PICK p \in DOMAIN pcChains[pc] : pcChains[pc][p] = j
      BY <1>1, <1>5 DEF PcsOK
    <3> QED BY <1>6, <1>7, <3>1
  <2>3. done[last].pc = pc
    BY <1>2, <1>5 DEF pc
  <2>4. Distinct(done)
    <3> SUFFICES ASSUME NEW i \in DOMAIN chain, NEW j \in DOMAIN chain,
                        done[i].done, done[j].done, done[i].pc = done[j].pc,
                        done[i].uses = done[j].uses
                 PROVE  i = j
      BY <1>5 DEF Distinct
    <3>1. CASE i = last
      BY <2>2, <2>3, <3>1
    <3>2. CASE j = last
      BY <2>2, <2>3, <3>2
    <3>3. CASE i # last /\ j # last
      BY <1>1, <1>5, <3>3 DEF Distinct
    <3> QED BY <3>1, <3>2, <3>3
  <2>5. DataOK(done, addressChains, pcChains, cycle)
    BY <1>5, <2>4, SameShape
  <2>6. ClosedAt(done, list)
    <3> SUFFICES ASSUME NEW p \in DOMAIN list PROVE done[list[p]].done
      BY DEF ClosedAt
    <3>1. p < m \/ p = m
      BY <1>2
    <3> QED BY <1>2, <1>5, <3>1
  <2>7. ASSUME NEW b \in DOMAIN addressChains \ {a}
        PROVE  /\ OpenAt(chain, addressChains[b]) => OpenAt(done, addressChains[b])
               /\ ClosedAt(chain, addressChains[b]) => ClosedAt(done, addressChains[b])
    BY <1>3, <1>5 DEF OpenAt, ClosedAt
  <2>8. Ends(chain, done, last)
    BY <1>2, <1>5, <1>5a DEF Ends, EndsAlone
  <2>9. Last(addressChains[a]) = last
    BY DEF last, list
  <2> QED BY <2>1, <2>5, <2>6, <2>7, <2>8, <2>9 DEF list
<1>8. CASE equal # {}
  <2> DEFINE after_chain(c) == [i \in DOMAIN chain \ {last} |-> IF i = twin THEN c ELSE done[i]]
             place == CHOOSE k \in DOMAIN pcChains[pc] : pcChains[pc][k] = last
             rest == Front(list)
             fewer == [addressChains EXCEPT ![a] = Front(@)]
             less == [pcChains EXCEPT ![pc] = RemoveAt(@, place)]
  <2>1. PICK c \in AddCycle(done[twin], last) :
            after = [chain |-> after_chain(c), addresses |-> fewer, pcs |-> Erased(pc, last)]
    BY <1>8 DEF Ended
  <2> DEFINE other == after_chain(c)
  <2>2. Erased(pc, last) = less
    BY DEF Erased
  <2> HIDE DEF done, pc, equal, last, m, list
  <2>3. /\ pc \in DOMAIN pcChains /\ DOMAIN pcChains[pc] = 1 .. Len(pcChains[pc])
        /\ Len(pcChains[pc]) \in Nat
        /\ \A p \in DOMAIN pcChains[pc] : pcChains[pc][p] \in DOMAIN chain
                                          /\ chain[pcChains[pc][p]].pc = pc
        /\ \E p \in DOMAIN pcChains[pc] : pcChains[pc][p] = last
    <3>1. pc \in DOMAIN pcChains /\ \E p \in DOMAIN pcChains[pc] : pcChains[pc][p] = last
      BY <1>1, <1>2 DEF PcsOK, pc
    <3> QED BY <1>1, <3>1, ListedOnHeap DEF PcsOK
  <2>4. Min(equal) \in equal
    <3>1. equal \subseteq 1 .. Len(pcChains[pc])
      BY <1>6, <2>3
    <3>2. \E x \in equal : \A y \in equal : x <= y
      BY <1>8, <2>3, <3>1, LeastExists
    <3> QED BY <3>2 DEF Min
  <2>5. /\ twin \in DOMAIN chain /\ twin # last /\ done[twin].done
        /\ done[twin].pc = chain[twin].pc /\ done[twin] = chain[twin] /\ done[twin] \in Chain
    BY <1>5, <1>6, <2>3, <2>4
  <2>5a. chain[twin].done /\ chain[twin].pc = chain[last].pc /\ chain[twin].uses = chain[last].uses
    <3>1. done[twin].uses = done[last].uses /\ chain[twin].pc = pc
      BY <1>6, <2>3, <2>4
    <3> QED BY <1>5a, <2>5, <3>1 DEF pc
  <2> HIDE DEF twin
  <2>6. place \in DOMAIN pcChains[pc] /\ pcChains[pc][place] = last
    BY <2>3
  <2> HIDE DEF place
  <2>7. last \in Cycle
    BY <1>1, <1>2, BoundsAssumption DEF HeapOK, Cycle
  <2>8. c \in Chain /\ c.pc = chain[twin].pc /\ c.uses = chain[twin].uses /\ c.done = chain[twin].done
    BY <2>5, <2>7, GrownClass
  <2>9. /\ DOMAIN other = DOMAIN chain \ {last}
        /\ \A i \in DOMAIN other : /\ other[i] \in Chain /\ other[i].pc = chain[i].pc
                                   /\ other[i].uses = chain[i].uses /\ other[i].done = chain[i].done
    BY <1>4, <1>5, <2>8
  <2>9a. /\ other[twin] = c /\ c \in AddCycle(chain[twin], last)
         /\ \A j \in DOMAIN chain \ {last, twin} : other[j] = chain[j]
    BY <1>5, <2>1, <2>5
  <2> HIDE DEF other
  <2>10. DataOK(other, fewer, less, cycle)
    <3>1. cycle \in Nat
      OBVIOUS
    <3>2. list = addressChains[a] /\ last = addressChains[a][Len(addressChains[a])]
      BY <1>2 DEF list, m
    <3> QED BY <1>2, <2>6, <2>9, <3>1, <3>2, MergeOK DEF pc
  <2>11. /\ DOMAIN fewer = DOMAIN addressChains /\ fewer[a] = rest
         /\ \A b \in DOMAIN addressChains \ {a} : fewer[b] = addressChains[b]
    BY DEF list
  <2>12. ClosedAt(other, rest)
    <3>1. /\ DOMAIN rest = 1 .. m - 1
          /\ \A p \in 1 .. m - 1 : rest[p] = list[p] /\ p \in DOMAIN list
      <4>1. list \in Seq(DOMAIN chain)
        BY <1>1, ListedOnHeap DEF list
      <4> QED BY <1>2, <4>1, FrontList DEF m
    <3> HIDE DEF rest
    <3> SUFFICES ASSUME NEW p \in 1 .. m - 1 PROVE other[rest[p]].done
      BY <3>1 DEF ClosedAt
    <3>2. p < m /\ list[p] \in DOMAIN chain /\ chain[list[p]].done /\ ~chain[last].done
      BY <1>2, <3>1
    <3> QED BY <2>9, <3>1, <3>2
  <2> HIDE DEF fewer, less, rest
  <2>13. ASSUME NEW b \in DOMAIN addressChains \ {a}
         PROVE  /\ OpenAt(chain, addressChains[b]) => OpenAt(other, addressChains[b])
                /\ ClosedAt(chain, addressChains[b]) => ClosedAt(other, addressChains[b])
    BY <1>3, <2>9 DEF OpenAt, ClosedAt
  <2>14. after.chain = other /\ after.addresses = fewer /\ after.pcs = less
    BY <2>1, <2>2 DEF other
  <2>15. Ends(chain, other, last)
    BY <1>2, <1>5a, <2>5, <2>5a, <2>9, <2>9a DEF Ends, EndsIn
  <2>16. Last(addressChains[a]) = last
    BY DEF last, list
  <2> QED BY <2>10, <2>11, <2>12, <2>13, <2>14, <2>15, <2>16
<1> QED BY <1>7, <1>8

\* longer is the lists with i added at the end of that of key k.
GrownBy(lists, longer, k, i) ==
    /\ DOMAIN longer = DOMAIN lists \cup {k}
    /\ \A b \in DOMAIN lists \ {k} : longer[b] = lists[b]
    /\ longer[k] # <<>> /\ Len(longer[k]) \in Nat \ {0}
    /\ DOMAIN longer[k] = 1 .. Len(longer[k]) /\ longer[k][Len(longer[k])] = i
    /\ \A p \in 1 .. Len(longer[k]) - 1 :
          k \in DOMAIN lists /\ p \in DOMAIN lists[k] /\ longer[k][p] = lists[k][p]
    /\ k \in DOMAIN lists =>
          \A p \in DOMAIN lists[k] : p \in 1 .. Len(longer[k]) - 1 /\ longer[k][p] = lists[k][p]

\* Pushed adds store n + 1 at the end of one list.
LEMMA PushedLists ==
  ASSUME NEW heap, NEW other, NEW n \in Nat, NEW lists, NEW k,
         ListsOK(lists, heap), DOMAIN heap \subseteq 1 .. n, DOMAIN other = DOMAIN heap \cup {n + 1}
  PROVE  /\ GrownBy(lists, Pushed(lists, k, n + 1), k, n + 1)
         /\ ListsOK(Pushed(lists, k, n + 1), other)
<1> DEFINE new == n + 1
           longer == Pushed(lists, k, new)
           m == Len(longer[k])
<1>1. /\ DOMAIN longer = DOMAIN lists \cup {k}
      /\ \A b \in DOMAIN lists \ {k} : longer[b] = lists[b]
      /\ longer[k] = IF k \in DOMAIN lists THEN Append(lists[k], new) ELSE <<new>>
  BY DEF Pushed
<1>2. new \in DOMAIN other
  OBVIOUS
<1> HIDE DEF longer, m
<1>3. \A b \in DOMAIN lists \ {k} : longer[b] \in Seq(DOMAIN other) /\ Increasing(longer[b])
  <2> SUFFICES ASSUME NEW b \in DOMAIN lists \ {k}
               PROVE  longer[b] \in Seq(DOMAIN other) /\ Increasing(longer[b])
    OBVIOUS
  <2>1. lists[b] \in Seq(DOMAIN heap) /\ Increasing(lists[b]) /\ longer[b] = lists[b]
    BY <1>1, ListedOnHeap
  <2>2. lists[b] \in Seq(DOMAIN other)
    BY <2>1, SeqMonotonic
  <2> QED BY <2>1, <2>2
<1>4. CASE k \in DOMAIN lists
  <2>1. /\ lists[k] \in Seq(DOMAIN heap) /\ Increasing(lists[k])
        /\ DOMAIN lists[k] = 1 .. Len(lists[k]) /\ Len(lists[k]) \in Nat
    BY <1>4, ListedOnHeap
  <2>2. lists[k] \in Seq(DOMAIN other) /\ lists[k] \in Seq(1 .. n)
    <3>1. DOMAIN heap \subseteq DOMAIN other
      OBVIOUS
    <3> QED BY <2>1, <3>1, SeqMonotonic
  <2>3. longer[k] = Append(lists[k], new)
    BY <1>1, <1>4
  <2>4. Increasing(longer[k])
    BY <2>1, <2>2, <2>3, AppendIncreasing
  <2> HIDE DEF new
  <2>5. /\ longer[k] \in Seq(DOMAIN other) /\ m = Len(lists[k]) + 1 /\ longer[k][m] = new
        /\ \A p \in 1 .. Len(lists[k]) : longer[k][p] = lists[k][p]
    BY <1>2, <2>1, <2>2, <2>3, AppendProperties DEF m
  <2>6. DOMAIN longer[k] = 1 .. m
    BY <2>5, LenProperties DEF m
  <2>7. m - 1 = Len(lists[k]) /\ m \in Nat \ {0}
    BY <2>1, <2>5
  <2>8. longer[k] # <<>>
    BY <2>5, <2>7, EmptySeq DEF m
  <2>9. ListsOK(longer, other)
    BY <1>1, <1>3, <2>4, <2>5 DEF ListsOK
  <2>10. GrownBy(lists, longer, k, new)
    <3>1. /\ \A p \in 1 .. m - 1 :
                k \in DOMAIN lists /\ p \in DOMAIN lists[k] /\ longer[k][p] = lists[k][p]
          /\ k \in DOMAIN lists =>
                \A p \in DOMAIN lists[k] : p \in 1 .. m - 1 /\ longer[k][p] = lists[k][p]
      BY <1>4, <2>1, <2>5, <2>7
    <3> QED BY <1>1, <2>5, <2>6, <2>7, <2>8, <3>1 DEF GrownBy, m
  <2> QED BY <2>9, <2>10 DEF longer, new
<1>5. CASE k \notin DOMAIN lists
  <2> HIDE DEF new
  <2>1. longer[k] = <<new>>
    BY <1>1, <1>5
  <2>2. /\ longer[k] \in Seq(DOMAIN other) /\ m = 1 /\ longer[k][1] = new
        /\ DOMAIN longer[k] = 1 .. 1 /\ longer[k] # <<>>
    BY <1>2, <2>1 DEF m
  <2>3. Increasing(longer[k])
    <3>1. 1 <= new
      BY DEF new
    <3> QED BY <2>2, <3>1 DEF Increasing
  <2>4. ListsOK(longer, other)
    BY <1>1, <1>3, <2>2, <2>3 DEF ListsOK
  <2>5. GrownBy(lists, longer, k, new)
    <3>1. m - 1 = 0 /\ m \in Nat \ {0} /\ longer[k][m] = new /\ DOMAIN longer[k] = 1 .. m
      BY <2>2
    <3>2. \A p \in 1 .. m - 1 :
             k \in DOMAIN lists /\ p \in DOMAIN lists[k] /\ longer[k][p] = lists[k][p]
      BY <3>1
    <3> QED BY <1>1, <1>5, <2>2, <3>1, <3>2 DEF GrownBy, m
  <2> QED BY <2>4, <2>5 DEF longer, new
<1> QED BY <1>4, <1>5

\* The heap with a chain of pc started in cycle n.
Started(heap, pc, n) ==
    [i \in DOMAIN heap \cup {n} |-> IF i = n THEN NewChain(pc) ELSE heap[i]]

\* A new chain on the heap, at the end of the lists of its address and its pc.
LEMMA PushedOK ==
  ASSUME NEW heap, NEW addresses, NEW pcs, NEW n \in Nat, DataOK(heap, addresses, pcs, n),
         NEW a \in Addresses, NEW pc \in StorePcs, pc \in RecordPcs,
         a \in DOMAIN addresses => ClosedAt(heap, addresses[a])
  PROVE  /\ DataOK(Started(heap, pc, n + 1), Pushed(addresses, a, n + 1),
                   Pushed(pcs, pc, n + 1), n + 1)
         /\ DOMAIN Pushed(addresses, a, n + 1) = DOMAIN addresses \cup {a}
         /\ OpenAt(Started(heap, pc, n + 1), Pushed(addresses, a, n + 1)[a])
         /\ \A b \in DOMAIN addresses \ {a} :
               OpenAt(heap, addresses[b]) =>
                   OpenAt(Started(heap, pc, n + 1), Pushed(addresses, a, n + 1)[b])
<1> DEFINE new == n + 1
           other == Started(heap, pc, new)
           longer == Pushed(addresses, a, new)
           more == Pushed(pcs, pc, new)
           m == Len(longer[a])
           w == Len(more[pc])
<1>1. /\ HeapOK(heap, n) /\ ListsOK(addresses, heap) /\ AddressesOK(addresses, heap)
      /\ ListsOK(pcs, heap) /\ PcsOK(pcs, heap) /\ Distinct(heap)
      /\ DOMAIN addresses \subseteq Addresses /\ DOMAIN pcs \subseteq RecordPcs
  BY DEF DataOK
<1>2. DOMAIN heap \subseteq 1 .. n /\ new \notin DOMAIN heap
  BY <1>1 DEF HeapOK
<1>3. NewChain(pc) \in Chain /\ NewChain(pc).pc = pc /\ ~NewChain(pc).done
  BY EmptySeq DEF NewChain, Chain
<1>4. /\ DOMAIN other = DOMAIN heap \cup {new} /\ other[new] = NewChain(pc)
      /\ \A i \in DOMAIN heap : other[i] = heap[i] /\ i # new
  BY <1>2 DEF Started
<1> HIDE DEF other, longer, more, m, w, new
<1>5. GrownBy(addresses, longer, a, new) /\ ListsOK(longer, other)
  BY <1>1, <1>2, <1>4, PushedLists DEF longer, new
<1>5a.
      /\ DOMAIN longer = DOMAIN addresses \cup {a}
      /\ \A b \in DOMAIN addresses \ {a} : longer[b] = addresses[b]
      /\ m \in Nat \ {0} /\ DOMAIN longer[a] = 1 .. m /\ longer[a][m] = new
      /\ \A p \in 1 .. m - 1 : /\ a \in DOMAIN addresses /\ p \in DOMAIN addresses[a]
                               /\ longer[a][p] = addresses[a][p]
      /\ a \in DOMAIN addresses =>
            \A p \in DOMAIN addresses[a] : p \in 1 .. m - 1 /\ longer[a][p] = addresses[a][p]
      /\ longer[a] # <<>>
  BY <1>5 DEF GrownBy, m
<1>6. GrownBy(pcs, more, pc, new) /\ ListsOK(more, other)
  BY <1>1, <1>2, <1>4, PushedLists DEF more, new
<1>6a.
      /\ DOMAIN more = DOMAIN pcs \cup {pc}
      /\ \A b \in DOMAIN pcs \ {pc} : more[b] = pcs[b]
      /\ w \in Nat \ {0} /\ DOMAIN more[pc] = 1 .. w /\ more[pc][w] = new
      /\ \A p \in 1 .. w - 1 : /\ pc \in DOMAIN pcs /\ p \in DOMAIN pcs[pc]
                               /\ more[pc][p] = pcs[pc][p]
      /\ pc \in DOMAIN pcs =>
            \A p \in DOMAIN pcs[pc] : p \in 1 .. w - 1 /\ more[pc][p] = pcs[pc][p]
      /\ more[pc] # <<>>
  BY <1>6 DEF GrownBy, w
<1>7. HeapOK(other, new)
  <2>1. DOMAIN other \subseteq 1 .. new
    BY <1>2, <1>4 DEF new
  <2> QED BY <1>1, <1>3, <1>4, <2>1 DEF HeapOK
<1>8. Distinct(other)
  BY <1>1, <1>3, <1>4 DEF Distinct
<1>9. \A b \in DOMAIN addresses : \A p \in DOMAIN addresses[b] : addresses[b][p] \in DOMAIN heap
  BY <1>1, ListedOnHeap
<1>10. \A b \in DOMAIN pcs : \A p \in DOMAIN pcs[b] : pcs[b][p] \in DOMAIN heap
  BY <1>1, ListedOnHeap
<1>11. \A p \in 1 .. m : p = m \/ p \in 1 .. m - 1
  BY <1>5, <1>5a
<1>12. \A p \in 1 .. w : p = w \/ p \in 1 .. w - 1
  BY <1>6, <1>6a
<1>13. \A p \in 1 .. m - 1 : p \in 1 .. m
  BY <1>5, <1>5a
<1>14. \A p \in 1 .. w - 1 : p \in 1 .. w
  BY <1>6, <1>6a
<1>15. m \in 1 .. m /\ w \in 1 .. w
  BY <1>5, <1>5a, <1>6, <1>6a
<1>16. \A b \in DOMAIN longer : \A p \in DOMAIN longer[b] :
          \/ b = a /\ longer[b][p] = new
          \/ /\ b \in DOMAIN addresses /\ p \in DOMAIN addresses[b]
             /\ longer[b][p] = addresses[b][p] /\ longer[b][p] # new
  <2> SUFFICES ASSUME NEW b \in DOMAIN longer, NEW p \in DOMAIN longer[b]
               PROVE  \/ b = a /\ longer[b][p] = new
                      \/ /\ b \in DOMAIN addresses /\ p \in DOMAIN addresses[b]
                         /\ longer[b][p] = addresses[b][p] /\ longer[b][p] # new
    OBVIOUS
  <2>1. CASE b # a
    BY <1>2, <1>5, <1>5a, <1>9, <2>1
  <2>2. CASE b = a
    BY <1>2, <1>5, <1>5a, <1>9, <1>11, <2>2
  <2> QED BY <2>1, <2>2
<1>17. AddressesOK(longer, other)
  <2>1. ASSUME NEW i \in DOMAIN other
        PROVE  \E b \in DOMAIN longer : \E p \in DOMAIN longer[b] : longer[b][p] = i
    <3>1. CASE i = new
      BY <1>5, <1>5a, <1>15, <3>1
    <3>2. CASE i \in DOMAIN heap
      <4>1. PICK b \in DOMAIN addresses : \E p \in DOMAIN addresses[b] : addresses[b][p] = i
        BY <1>1, <3>2 DEF AddressesOK
      <4>2. PICK p \in DOMAIN addresses[b] : addresses[b][p] = i
        BY <4>1
      <4>3. b \in DOMAIN longer /\ p \in DOMAIN longer[b] /\ longer[b][p] = i
        BY <1>5, <1>5a, <1>13, <4>2
      <4> QED BY <4>3
    <3> QED BY <1>4, <3>1, <3>2
  <2>2. ASSUME NEW b \in DOMAIN longer, NEW d \in DOMAIN longer,
               NEW p \in DOMAIN longer[b], NEW q \in DOMAIN longer[d], longer[b][p] = longer[d][q]
        PROVE  b = d
    <3>1. CASE longer[b][p] = new
      BY <1>16, <2>2, <3>1
    <3>2. CASE longer[b][p] # new
      <4>1. /\ b \in DOMAIN addresses /\ p \in DOMAIN addresses[b]
            /\ d \in DOMAIN addresses /\ q \in DOMAIN addresses[d]
            /\ addresses[b][p] = addresses[d][q]
        BY <1>16, <2>2, <3>2
      <4> QED BY <1>1, <4>1 DEF AddressesOK
    <3> QED BY <3>1, <3>2
  <2> QED BY <2>1, <2>2 DEF AddressesOK
<1>18. PcsOK(more, other)
  <2>1. ASSUME NEW i \in DOMAIN other
        PROVE  /\ other[i].pc \in DOMAIN more
               /\ \E p \in DOMAIN more[other[i].pc] : more[other[i].pc][p] = i
    <3>1. CASE i = new
      BY <1>3, <1>4, <1>6, <1>6a, <1>15, <3>1
    <3>2. CASE i \in DOMAIN heap
      <4> DEFINE q == heap[i].pc
      <4>1. q \in DOMAIN pcs /\ other[i].pc = q
        BY <1>1, <1>4, <3>2 DEF PcsOK
      <4>2. PICK p \in DOMAIN pcs[q] : pcs[q][p] = i
        BY <1>1, <3>2 DEF PcsOK
      <4> HIDE DEF q
      <4>3. q \in DOMAIN more /\ p \in DOMAIN more[q] /\ more[q][p] = i
        BY <1>6, <1>6a, <1>14, <4>1, <4>2
      <4> QED BY <4>1, <4>3
    <3> QED BY <1>4, <3>1, <3>2
  <2>2. ASSUME NEW q \in DOMAIN more, NEW p \in DOMAIN more[q]
        PROVE  other[more[q][p]].pc = q
    <3>1. CASE q # pc
      BY <1>1, <1>4, <1>6, <1>6a, <1>10, <3>1 DEF PcsOK
    <3>2. CASE q = pc /\ p = w
      BY <1>3, <1>4, <1>6, <1>6a, <3>2
    <3>3. CASE q = pc /\ p \in 1 .. w - 1
      BY <1>1, <1>4, <1>6, <1>6a, <1>10, <3>3 DEF PcsOK
    <3> QED BY <1>6, <1>6a, <1>12, <3>1, <3>2, <3>3
  <2> QED BY <2>1, <2>2 DEF PcsOK
<1>19. DOMAIN longer \subseteq Addresses /\ DOMAIN more \subseteq RecordPcs
  BY <1>1, <1>5, <1>5a, <1>6, <1>6a
<1>20. DataOK(other, longer, more, new)
  BY <1>5, <1>5a, <1>6, <1>6a, <1>7, <1>8, <1>17, <1>18, <1>19 DEF DataOK
<1>21. OpenAt(other, longer[a])
  <2>1. \A p \in 1 .. m - 1 : other[longer[a][p]].done /\ p < m
    BY <1>4, <1>5, <1>5a, <1>9 DEF ClosedAt
  <2>2. ~other[longer[a][m]].done /\ ~(m < m)
    BY <1>3, <1>4, <1>5, <1>5a
  <2>3. \A p \in DOMAIN longer[a] : other[longer[a][p]].done <=> p < m
    BY <1>5, <1>5a, <1>11, <2>1, <2>2
  <2> QED BY <1>5, <1>5a, <2>3 DEF OpenAt, m
<1>22. ASSUME NEW b \in DOMAIN addresses \ {a}, OpenAt(heap, addresses[b])
       PROVE  OpenAt(other, longer[b])
  BY <1>4, <1>5, <1>5a, <1>9, <1>22 DEF OpenAt
<1> QED BY <1>5, <1>5a, <1>20, <1>21, <1>22 DEF new, other, longer, more

-----------------------------------------------------------------------------
(***************************************************************************)
(* The invariant, step by step.                                            *)
(***************************************************************************)

LEMMA LeastOfNat ==
  ASSUME NEW S, S \subseteq Nat, S # {}
  PROVE  Min(S) \in S
<1> DEFINE R == OpToRel(<, Nat)
<1>1. IsWellFoundedOn(R, Nat)
  BY NatLessThanWellFounded
<1>2. PICK x \in S : \A y \in S : ~(<<y, x>> \in R)
  <2> HIDE DEF R
  <2> QED BY <1>1, WFMin
<1>3. ASSUME NEW y \in S
      PROVE  x <= y
  <2>1. ~(y < x)
    BY <1>2 DEF OpToRel
  <2> QED BY <2>1
<1> QED BY <1>3 DEF Min

LEMMA InitChains == Init => ChainsInv
<1> SUFFICES ASSUME Init PROVE ChainsInv
  OBVIOUS
<1>1. DOMAIN chain = {} /\ DOMAIN addressChains = {} /\ DOMAIN pcChains = {}
  BY DEF Init
<1>2. DataOK(chain, addressChains, pcChains, cycle)
  BY <1>1 DEF DataOK, HeapOK, ListsOK, AddressesOK, PcsOK, Distinct
<1>3. InUse
  BY <1>1 DEF InUse
<1> QED BY <1>1, <1>2, <1>3, BoundsAssumption DEF Init, ChainsInv

LEMMA WriteChains ==
  ASSUME ChainsInv, NEW pc \in StorePcs, NEW a \in Addresses, Write(pc, a)
  PROVE  ChainsInv'
<1>1. /\ phase = "tracking" /\ cycle \in 0 .. MaxStores /\ cycle < MaxStores /\ pc \in RecordPcs
      /\ cycle' = cycle + 1 /\ phase' = phase /\ toAnalyze' = toAnalyze
      /\ toAnalyze \subseteq DOMAIN addressChains
      /\ DataOK(chain, addressChains, pcChains, cycle)
      /\ \A b \in DOMAIN addressChains : OpenAt(chain, addressChains[b])
  BY DEF Write, ChainsInv, InUse
<1>2. PICK after \in IF a \in DOMAIN addressChains
                     THEN Ended(a)
                     ELSE {[chain |-> chain, addresses |-> addressChains, pcs |-> pcChains]} :
          /\ chain' = [i \in DOMAIN after.chain \cup {cycle'} |->
                          IF i = cycle' THEN NewChain(pc) ELSE after.chain[i]]
          /\ addressChains' = Pushed(after.addresses, a, cycle')
          /\ pcChains' = Pushed(after.pcs, pc, cycle')
  BY DEF Write
<1>3. /\ DataOK(after.chain, after.addresses, after.pcs, cycle)
      /\ DOMAIN after.addresses = DOMAIN addressChains
      /\ a \in DOMAIN addressChains => ClosedAt(after.chain, after.addresses[a])
      /\ \A b \in DOMAIN addressChains \ {a} : OpenAt(after.chain, after.addresses[b])
  <2>1. CASE a \in DOMAIN addressChains
    <3>1. after \in Ended(a)
      BY <1>2, <2>1
    <3> QED BY <1>1, <2>1, <3>1, EndedOK
  <2>2. CASE a \notin DOMAIN addressChains
    <3>1. after = [chain |-> chain, addresses |-> addressChains, pcs |-> pcChains]
      BY <1>2, <2>2
    <3> QED BY <1>1, <2>2, <3>1
  <2> QED BY <2>1, <2>2
<1>4. /\ DataOK(chain', addressChains', pcChains', cycle')
      /\ DOMAIN addressChains' = DOMAIN addressChains \cup {a}
      /\ OpenAt(chain', addressChains'[a])
      /\ \A b \in DOMAIN addressChains \ {a} : OpenAt(chain', addressChains'[b])
  <2>1. cycle \in Nat
    BY <1>1
  <2>2. /\ chain' = Started(after.chain, pc, cycle + 1)
        /\ addressChains' = Pushed(after.addresses, a, cycle + 1)
        /\ pcChains' = Pushed(after.pcs, pc, cycle + 1)
    BY <1>1, <1>2 DEF Started
  <2> QED BY <1>1, <1>3, <2>1, <2>2, PushedOK
<1>5. InUse'
  BY <1>1, <1>4 DEF InUse
<1>6. cycle' \in 0 .. MaxStores
  BY <1>1, BoundsAssumption
<1> QED BY <1>1, <1>4, <1>5, <1>6 DEF ChainsInv

LEMMA ReadChains ==
  ASSUME ChainsInv, NEW pc \in LoadPcs, NEW a \in Addresses, Read(pc, a)
  PROVE  ChainsInv'
<1> DEFINE last == Last(addressChains[a])
           c == [chain[last] EXCEPT !.uses = Append(@, Tag(pc))]
<1>1. /\ phase = "tracking" /\ phase' = phase /\ cycle' = cycle /\ toAnalyze' = toAnalyze
      /\ addressChains' = addressChains /\ pcChains' = pcChains /\ a \in DOMAIN addressChains
      /\ ~chain[last].done /\ chain' = [chain EXCEPT ![last].uses = Append(@, Tag(pc))]
  BY DEF Read
<1>2. /\ DataOK(chain, addressChains, pcChains, cycle)
      /\ \A b \in DOMAIN addressChains : OpenAt(chain, addressChains[b])
  BY <1>1 DEF ChainsInv, InUse
<1>3. \A b \in DOMAIN addressChains : \A p \in DOMAIN addressChains[b] :
         addressChains[b][p] \in DOMAIN chain
  BY <1>2, ListedOnHeap DEF DataOK
<1>4. last \in DOMAIN chain
  <2>1. /\ addressChains[a] \in Seq(DOMAIN chain) /\ Len(addressChains[a]) \in Nat
        /\ DOMAIN addressChains[a] = 1 .. Len(addressChains[a]) /\ addressChains[a] # <<>>
    BY <1>1, <1>2, ListedOnHeap DEF DataOK, OpenAt
  <2>2. Len(addressChains[a]) \in DOMAIN addressChains[a]
    BY <2>1, EmptySeq
  <2> QED BY <1>1, <1>3, <2>2 DEF Last
<1>5. \A i \in DOMAIN chain : chain[i] \in Chain
  BY <1>2 DEF DataOK, HeapOK
<1> HIDE DEF last
<1>6. c \in Chain /\ c.pc = chain[last].pc /\ c.done = chain[last].done
  <2>1. Tag(pc) \in 0 .. TagSpace - 1
    BY BoundsAssumption DEF Tag
  <2>2. Append(chain[last].uses, Tag(pc)) \in Seq(0 .. TagSpace - 1)
    BY <1>4, <1>5, <2>1, ChainFields, AppendProperties
  <2>3. ASSUME NEW d \in Chain, NEW q \in Seq(0 .. TagSpace - 1)
        PROVE  LET e == [d EXCEPT !.uses = q] IN e \in Chain /\ e.pc = d.pc /\ e.done = d.done
    BY DEF Chain
  <2>4. c = [chain[last] EXCEPT !.uses = Append(chain[last].uses, Tag(pc))]
    OBVIOUS
  <2> QED BY <1>4, <1>5, <2>2, <2>3, <2>4
<1>7. /\ DOMAIN chain' = DOMAIN chain /\ chain'[last] = c
      /\ \A i \in DOMAIN chain \ {last} : chain'[i] = chain[i]
  BY <1>1, <1>4
<1> HIDE DEF c
<1>8. \A i \in DOMAIN chain : /\ chain'[i] \in Chain /\ chain'[i].pc = chain[i].pc
                              /\ chain'[i].done = chain[i].done
  BY <1>5, <1>6, <1>7
<1>9. Distinct(chain')
  <2>1. \A i \in DOMAIN chain : chain'[i].done => i # last /\ chain'[i] = chain[i]
    BY <1>1, <1>7, <1>8
  <2> QED BY <1>2, <1>7, <2>1 DEF Distinct, DataOK
<1>10. DataOK(chain', addressChains, pcChains, cycle)
  BY <1>2, <1>7, <1>8, <1>9, SameShape
<1>11. \A b \in DOMAIN addressChains : OpenAt(chain', addressChains[b])
  BY <1>2, <1>3, <1>8 DEF OpenAt
<1>12. InUse'
  BY <1>1, <1>11 DEF InUse
<1> QED BY <1>1, <1>10, <1>12 DEF ChainsInv

LEMMA AnalyzeChains ==
  ASSUME ChainsInv, AnalyzeAddress
  PROVE  ChainsInv'
<1> DEFINE a == Min(toAnalyze)
<1>1. /\ phase = "analyzing" /\ phase' = phase /\ cycle' = cycle /\ toAnalyze # {}
      /\ toAnalyze' = toAnalyze \ {a} /\ cycle \in 0 .. MaxStores
      /\ toAnalyze \subseteq DOMAIN addressChains
      /\ DataOK(chain, addressChains, pcChains, cycle) /\ InUse
  BY DEF AnalyzeAddress, ChainsInv
<1>2. PICK after \in Ended(a) :
          /\ chain' = after.chain /\ addressChains' = after.addresses /\ pcChains' = after.pcs
  BY DEF AnalyzeAddress
<1>3. a \in toAnalyze
  <2>1. toAnalyze \subseteq Nat
    BY <1>1, BoundsAssumption DEF DataOK
  <2> QED BY <1>1, <2>1, LeastOfNat
<1> HIDE DEF a
<1>4. a \in DOMAIN addressChains /\ OpenAt(chain, addressChains[a])
  BY <1>1, <1>3 DEF InUse
<1>5. /\ DataOK(chain', addressChains', pcChains', cycle)
      /\ DOMAIN addressChains' = DOMAIN addressChains
      /\ ClosedAt(chain', addressChains'[a])
      /\ \A b \in DOMAIN addressChains \ {a} :
            /\ OpenAt(chain, addressChains[b]) => OpenAt(chain', addressChains'[b])
            /\ ClosedAt(chain, addressChains[b]) => ClosedAt(chain', addressChains'[b])
  BY <1>1, <1>2, <1>4, EndedOK
<1>6. InUse'
  <2> SUFFICES ASSUME NEW b \in DOMAIN addressChains
               PROVE  IF b \in toAnalyze \ {a} THEN OpenAt(chain', addressChains'[b])
                      ELSE ClosedAt(chain', addressChains'[b])
    BY <1>1, <1>5 DEF InUse
  <2>1. CASE b = a
    BY <1>5, <2>1
  <2>2. CASE b # a
    BY <1>1, <1>5, <2>2 DEF InUse
  <2> QED BY <2>1, <2>2
<1> QED BY <1>1, <1>5, <1>6 DEF ChainsInv

LEMMA NextChains == ChainsInv /\ [Next]_vars => ChainsInv'
<1> SUFFICES ASSUME ChainsInv, [Next]_vars PROVE ChainsInv'
  OBVIOUS
<1>1. CASE \E a \in Addresses, pc \in StorePcs : Write(pc, a)
  BY <1>1, WriteChains
<1>2. CASE \E a \in Addresses, pc \in LoadPcs : Read(pc, a)
  BY <1>2, ReadChains
<1>3. CASE StartAnalysis
  BY <1>3 DEF StartAnalysis, ChainsInv, InUse
<1>4. CASE AnalyzeAddress
  BY <1>4, AnalyzeChains
<1>5. CASE Report
  BY <1>5 DEF Report, ChainsInv, InUse
<1>6. CASE UNCHANGED vars
  BY <1>6 DEF vars, ChainsInv, InUse
<1> QED BY <1>1, <1>2, <1>3, <1>4, <1>5, <1>6 DEF Next

-----------------------------------------------------------------------------
(***************************************************************************)
(* What the invariant says.                                                *)
(***************************************************************************)

LEMMA ChainsInvType == ChainsInv => TypeOK
BY DEF ChainsInv, DataOK, HeapOK, ListsOK, TypeOK

\* A chain is listed once, in the place its list is entered at.
LEMMA ListedOnce ==
  ASSUME NEW heap, NEW lists, NEW n \in 0 .. MaxStores, HeapOK(heap, n), ListsOK(lists, heap),
         NEW k \in DOMAIN lists, NEW p \in DOMAIN lists[k], NEW i, i = lists[k][p],
         \A b \in DOMAIN lists : \A q \in DOMAIN lists[b] : lists[b][q] = i => b = k
  PROVE  p \in 1 .. MaxStores /\ Listed(lists, i) = {<<k, p>>}
<1>1. /\ Increasing(lists[k]) /\ DOMAIN lists[k] = 1 .. Len(lists[k]) /\ Len(lists[k]) \in Nat
      /\ \A q \in DOMAIN lists[k] : lists[k][q] \in 1 .. n
  BY ListedOnHeap DEF HeapOK
<1>2. p \in 1 .. MaxStores
  <2>1. p \in Nat /\ 1 <= p /\ p <= i /\ i \in 1 .. n
    BY <1>1 DEF Increasing
  <2> QED BY <2>1, BoundsAssumption
<1>3. ASSUME NEW q \in DOMAIN lists[k], lists[k][q] = i
      PROVE  q = p
  <2>1. ~(q < p) /\ ~(p < q)
    BY <1>1, <1>3 DEF Increasing
  <2> QED BY <1>1, <2>1
<1> QED BY <1>2, <1>3 DEF Listed

LEMMA ChainsInvIndexes == ChainsInv => IndexesAgree
<1> SUFFICES ASSUME ChainsInv PROVE IndexesAgree
  OBVIOUS
<1>1. /\ HeapOK(chain, cycle) /\ cycle \in 0 .. MaxStores
      /\ ListsOK(addressChains, chain) /\ AddressesOK(addressChains, chain)
      /\ ListsOK(pcChains, chain) /\ PcsOK(pcChains, chain)
  BY DEF ChainsInv, DataOK
<1>2. ASSUME NEW i \in DOMAIN chain
      PROVE  Cardinality(Listed(addressChains, i)) = 1
  <2>1. PICK a \in DOMAIN addressChains : \E p \in DOMAIN addressChains[a] : addressChains[a][p] = i
    BY <1>1 DEF AddressesOK
  <2>2. PICK p \in DOMAIN addressChains[a] : addressChains[a][p] = i
    BY <2>1
  <2>3. \A b \in DOMAIN addressChains : \A q \in DOMAIN addressChains[b] :
           addressChains[b][q] = i => b = a
    BY <1>1, <2>2 DEF AddressesOK
  <2>4. Listed(addressChains, i) = {<<a, p>>}
    BY <1>1, <2>2, <2>3, ListedOnce
  <2> QED BY <2>4, FS_Singleton
<1>3. ASSUME NEW i \in DOMAIN chain
      PROVE  \E p \in 1 .. MaxStores : Listed(pcChains, i) = {<<chain[i].pc, p>>}
  <2> DEFINE pc == chain[i].pc
  <2>1. pc \in DOMAIN pcChains /\ \E p \in DOMAIN pcChains[pc] : pcChains[pc][p] = i
    BY <1>1 DEF PcsOK
  <2>2. PICK p \in DOMAIN pcChains[pc] : pcChains[pc][p] = i
    BY <2>1
  <2>3. \A b \in DOMAIN pcChains : \A q \in DOMAIN pcChains[b] : pcChains[b][q] = i => b = pc
    BY <1>1 DEF PcsOK
  <2>4. p \in 1 .. MaxStores /\ Listed(pcChains, i) = {<<pc, p>>}
    <3> HIDE DEF pc
    <3> QED BY <1>1, <2>1, <2>2, <2>3, ListedOnce
  <2> QED BY <2>4
<1>4. /\ \A a \in DOMAIN addressChains : Range(addressChains[a]) \subseteq DOMAIN chain
      /\ \A pc \in DOMAIN pcChains : Range(pcChains[pc]) \subseteq DOMAIN chain
  BY <1>1, ListedOnHeap DEF Range
<1> QED BY <1>2, <1>3, <1>4 DEF IndexesAgree

LEMMA ChainsInvUse == ChainsInv => OneChainInUse /\ PilotsDistinct
<1> SUFFICES ASSUME ChainsInv PROVE OneChainInUse /\ PilotsDistinct
  OBVIOUS
<1>1. DataOK(chain, addressChains, pcChains, cycle) /\ InUse
  BY DEF ChainsInv
<1>2. OneChainInUse
  BY <1>1 DEF OneChainInUse, InUse, OpenAt
<1>3. ASSUME phase = "reported", NEW i \in DOMAIN chain
      PROVE  chain[i].done
  <2>1. \A a \in DOMAIN addressChains : ClosedAt(chain, addressChains[a])
    BY <1>1, <1>3 DEF ChainsInv, InUse
  <2> QED BY <1>1, <2>1 DEF DataOK, AddressesOK, ClosedAt
<1>4. Distinct(chain)
  BY <1>1 DEF DataOK
<1> QED BY <1>2, <1>3, <1>4 DEF PilotsDistinct, Distinct

\* Whatever the program stores and loads, the lists of the addresses and those of
\* the pcs agree with the heap of chains while chains end, are merged and freed;
\* an address holds one chain in use, and the pilots that are reported are of
\* different classes (addUse, set_def_done, removeFromPcChains, analyzeChains).
THEOREM ChainsStayConsistent == Spec => []ChainsConsistent
<1>1. ChainsInv => ChainsConsistent
  BY ChainsInvType, ChainsInvIndexes, ChainsInvUse DEF ChainsConsistent
<1> QED BY InitChains, NextChains, <1>1, PTL DEF Spec

-----------------------------------------------------------------------------
(***************************************************************************)
(* The stores the chains stand for.                                        *)
(***************************************************************************)

\* The samples of a class: no cycle twice, none of a chain that is on the heap, as
\* many as the class has stores or as a chain remembers.  A chain in use stands
\* for its own store only.
Sampled(heap, n) ==
    /\ \A i \in DOMAIN heap :
          /\ ~heap[i].done => heap[i].population = 0 /\ heap[i].equalized = <<>>
          /\ Len(heap[i].equalized) =
                IF heap[i].population < ClassSize THEN heap[i].population ELSE ClassSize
    /\ \A i \in DOMAIN heap : \A p \in DOMAIN heap[i].equalized :
          heap[i].equalized[p] \in (1 .. n) \ DOMAIN heap
    /\ \A i, j \in DOMAIN heap :
          \A p \in DOMAIN heap[i].equalized, q \in DOMAIN heap[j].equalized :
              heap[i].equalized[p] = heap[j].equalized[q] => i = j /\ p = q

\* The chains and their populations add up to n stores.
AddsUp(heap, n) ==
    /\ IsFiniteSet(Members(heap, DOMAIN heap))
    /\ Cardinality(Members(heap, DOMAIN heap)) = n

\* What a class remembers of itself and of the store that joins it.
LEMMA GrownSamples ==
  ASSUME NEW d \in Chain, NEW i \in Cycle, NEW c \in AddCycle(d, i),
         Len(d.equalized) = IF d.population < ClassSize THEN d.population ELSE ClassSize,
         \A p, q \in DOMAIN d.equalized : d.equalized[p] = d.equalized[q] => p = q,
         \A p \in DOMAIN d.equalized : d.equalized[p] # i
  PROVE  /\ c.population = d.population + 1
         /\ Len(c.equalized) = IF c.population < ClassSize THEN c.population ELSE ClassSize
         /\ \A p \in DOMAIN c.equalized :
               c.equalized[p] = i \/ \E q \in DOMAIN d.equalized : c.equalized[p] = d.equalized[q]
         /\ \A p, q \in DOMAIN c.equalized : c.equalized[p] = c.equalized[q] => p = q
<1> DEFINE grown == [d EXCEPT !.population = @ + 1]
           longer == Append(d.equalized, i)
           last == IF ClassSize = 1 THEN 1 ELSE ClassSize - 1
           m == Len(d.equalized)
<1>1. /\ d.population \in Nat /\ d.equalized \in Seq(Cycle) /\ m \in Nat
      /\ DOMAIN d.equalized = 1 .. m
  BY ChainFields, LenProperties
<1>2. grown \in Chain /\ grown.population = d.population + 1 /\ grown.equalized = d.equalized
  BY <1>1 DEF Chain
<1>3. /\ longer \in Seq(Cycle) /\ Len(longer) = m + 1 /\ longer[m + 1] = i
      /\ \A p \in 1 .. m : longer[p] = d.equalized[p]
  BY <1>1, AppendProperties
<1>4. DOMAIN longer = 1 .. m + 1
  BY <1>3, LenProperties
<1>5. \A p \in 1 .. m + 1 : p \in 1 .. m \/ p = m + 1
  BY <1>1
<1>6. /\ \A p \in DOMAIN longer :
            longer[p] = i \/ \E q \in DOMAIN d.equalized : longer[p] = d.equalized[q]
      /\ \A p, q \in DOMAIN longer : longer[p] = longer[q] => p = q
  <2> HIDE DEF longer, m
  <2> QED BY <1>1, <1>3, <1>4, <1>5
<1>7. ASSUME NEW s, c = [grown EXCEPT !.equalized = s]
      PROVE  c.population = d.population + 1 /\ c.equalized = s
  <2> HIDE DEF grown
  <2> QED BY <1>2, <1>7 DEF Chain
<1> HIDE DEF longer
<1>8. CASE Len(d.equalized) < ClassSize
  <2>1. c = [grown EXCEPT !.equalized = longer]
    BY <1>8 DEF AddCycle, longer
  <2>2. c.population = d.population + 1 /\ c.equalized = longer
    <3> HIDE DEF grown
    <3> QED BY <1>7, <2>1
  <2>3. Len(c.equalized) = IF c.population < ClassSize THEN c.population ELSE ClassSize
    BY <1>1, <1>3, <1>8, <2>2, BoundsAssumption
  <2> QED BY <1>6, <2>2, <2>3
<1>9. CASE ~(Len(d.equalized) < ClassSize)
  <2>1. \/ c = grown
        \/ \E k \in 1 .. last : c = [grown EXCEPT !.equalized = RemoveAt(longer, k)]
    BY <1>9 DEF AddCycle, longer
  <2> HIDE DEF grown, last
  <2>2. m = ClassSize /\ ~(d.population + 1 < ClassSize)
    BY <1>1, <1>9, BoundsAssumption
  <2>3. CASE c = grown
    BY <1>1, <1>2, <2>2, <2>3
  <2>4. ASSUME NEW k \in 1 .. last, c = [grown EXCEPT !.equalized = RemoveAt(longer, k)]
        PROVE  /\ c.population = d.population + 1
               /\ Len(c.equalized) = IF c.population < ClassSize THEN c.population ELSE ClassSize
               /\ \A p \in DOMAIN c.equalized :
                     c.equalized[p] = i \/ \E q \in DOMAIN d.equalized : c.equalized[p] = d.equalized[q]
               /\ \A p, q \in DOMAIN c.equalized : c.equalized[p] = c.equalized[q] => p = q
    <3>1. c.population = d.population + 1 /\ c.equalized = RemoveAt(longer, k)
      BY <1>7, <2>4
    <3>2. k \in 1 .. m + 1
      BY <1>1, <2>2, BoundsAssumption DEF last
    <3> DEFINE short == RemoveAt(longer, k)
               from(p) == IF p < k THEN p ELSE p + 1
    <3>3. /\ Len(short) = m /\ DOMAIN short = 1 .. m
          /\ \A p \in 1 .. m : short[p] = longer[from(p)]
      <4>1. /\ Len(short) = (m + 1) - 1 /\ DOMAIN short = 1 .. (m + 1) - 1
            /\ \A p \in 1 .. (m + 1) - 1 :
                  short[p] = IF p < k THEN longer[p] ELSE longer[p + 1]
        <5> HIDE DEF m, short
        <5>1. k \in DOMAIN longer
          BY <1>4, <3>2
        <5>2. /\ Len(short) = Len(longer) - 1 /\ DOMAIN short = 1 .. Len(longer) - 1
              /\ \A p \in 1 .. Len(longer) - 1 :
                    short[p] = IF p < k THEN longer[p] ELSE longer[p + 1]
          BY <1>3, <5>1, RemovedList DEF short
        <5> QED BY <1>3, <5>2
      <4>2. (m + 1) - 1 = m
        BY <1>1
      <4> HIDE DEF m, short
      <4> QED BY <4>1, <4>2
    <3> HIDE DEF short
    <3>4. /\ \A p \in 1 .. m : from(p) \in 1 .. m + 1
          /\ \A p, q \in 1 .. m : from(p) = from(q) => p = q
      BY <1>1, <3>2
    <3> HIDE DEF from, m
    <3>5. /\ \A p \in DOMAIN short :
                short[p] = i \/ \E q \in DOMAIN d.equalized : short[p] = d.equalized[q]
          /\ \A p, q \in DOMAIN short : short[p] = short[q] => p = q
      BY <1>4, <1>6, <3>3, <3>4
    <3>6. Len(c.equalized) = IF c.population < ClassSize THEN c.population ELSE ClassSize
      BY <1>1, <2>2, <3>1, <3>3 DEF short
    <3> QED BY <3>1, <3>5, <3>6 DEF short
  <2> QED BY <2>1, <2>3, <2>4
<1> QED BY <1>8, <1>9

\* When a chain ends, the samples stay those of chains that left the heap.
LEMMA EndsSampled ==
  ASSUME NEW n \in 0 .. MaxStores, NEW heap, HeapOK(heap, n), Sampled(heap, n),
         NEW other, NEW i, Ends(heap, other, i)
  PROVE  Sampled(other, n)
<1>1. /\ DOMAIN heap \subseteq 1 .. n /\ i \in DOMAIN heap /\ ~heap[i].done
      /\ \A j \in DOMAIN heap : heap[j] \in Chain
      /\ i \in Cycle
  BY BoundsAssumption DEF HeapOK, Ends, Cycle
<1>2. CASE EndsAlone(heap, other, i)
  <2>1. /\ DOMAIN other = DOMAIN heap /\ other[i].done
        /\ \A j \in DOMAIN heap : /\ other[j].population = heap[j].population
                                  /\ other[j].equalized = heap[j].equalized
                                  /\ ~other[j].done => ~heap[j].done
    <3>1. ASSUME NEW d \in Chain, NEW e, e = [d EXCEPT !.done = TRUE]
          PROVE  e.done /\ e.population = d.population /\ e.equalized = d.equalized
      BY <3>1 DEF Chain
    <3> QED BY <1>1, <1>2, <3>1 DEF EndsAlone
  <2> QED BY <2>1 DEF Sampled
<1>3. ASSUME NEW twin \in DOMAIN heap \ {i}, EndsIn(heap, other, i, twin)
      PROVE  Sampled(other, n)
  <2> DEFINE d == heap[twin]
             c == other[twin]
  <2>1. /\ DOMAIN other = DOMAIN heap \ {i} /\ c \in AddCycle(d, i) /\ d.done /\ d \in Chain
        /\ \A j \in DOMAIN other \ {twin} : other[j] = heap[j]
        /\ twin \in DOMAIN other
    BY <1>1, <1>3 DEF EndsIn
  <2>2. c.done = d.done
    BY <1>1, <2>1, GrownClass
  <2>3. heap[i].equalized = <<>>
    BY <1>1 DEF Sampled
  <2>4. /\ Len(d.equalized) = IF d.population < ClassSize THEN d.population ELSE ClassSize
        /\ \A p, q \in DOMAIN d.equalized : d.equalized[p] = d.equalized[q] => p = q
        /\ \A p \in DOMAIN d.equalized : d.equalized[p] # i
    BY <1>1 DEF Sampled
  <2>5. /\ Len(c.equalized) = IF c.population < ClassSize THEN c.population ELSE ClassSize
        /\ \A p \in DOMAIN c.equalized :
              c.equalized[p] = i \/ \E q \in DOMAIN d.equalized : c.equalized[p] = d.equalized[q]
        /\ \A p, q \in DOMAIN c.equalized : c.equalized[p] = c.equalized[q] => p = q
    <3> HIDE DEF c, d
    <3> QED BY <1>1, <2>1, <2>4, GrownSamples
  <2>6. \A j \in DOMAIN other :
           /\ ~other[j].done => other[j].population = 0 /\ other[j].equalized = <<>>
           /\ Len(other[j].equalized) =
                 IF other[j].population < ClassSize THEN other[j].population ELSE ClassSize
    <3> SUFFICES ASSUME NEW j \in DOMAIN other
                 PROVE  /\ ~other[j].done => other[j].population = 0 /\ other[j].equalized = <<>>
                        /\ Len(other[j].equalized) = IF other[j].population < ClassSize
                                                     THEN other[j].population ELSE ClassSize
      OBVIOUS
    <3>1. CASE j = twin
      BY <2>1, <2>2, <2>5, <3>1
    <3>2. CASE j # twin
      <4>1. other[j] = heap[j] /\ j \in DOMAIN heap
        BY <2>1, <3>2
      <4> QED BY <4>1 DEF Sampled
    <3> QED BY <3>1, <3>2
  <2>7. \A j \in DOMAIN other : \A p \in DOMAIN other[j].equalized :
           \/ other[j].equalized[p] = i /\ j = twin
           \/ \E q \in DOMAIN heap[j].equalized : other[j].equalized[p] = heap[j].equalized[q]
    <3> SUFFICES ASSUME NEW j \in DOMAIN other, NEW p \in DOMAIN other[j].equalized
                 PROVE  \/ other[j].equalized[p] = i /\ j = twin
                        \/ \E q \in DOMAIN heap[j].equalized :
                              other[j].equalized[p] = heap[j].equalized[q]
      OBVIOUS
    <3>1. CASE j = twin
      BY <2>5, <3>1
    <3>2. CASE j # twin
      BY <2>1, <3>2
    <3> QED BY <3>1, <3>2
  <2>8. \A j \in DOMAIN other : \A p \in DOMAIN other[j].equalized :
           other[j].equalized[p] \in (1 .. n) \ DOMAIN other
    <3> SUFFICES ASSUME NEW j \in DOMAIN other, NEW p \in DOMAIN other[j].equalized
                 PROVE  other[j].equalized[p] \in (1 .. n) \ DOMAIN other
      OBVIOUS
    <3>1. CASE other[j].equalized[p] = i
      BY <1>1, <2>1, <3>1
    <3>2. ASSUME NEW q \in DOMAIN heap[j].equalized, other[j].equalized[p] = heap[j].equalized[q]
          PROVE  other[j].equalized[p] \in (1 .. n) \ DOMAIN other
      <4>1. heap[j].equalized[q] \in (1 .. n) \ DOMAIN heap
        BY <2>1 DEF Sampled
      <4> QED BY <2>1, <3>2, <4>1
    <3> QED BY <2>7, <3>1, <3>2
  <2>9. ASSUME NEW j \in DOMAIN other, NEW k \in DOMAIN other,
               NEW p \in DOMAIN other[j].equalized, NEW q \in DOMAIN other[k].equalized,
               other[j].equalized[p] = other[k].equalized[q]
        PROVE  j = k /\ p = q
    <3>1. j = k
      <4>1. CASE other[j].equalized[p] = i /\ j = twin
        <5>1. ASSUME NEW r \in DOMAIN heap[k].equalized, i = heap[k].equalized[r]
              PROVE  FALSE
          BY <1>1, <2>1, <5>1 DEF Sampled
        <5> QED BY <2>7, <2>9, <4>1, <5>1
      <4>2. CASE other[k].equalized[q] = i /\ k = twin
        <5>1. ASSUME NEW r \in DOMAIN heap[j].equalized, i = heap[j].equalized[r]
              PROVE  FALSE
          BY <1>1, <2>1, <5>1 DEF Sampled
        <5> QED BY <2>7, <2>9, <4>2, <5>1
      <4>3. ASSUME NEW r \in DOMAIN heap[j].equalized, NEW s \in DOMAIN heap[k].equalized,
                   heap[j].equalized[r] = heap[k].equalized[s]
            PROVE  j = k
        BY <2>1, <4>3 DEF Sampled
      <4> QED BY <2>7, <2>9, <4>1, <4>2, <4>3
    <3>2. CASE j = twin
      BY <2>5, <2>9, <3>1, <3>2
    <3>3. CASE j # twin
      <4>1. other[j] = heap[j] /\ j \in DOMAIN heap
        BY <2>1, <3>3
      <4> QED BY <2>9, <3>1, <4>1 DEF Sampled
    <3> QED BY <3>1, <3>2, <3>3
  <2> QED BY <2>6, <2>8, <2>9 DEF Sampled
<1> QED BY <1>2, <1>3 DEF Ends

\* A chain that is not on the list of a class does not change what it stands for.
LEMMA SameMembers ==
  ASSUME NEW heap, NEW other, NEW chains,
         \A i \in chains : other[i].population = heap[i].population
  PROVE  Members(other, chains) = Members(heap, chains)
BY DEF Members

\* A chain more, or a store more in the class of one of the chains.
LEMMA MemberJoins ==
  ASSUME NEW heap, NEW chains, NEW i, i \notin chains, heap[i].population = 0
  PROVE  /\ Members(heap, chains \cup {i}) = Members(heap, chains) \cup {<<i, 0>>}
         /\ <<i, 0>> \notin Members(heap, chains)
<1>1. 0 .. heap[i].population = {0}
  OBVIOUS
<1> QED BY <1>1 DEF Members

LEMMA MemberGrows ==
  ASSUME NEW heap, NEW other, NEW chains, NEW twin \in chains,
         heap[twin].population \in Nat, other[twin].population = heap[twin].population + 1,
         \A i \in chains \ {twin} : other[i].population = heap[i].population
  PROVE  LET token == <<twin, heap[twin].population + 1>>
         IN  /\ Members(other, chains) = Members(heap, chains) \cup {token}
             /\ token \notin Members(heap, chains)
<1> DEFINE k == heap[twin].population
<1>1. 0 .. k + 1 = (0 .. k) \cup {k + 1} /\ k + 1 \notin 0 .. k
  OBVIOUS
<1>2. \A i \in chains : 0 .. other[i].population =
         IF i = twin THEN (0 .. k) \cup {k + 1} ELSE 0 .. heap[i].population
  BY <1>1
<1> HIDE DEF k
<1>3. \A t : t \in Members(other, chains) <=>
         t \in Members(heap, chains) \/ t = <<twin, k + 1>>
  <2>1. ASSUME NEW t, t \in Members(other, chains)
        PROVE  t \in Members(heap, chains) \/ t = <<twin, k + 1>>
    <3>1. PICK i \in chains : t \in {i} \X (0 .. other[i].population)
      BY <2>1 DEF Members
    <3>2. CASE i = twin
      <4>1. t \in {i} \X ((0 .. k) \cup {k + 1})
        BY <1>2, <3>1, <3>2
      <4>2. t \in {i} \X (0 .. heap[i].population) \/ t = <<twin, k + 1>>
        BY <3>2, <4>1 DEF k
      <4> QED BY <4>2 DEF Members
    <3>3. CASE i # twin
      BY <3>1, <3>3 DEF Members
    <3> QED BY <3>2, <3>3
  <2>2. ASSUME NEW t, t \in Members(heap, chains)
        PROVE  t \in Members(other, chains)
    <3>1. PICK i \in chains : t \in {i} \X (0 .. heap[i].population)
      BY <2>2 DEF Members
    <3>2. t \in {i} \X (0 .. other[i].population)
      BY <1>2, <3>1 DEF k
    <3> QED BY <3>2 DEF Members
  <2>3. <<twin, k + 1>> \in Members(other, chains)
    <3>1. <<twin, k + 1>> \in {twin} \X (0 .. other[twin].population)
      BY <1>2
    <3> QED BY <3>1 DEF Members
  <2> QED BY <2>1, <2>2, <2>3
<1>4. <<twin, k + 1>> \notin Members(heap, chains)
  <2> SUFFICES ASSUME <<twin, k + 1>> \in Members(heap, chains) PROVE FALSE
    OBVIOUS
  <2>1. PICK i \in chains : <<twin, k + 1>> \in {i} \X (0 .. heap[i].population)
    BY DEF Members
  <2>2. k + 1 \in 0 .. k
    BY <2>1 DEF k
  <2> QED BY <1>1, <2>2 DEF k
<1> QED BY <1>3, <1>4 DEF k

\* An ending chain leaves the sum as it was; a new one adds its store.
LEMMA EndsAddsUp ==
  ASSUME NEW n \in 0 .. MaxStores, NEW heap, HeapOK(heap, n), Sampled(heap, n), AddsUp(heap, n),
         NEW other, NEW i, Ends(heap, other, i)
  PROVE  AddsUp(other, n)
<1>1. /\ DOMAIN heap \subseteq 1 .. n /\ i \in DOMAIN heap /\ ~heap[i].done
      /\ \A j \in DOMAIN heap : heap[j] \in Chain
      /\ i \in Cycle /\ heap[i].population = 0
  BY BoundsAssumption DEF HeapOK, Ends, Cycle, Sampled
<1>2. CASE EndsAlone(heap, other, i)
  <2>1. /\ DOMAIN other = DOMAIN heap
        /\ \A j \in DOMAIN heap : other[j].population = heap[j].population
    <3>1. ASSUME NEW d \in Chain, NEW e, e = [d EXCEPT !.done = TRUE]
          PROVE  e.population = d.population
      BY <3>1 DEF Chain
    <3> QED BY <1>1, <1>2, <3>1 DEF EndsAlone
  <2> QED BY <2>1, SameMembers DEF AddsUp
<1>3. ASSUME NEW twin \in DOMAIN heap \ {i}, EndsIn(heap, other, i, twin)
      PROVE  AddsUp(other, n)
  <2> DEFINE rest == DOMAIN heap \ {i}
             token == <<twin, heap[twin].population + 1>>
  <2>1. /\ DOMAIN other = rest /\ other[twin] \in AddCycle(heap[twin], i)
        /\ \A j \in rest \ {twin} : other[j] = heap[j]
        /\ heap[twin] \in Chain /\ heap[twin].population \in Nat
    BY <1>1, <1>3, ChainFields DEF EndsIn
  <2>2. other[twin].population = heap[twin].population + 1
    <3>1. /\ Len(heap[twin].equalized) = IF heap[twin].population < ClassSize
                                         THEN heap[twin].population ELSE ClassSize
          /\ \A p, q \in DOMAIN heap[twin].equalized :
                heap[twin].equalized[p] = heap[twin].equalized[q] => p = q
          /\ \A p \in DOMAIN heap[twin].equalized : heap[twin].equalized[p] # i
      BY <1>1 DEF Sampled
    <3> QED BY <1>1, <2>1, <3>1, GrownSamples
  <2>3. /\ Members(other, rest) = Members(heap, rest) \cup {token}
        /\ token \notin Members(heap, rest)
    BY <2>1, <2>2, MemberGrows
  <2>4. /\ Members(heap, rest \cup {i}) = Members(heap, rest) \cup {<<i, 0>>}
        /\ <<i, 0>> \notin Members(heap, rest)
    BY <1>1, MemberJoins
  <2>5. rest \cup {i} = DOMAIN heap
    BY <1>1
  <2> HIDE DEF rest, token
  <2>6. IsFiniteSet(Members(heap, rest))
    BY <2>4, <2>5, FS_Subset DEF AddsUp
  <2>7. /\ IsFiniteSet(Members(heap, rest) \cup {token})
        /\ Cardinality(Members(heap, rest) \cup {token}) = Cardinality(Members(heap, rest)) + 1
    BY <2>3, <2>6, FS_AddElement
  <2>8. Cardinality(Members(heap, rest) \cup {<<i, 0>>}) = Cardinality(Members(heap, rest)) + 1
    BY <2>4, <2>6, FS_AddElement
  <2> QED BY <2>1, <2>3, <2>4, <2>5, <2>7, <2>8 DEF AddsUp
<1> QED BY <1>2, <1>3 DEF Ends

LEMMA StartedCounts ==
  ASSUME NEW n \in Nat, NEW heap, HeapOK(heap, n), Sampled(heap, n), AddsUp(heap, n), NEW pc
  PROVE  /\ Sampled(Started(heap, pc, n + 1), n + 1)
         /\ AddsUp(Started(heap, pc, n + 1), n + 1)
<1> DEFINE new == n + 1
           other == Started(heap, pc, new)
<1>1. DOMAIN heap \subseteq 1 .. n /\ new \notin DOMAIN heap
  BY DEF HeapOK
<1>2. /\ DOMAIN other = DOMAIN heap \cup {new} /\ other[new] = NewChain(pc)
      /\ \A i \in DOMAIN heap : other[i] = heap[i] /\ i # new
  BY <1>1 DEF Started
<1>3. /\ NewChain(pc).population = 0 /\ NewChain(pc).equalized = <<>>
      /\ Len(NewChain(pc).equalized) = 0 /\ DOMAIN NewChain(pc).equalized = {}
      /\ 0 < ClassSize
  BY EmptySeq, BoundsAssumption DEF NewChain
<1> HIDE DEF other
<1>4. \A i \in DOMAIN other : \A p \in DOMAIN other[i].equalized :
         i \in DOMAIN heap /\ p \in DOMAIN heap[i].equalized /\ other[i] = heap[i]
  BY <1>2, <1>3
<1>5. \A i \in DOMAIN other :
         /\ ~other[i].done => other[i].population = 0 /\ other[i].equalized = <<>>
         /\ Len(other[i].equalized) =
               IF other[i].population < ClassSize THEN other[i].population ELSE ClassSize
  <2> SUFFICES ASSUME NEW i \in DOMAIN other
               PROVE  /\ ~other[i].done => other[i].population = 0 /\ other[i].equalized = <<>>
                      /\ Len(other[i].equalized) = IF other[i].population < ClassSize
                                                   THEN other[i].population ELSE ClassSize
    OBVIOUS
  <2>1. CASE i = new
    BY <1>2, <1>3, <2>1
  <2>2. CASE i \in DOMAIN heap
    <3>1. other[i] = heap[i]
      BY <1>2, <2>2
    <3> QED BY <2>2, <3>1 DEF Sampled
  <2> QED BY <1>2, <2>1, <2>2
<1>6. \A i \in DOMAIN other : \A p \in DOMAIN other[i].equalized :
         other[i].equalized[p] \in (1 .. new) \ DOMAIN other
  <2> SUFFICES ASSUME NEW i \in DOMAIN other, NEW p \in DOMAIN other[i].equalized
               PROVE  other[i].equalized[p] \in (1 .. new) \ DOMAIN other
    OBVIOUS
  <2>1. heap[i].equalized[p] \in (1 .. n) \ DOMAIN heap /\ other[i] = heap[i]
    BY <1>4 DEF Sampled
  <2>2. heap[i].equalized[p] \in 1 .. new /\ heap[i].equalized[p] # new
    BY <2>1
  <2> HIDE DEF new
  <2> QED BY <1>2, <2>1, <2>2
<1>7. \A i, j \in DOMAIN other :
         \A p \in DOMAIN other[i].equalized, q \in DOMAIN other[j].equalized :
             other[i].equalized[p] = other[j].equalized[q] => i = j /\ p = q
  <2> SUFFICES ASSUME NEW i \in DOMAIN other, NEW j \in DOMAIN other,
                      NEW p \in DOMAIN other[i].equalized, NEW q \in DOMAIN other[j].equalized,
                      other[i].equalized[p] = other[j].equalized[q]
               PROVE  i = j /\ p = q
    OBVIOUS
  <2>1. /\ i \in DOMAIN heap /\ p \in DOMAIN heap[i].equalized /\ other[i] = heap[i]
        /\ j \in DOMAIN heap /\ q \in DOMAIN heap[j].equalized /\ other[j] = heap[j]
    BY <1>4
  <2>2. heap[i].equalized[p] = heap[j].equalized[q]
    BY <2>1
  <2> QED BY <2>1, <2>2 DEF Sampled
<1>8. Sampled(other, new)
  BY <1>5, <1>6, <1>7 DEF Sampled
<1>9. Members(other, DOMAIN heap) = Members(heap, DOMAIN heap)
  BY <1>2, SameMembers
<1>10. /\ Members(other, DOMAIN heap \cup {new}) = Members(other, DOMAIN heap) \cup {<<new, 0>>}
       /\ <<new, 0>> \notin Members(other, DOMAIN heap)
  BY <1>1, <1>2, <1>3, MemberJoins
<1>11. AddsUp(other, new)
  <2> DEFINE M == Members(heap, DOMAIN heap)
  <2>1. IsFiniteSet(M) /\ Cardinality(M) = n /\ <<new, 0>> \notin M
    BY <1>9, <1>10 DEF AddsUp
  <2> HIDE DEF M
  <2>2. IsFiniteSet(M \cup {<<new, 0>>}) /\ Cardinality(M \cup {<<new, 0>>}) = n + 1
    BY <2>1, FS_AddElement
  <2> QED BY <1>2, <1>9, <1>10, <2>2 DEF AddsUp, M
<1> QED BY <1>8, <1>11 DEF other

-----------------------------------------------------------------------------
(***************************************************************************)
(* The count, step by step.                                                *)
(***************************************************************************)

CountInv == ChainsInv /\ Sampled(chain, cycle) /\ AddsUp(chain, cycle)

LEMMA InitCount == Init => CountInv
<1> SUFFICES ASSUME Init PROVE CountInv
  OBVIOUS
<1>1. DOMAIN chain = {} /\ cycle = 0
  BY DEF Init
<1>2. Members(chain, DOMAIN chain) = {}
  BY <1>1 DEF Members
<1>3. AddsUp(chain, cycle)
  BY <1>1, <1>2, FS_EmptySet DEF AddsUp
<1>4. Sampled(chain, cycle)
  BY <1>1 DEF Sampled
<1> QED BY <1>3, <1>4, InitChains DEF CountInv

\* What Write does to the heap: the chain of the address ends, the new one starts.
LEMMA WriteShape ==
  ASSUME ChainsInv, NEW pc \in StorePcs, NEW a \in Addresses, Write(pc, a)
  PROVE  \E heap, addresses :
            /\ IF a \in DOMAIN addressChains THEN Ends(chain, heap, Last(addressChains[a]))
               ELSE heap = chain
            /\ HeapOK(heap, cycle)
            /\ DOMAIN addresses = DOMAIN addressChains
            /\ \A b \in DOMAIN addressChains \ {a} : addresses[b] = addressChains[b]
            /\ chain' = Started(heap, pc, cycle + 1)
            /\ addressChains' = Pushed(addresses, a, cycle + 1)
            /\ ListsOK(addresses, heap)
<1>1. /\ phase = "tracking" /\ cycle \in 0 .. MaxStores /\ cycle' = cycle + 1
      /\ DataOK(chain, addressChains, pcChains, cycle)
      /\ \A b \in DOMAIN addressChains : OpenAt(chain, addressChains[b])
  BY DEF Write, ChainsInv, InUse
<1>2. PICK after \in IF a \in DOMAIN addressChains
                     THEN Ended(a)
                     ELSE {[chain |-> chain, addresses |-> addressChains, pcs |-> pcChains]} :
          /\ chain' = [i \in DOMAIN after.chain \cup {cycle'} |->
                          IF i = cycle' THEN NewChain(pc) ELSE after.chain[i]]
          /\ addressChains' = Pushed(after.addresses, a, cycle')
          /\ pcChains' = Pushed(after.pcs, pc, cycle')
  BY DEF Write
<1>3. /\ chain' = Started(after.chain, pc, cycle + 1)
      /\ addressChains' = Pushed(after.addresses, a, cycle + 1)
  BY <1>1, <1>2 DEF Started
<1>4. CASE a \in DOMAIN addressChains
  <2>1. after \in Ended(a)
    BY <1>2, <1>4
  <2>2. /\ DataOK(after.chain, after.addresses, after.pcs, cycle)
        /\ DOMAIN after.addresses = DOMAIN addressChains
        /\ Ends(chain, after.chain, Last(addressChains[a]))
        /\ \A b \in DOMAIN addressChains \ {a} : after.addresses[b] = addressChains[b]
    BY <1>1, <1>4, <2>1, EndedOK
  <2>3. HeapOK(after.chain, cycle) /\ ListsOK(after.addresses, after.chain)
    BY <2>2 DEF DataOK
  <2> QED BY <1>3, <1>4, <2>2, <2>3
<1>5. CASE a \notin DOMAIN addressChains
  <2>1. after = [chain |-> chain, addresses |-> addressChains, pcs |-> pcChains]
    BY <1>2, <1>5
  <2>2. HeapOK(chain, cycle) /\ ListsOK(addressChains, chain)
    BY <1>1 DEF DataOK
  <2> QED BY <1>3, <1>5, <2>1, <2>2
<1> QED BY <1>4, <1>5

\* And AnalyzeAddress: the chain of an address ends.
LEMMA AnalyzeShape ==
  ASSUME ChainsInv, AnalyzeAddress
  PROVE  LET a == Min(toAnalyze)
         IN  /\ a \in DOMAIN addressChains /\ OpenAt(chain, addressChains[a])
             /\ Ends(chain, chain', Last(addressChains[a]))
             /\ DOMAIN addressChains' = DOMAIN addressChains
             /\ \A b \in DOMAIN addressChains \ {a} : addressChains'[b] = addressChains[b]
             /\ ClosedAt(chain', addressChains'[a])
<1> DEFINE a == Min(toAnalyze)
<1>1. /\ toAnalyze # {} /\ cycle \in 0 .. MaxStores
      /\ toAnalyze \subseteq DOMAIN addressChains
      /\ DataOK(chain, addressChains, pcChains, cycle) /\ InUse
  BY DEF AnalyzeAddress, ChainsInv
<1>2. PICK after \in Ended(a) :
          /\ chain' = after.chain /\ addressChains' = after.addresses /\ pcChains' = after.pcs
  BY DEF AnalyzeAddress
<1>3. a \in toAnalyze
  <2>1. toAnalyze \subseteq Nat
    BY <1>1, BoundsAssumption DEF DataOK
  <2> QED BY <1>1, <2>1, LeastOfNat
<1> HIDE DEF a
<1>4. a \in DOMAIN addressChains /\ OpenAt(chain, addressChains[a])
  BY <1>1, <1>3 DEF InUse
<1>5. /\ DOMAIN addressChains' = DOMAIN addressChains
      /\ Ends(chain, chain', Last(addressChains[a]))
      /\ ClosedAt(chain', addressChains'[a])
      /\ \A b \in DOMAIN addressChains \ {a} : addressChains'[b] = addressChains[b]
  BY <1>1, <1>2, <1>4, EndedOK
<1> QED BY <1>4, <1>5 DEF a

LEMMA WriteCount ==
  ASSUME CountInv, NEW pc \in StorePcs, NEW a \in Addresses, Write(pc, a)
  PROVE  CountInv'
<1>1. /\ ChainsInv /\ HeapOK(chain, cycle) /\ cycle \in 0 .. MaxStores /\ cycle' = cycle + 1
      /\ Sampled(chain, cycle) /\ AddsUp(chain, cycle) /\ cycle \in Nat
  BY BoundsAssumption DEF CountInv, ChainsInv, DataOK, Write
<1>2. PICK heap, addresses :
            /\ IF a \in DOMAIN addressChains THEN Ends(chain, heap, Last(addressChains[a]))
               ELSE heap = chain
            /\ HeapOK(heap, cycle)
            /\ chain' = Started(heap, pc, cycle + 1)
  BY <1>1, WriteShape
<1>3. Sampled(heap, cycle) /\ AddsUp(heap, cycle)
  BY <1>1, <1>2, EndsSampled, EndsAddsUp
<1>4. Sampled(chain', cycle') /\ AddsUp(chain', cycle')
  BY <1>1, <1>2, <1>3, StartedCounts
<1>5. ChainsInv'
  BY <1>1, WriteChains
<1> QED BY <1>4, <1>5 DEF CountInv

LEMMA ReadShape ==
  ASSUME ChainsInv, NEW pc \in LoadPcs, NEW a \in Addresses, Read(pc, a)
  PROVE  LET last == Last(addressChains[a])
         IN  /\ phase = "tracking" /\ a \in DOMAIN addressChains /\ last \in DOMAIN chain
             /\ last = addressChains[a][Len(addressChains[a])]
             /\ Len(addressChains[a]) \in DOMAIN addressChains[a]
             /\ ~chain[last].done /\ Tag(pc) \in 0 .. TagSpace - 1
             /\ DOMAIN chain' = DOMAIN chain
             /\ chain'[last] \in Chain /\ chain'[last].pc = chain[last].pc
             /\ chain'[last].uses = Append(chain[last].uses, Tag(pc))
             /\ chain'[last].done = chain[last].done
             /\ chain'[last].population = chain[last].population
             /\ chain'[last].equalized = chain[last].equalized
             /\ \A i \in DOMAIN chain \ {last} : chain'[i] = chain[i]
<1> DEFINE last == Last(addressChains[a])
           c == [chain[last] EXCEPT !.uses = Append(@, Tag(pc))]
<1>1. /\ phase = "tracking" /\ a \in DOMAIN addressChains
      /\ ~chain[last].done /\ chain' = [chain EXCEPT ![last].uses = Append(@, Tag(pc))]
  BY DEF Read
<1>2. /\ DataOK(chain, addressChains, pcChains, cycle)
      /\ OpenAt(chain, addressChains[a])
  BY <1>1 DEF ChainsInv, InUse
<1>3. /\ last \in DOMAIN chain /\ last = addressChains[a][Len(addressChains[a])]
      /\ Len(addressChains[a]) \in DOMAIN addressChains[a]
  <2>1. /\ addressChains[a] \in Seq(DOMAIN chain) /\ Len(addressChains[a]) \in Nat
        /\ DOMAIN addressChains[a] = 1 .. Len(addressChains[a]) /\ addressChains[a] # <<>>
        /\ \A p \in DOMAIN addressChains[a] : addressChains[a][p] \in DOMAIN chain
    BY <1>1, <1>2, ListedOnHeap DEF DataOK, OpenAt
  <2>2. Len(addressChains[a]) \in DOMAIN addressChains[a]
    BY <2>1, EmptySeq
  <2> QED BY <2>1, <2>2 DEF Last
<1>4. chain[last] \in Chain
  BY <1>2, <1>3 DEF DataOK, HeapOK
<1>5. Tag(pc) \in 0 .. TagSpace - 1
  BY BoundsAssumption DEF Tag
<1> HIDE DEF last
<1>6. /\ c \in Chain /\ c.pc = chain[last].pc /\ c.done = chain[last].done
      /\ c.uses = Append(chain[last].uses, Tag(pc))
      /\ c.population = chain[last].population /\ c.equalized = chain[last].equalized
  <2>1. Append(chain[last].uses, Tag(pc)) \in Seq(0 .. TagSpace - 1)
    BY <1>4, <1>5, ChainFields, AppendProperties
  <2>2. ASSUME NEW d \in Chain, NEW q \in Seq(0 .. TagSpace - 1)
        PROVE  LET e == [d EXCEPT !.uses = q]
               IN  /\ e \in Chain /\ e.pc = d.pc /\ e.done = d.done /\ e.uses = q
                   /\ e.population = d.population /\ e.equalized = d.equalized
    BY DEF Chain
  <2>3. c = [chain[last] EXCEPT !.uses = Append(chain[last].uses, Tag(pc))]
    OBVIOUS
  <2> QED BY <1>4, <2>1, <2>2, <2>3
<1>7. /\ DOMAIN chain' = DOMAIN chain /\ chain'[last] = c
      /\ \A i \in DOMAIN chain \ {last} : chain'[i] = chain[i]
  BY <1>1, <1>3
<1> HIDE DEF c
<1> QED BY <1>1, <1>3, <1>5, <1>6, <1>7 DEF last

LEMMA ReadCount ==
  ASSUME CountInv, NEW pc \in LoadPcs, NEW a \in Addresses, Read(pc, a)
  PROVE  CountInv'
<1>1. /\ ChainsInv /\ Sampled(chain, cycle) /\ AddsUp(chain, cycle) /\ cycle' = cycle
  BY DEF CountInv, Read
<1>2. /\ DOMAIN chain' = DOMAIN chain
      /\ \A i \in DOMAIN chain : /\ chain'[i].done = chain[i].done
                                 /\ chain'[i].population = chain[i].population
                                 /\ chain'[i].equalized = chain[i].equalized
  BY <1>1, ReadShape
<1>3. Sampled(chain', cycle)
  BY <1>1, <1>2 DEF Sampled
<1>4. AddsUp(chain', cycle)
  BY <1>1, <1>2, SameMembers DEF AddsUp
<1>5. ChainsInv'
  BY <1>1, ReadChains
<1> QED BY <1>1, <1>3, <1>4, <1>5 DEF CountInv

LEMMA NextCount == CountInv /\ [Next]_vars => CountInv'
<1> SUFFICES ASSUME CountInv, [Next]_vars PROVE CountInv'
  OBVIOUS
<1>1. ChainsInv /\ ChainsInv' /\ cycle \in 0 .. MaxStores /\ HeapOK(chain, cycle)
  BY NextChains DEF CountInv, ChainsInv, DataOK
<1>2. CASE \E a \in Addresses, pc \in StorePcs : Write(pc, a)
  BY <1>2, WriteCount
<1>3. CASE \E a \in Addresses, pc \in LoadPcs : Read(pc, a)
  BY <1>3, ReadCount
<1>4. CASE UNCHANGED <<cycle, chain>>
  BY <1>1, <1>4 DEF CountInv
<1>5. CASE AnalyzeAddress
  <2>1. \E i : Ends(chain, chain', i)
    BY <1>1, <1>5, AnalyzeShape
  <2>2. Sampled(chain', cycle) /\ AddsUp(chain', cycle) /\ cycle' = cycle
    BY <1>1, <1>5, <2>1, EndsSampled, EndsAddsUp DEF AnalyzeAddress, CountInv
  <2> QED BY <1>1, <2>2 DEF CountInv
<1> QED BY <1>2, <1>3, <1>4, <1>5 DEF Next, StartAnalysis, Report, vars

LEMMA CountInvStores == CountInv => EveryStoreOnce
<1> SUFFICES ASSUME CountInv PROVE EveryStoreOnce
  OBVIOUS
<1>1. Sampled(chain, cycle) /\ AddsUp(chain, cycle) /\ HeapOK(chain, cycle)
  BY DEF CountInv, ChainsInv, DataOK
<1>2. cycle = Cardinality(Members(chain, DOMAIN chain))
  BY <1>1 DEF AddsUp
<1>3. \A i, j \in DOMAIN chain :
          /\ i \notin Range(chain[j].equalized)
          /\ i # j => Range(chain[i].equalized) \cap Range(chain[j].equalized) = {}
  BY <1>1 DEF Sampled, Range
<1>4. ASSUME NEW i \in DOMAIN chain
      PROVE  /\ IsInjective(chain[i].equalized)
             /\ Len(chain[i].equalized) = Min({ClassSize, chain[i].population})
  <2>1. IsInjective(chain[i].equalized)
    BY <1>1 DEF Sampled, IsInjective
  <2>2. chain[i].population \in Nat /\ ClassSize \in Nat
    BY <1>1, ChainFields, BoundsAssumption DEF HeapOK
  <2>3. Len(chain[i].equalized) =
           IF chain[i].population < ClassSize THEN chain[i].population ELSE ClassSize
    BY <1>1 DEF Sampled
  <2>4. Min({ClassSize, chain[i].population}) =
           IF ClassSize <= chain[i].population THEN ClassSize ELSE chain[i].population
    BY <2>2, OfTwo
  <2>5. Len(chain[i].equalized) = Min({ClassSize, chain[i].population})
    BY <2>2, <2>3, <2>4
  <2> QED BY <2>1, <2>5
<1> QED BY <1>2, <1>3, <1>4 DEF EveryStoreOnce

\* Whatever the program stores, every recorded store is counted once when the pass
\* ends: the chains and their populations add up to the stores, the cycles a class
\* remembers are different, of stores whose chains were freed, and of no other
\* class, and a full class goes on counting (add_cycle, removeFromPcChains).
THEOREM StoresCountedOnce == Spec => []EveryStoreOnce
<1>1. CountInv => EveryStoreOnce
  BY CountInvStores
<1> QED BY InitCount, NextCount, <1>1, PTL DEF Spec

-----------------------------------------------------------------------------
(***************************************************************************)
(* The classification is implemented: the chains that have ended, counted  *)
(* with their populations, are the classes of the stores that have ended.  *)
(***************************************************************************)

EndedOf(heap) == {ClassOf(heap, i) : i \in {j \in DOMAIN heap : heap[j].done}}
Count(heap, c) == Cardinality(Members(heap, EndedIn(heap, c)))
Counted(heap) == [c \in EndedOf(heap) |-> Count(heap, c)]

\* Heaps with the same ended chains have the same counts.
LEMMA SameCounts ==
  ASSUME NEW heap, NEW other,
         {j \in DOMAIN other : other[j].done} = {j \in DOMAIN heap : heap[j].done},
         \A j \in {k \in DOMAIN heap : heap[k].done} :
            /\ other[j].pc = heap[j].pc /\ other[j].uses = heap[j].uses
            /\ other[j].population = heap[j].population
  PROVE  Counted(other) = Counted(heap)
<1> DEFINE D == {j \in DOMAIN heap : heap[j].done}
<1>1. \A j \in D : ClassOf(other, j) = ClassOf(heap, j)
  BY DEF ClassOf
<1>2. \A c : EndedIn(other, c) = EndedIn(heap, c) /\ EndedIn(heap, c) \subseteq D
  BY <1>1 DEF EndedIn
<1>3. \A c : Count(other, c) = Count(heap, c)
  <2> SUFFICES ASSUME NEW c PROVE Count(other, c) = Count(heap, c)
    OBVIOUS
  <2>1. Members(other, EndedIn(heap, c)) = Members(heap, EndedIn(heap, c))
    BY <1>2, SameMembers
  <2> QED BY <1>2, <2>1 DEF Count
<1>4. EndedOf(other) = EndedOf(heap)
  BY <1>1 DEF EndedOf
<1> QED BY <1>3, <1>4 DEF Counted

\* A class without ended chains stands for no store.
LEMMA NoneCounted ==
  ASSUME NEW heap, NEW c, c \notin EndedOf(heap)
  PROVE  EndedIn(heap, c) = {} /\ Count(heap, c) = 0
<1>1. EndedIn(heap, c) = {}
  BY DEF EndedOf, EndedIn
<1>2. Members(heap, {}) = {}
  BY DEF Members
<1> QED BY <1>1, <1>2, FS_EmptySet DEF Count

\* When chain i ends, its class stands for one store more, and no other changes.
LEMMA EndsCounts ==
  ASSUME NEW n \in 0 .. MaxStores, NEW heap, HeapOK(heap, n), Sampled(heap, n), AddsUp(heap, n),
         NEW other, NEW i, Ends(heap, other, i)
  PROVE  LET class == ClassOf(heap, i)
         IN  /\ EndedOf(other) = EndedOf(heap) \cup {class}
             /\ \A c : Count(other, c) = IF c = class THEN Count(heap, c) + 1 ELSE Count(heap, c)
<1> DEFINE class == ClassOf(heap, i)
<1>1. /\ i \in DOMAIN heap /\ ~heap[i].done /\ i \in Cycle /\ heap[i].population = 0
      /\ \A j \in DOMAIN heap : heap[j] \in Chain
  BY BoundsAssumption DEF HeapOK, Ends, Cycle, Sampled
<1>2. \A c : /\ EndedIn(heap, c) \subseteq DOMAIN heap \ {i}
             /\ IsFiniteSet(Members(heap, EndedIn(heap, c)))
  <2> SUFFICES ASSUME NEW c
               PROVE  /\ EndedIn(heap, c) \subseteq DOMAIN heap \ {i}
                      /\ IsFiniteSet(Members(heap, EndedIn(heap, c)))
    OBVIOUS
  <2>1. EndedIn(heap, c) \subseteq DOMAIN heap \ {i}
    BY <1>1 DEF EndedIn
  <2>2. Members(heap, EndedIn(heap, c)) \subseteq Members(heap, DOMAIN heap)
    BY <2>1 DEF Members
  <2> QED BY <2>1, <2>2, FS_Subset DEF AddsUp
<1>3. CASE EndsAlone(heap, other, i)
  <2>1. /\ DOMAIN other = DOMAIN heap /\ other[i].done /\ other[i].population = 0
        /\ ClassOf(other, i) = class
        /\ \A j \in DOMAIN heap \ {i} : other[j] = heap[j]
    <3>1. ASSUME NEW d \in Chain, NEW e, e = [d EXCEPT !.done = TRUE]
          PROVE  e.done /\ e.population = d.population /\ e.pc = d.pc /\ e.uses = d.uses
      BY <3>1 DEF Chain
    <3> QED BY <1>1, <1>3, <3>1 DEF EndsAlone, ClassOf
  <2>2. \A j \in DOMAIN heap \ {i} : ClassOf(other, j) = ClassOf(heap, j)
    BY <2>1 DEF ClassOf
  <2>3. EndedOf(other) = EndedOf(heap) \cup {class}
    BY <1>1, <2>1, <2>2 DEF EndedOf
  <2>4. \A c : EndedIn(other, c) = IF c = class THEN EndedIn(heap, c) \cup {i} ELSE EndedIn(heap, c)
    BY <1>1, <2>1, <2>2 DEF EndedIn
  <2> HIDE DEF class
  <2>5. ASSUME NEW c
        PROVE  Members(other, EndedIn(heap, c)) = Members(heap, EndedIn(heap, c))
    BY <1>2, <2>1, SameMembers
  <2>6. /\ Members(other, EndedIn(heap, class) \cup {i}) =
              Members(heap, EndedIn(heap, class)) \cup {<<i, 0>>}
        /\ <<i, 0>> \notin Members(heap, EndedIn(heap, class))
    <3>1. i \notin EndedIn(heap, class)
      BY <1>2
    <3> QED BY <2>1, <2>5, <3>1, MemberJoins
  <2>7. Count(other, class) = Count(heap, class) + 1
    <3>1. Count(other, class) = Cardinality(Members(heap, EndedIn(heap, class)) \cup {<<i, 0>>})
      BY <2>4, <2>6 DEF Count
    <3> QED BY <1>2, <2>6, <3>1, FS_AddElement DEF Count
  <2>8. \A c : c # class => Count(other, c) = Count(heap, c)
    BY <2>4, <2>5 DEF Count
  <2> QED BY <2>3, <2>7, <2>8 DEF class
<1>4. ASSUME NEW twin \in DOMAIN heap \ {i}, EndsIn(heap, other, i, twin)
      PROVE  /\ EndedOf(other) = EndedOf(heap) \cup {class}
             /\ \A c : Count(other, c) = IF c = class THEN Count(heap, c) + 1 ELSE Count(heap, c)
  <2> DEFINE token == <<twin, heap[twin].population + 1>>
  <2>1. /\ DOMAIN other = DOMAIN heap \ {i} /\ heap[twin].done /\ ClassOf(heap, twin) = class
        /\ other[twin] \in AddCycle(heap[twin], i)
        /\ \A j \in DOMAIN other \ {twin} : other[j] = heap[j]
        /\ heap[twin].population \in Nat /\ heap[twin] \in Chain
    BY <1>1, <1>4, ChainFields DEF EndsIn, ClassOf
  <2>2. /\ other[twin].pc = heap[twin].pc /\ other[twin].uses = heap[twin].uses
        /\ other[twin].done = heap[twin].done
    BY <1>1, <2>1, GrownClass
  <2>3. other[twin].population = heap[twin].population + 1
    <3>1. /\ Len(heap[twin].equalized) = IF heap[twin].population < ClassSize
                                         THEN heap[twin].population ELSE ClassSize
          /\ \A p, q \in DOMAIN heap[twin].equalized :
                heap[twin].equalized[p] = heap[twin].equalized[q] => p = q
          /\ \A p \in DOMAIN heap[twin].equalized : heap[twin].equalized[p] # i
      BY <1>1 DEF Sampled
    <3> QED BY <1>1, <2>1, <3>1, GrownSamples
  <2>4. \A j \in DOMAIN other : ClassOf(other, j) = ClassOf(heap, j) /\ other[j].done = heap[j].done
    BY <2>1, <2>2 DEF ClassOf
  <2>5. EndedOf(other) = EndedOf(heap) \cup {class}
    <3>1. {j \in DOMAIN other : other[j].done} = {j \in DOMAIN heap : heap[j].done}
      BY <1>1, <2>1, <2>4
    <3>2. EndedOf(other) = EndedOf(heap)
      BY <2>1, <2>4, <3>1 DEF EndedOf
    <3>3. class \in EndedOf(heap)
      BY <2>1 DEF EndedOf
    <3> QED BY <3>2, <3>3
  <2>6. \A c : EndedIn(other, c) = EndedIn(heap, c)
    BY <1>1, <2>1, <2>4 DEF EndedIn
  <2>7. twin \in EndedIn(heap, class) /\ \A c : c # class => twin \notin EndedIn(heap, c)
    BY <2>1 DEF EndedIn
  <2> HIDE DEF class
  <2>8. Count(other, class) = Count(heap, class) + 1
    <3> DEFINE S == EndedIn(heap, class)
               M == Members(heap, S)
    <3>1. \A j \in S \ {twin} : other[j].population = heap[j].population
      BY <1>2, <2>1
    <3> HIDE DEF S
    <3>2. Members(other, S) = Members(heap, S) \cup {token} /\ token \notin Members(heap, S)
      BY <2>1, <2>3, <2>7, <3>1, MemberGrows DEF S
    <3>3. IsFiniteSet(M)
      BY <1>2 DEF S
    <3> HIDE DEF M, token
    <3>4. Cardinality(M \cup {token}) = Cardinality(M) + 1
      BY <3>2, <3>3, FS_AddElement DEF M
    <3> QED BY <2>6, <3>2, <3>4 DEF Count, M, S
  <2>9. \A c : c # class => Count(other, c) = Count(heap, c)
    <3> SUFFICES ASSUME NEW c, c # class PROVE Count(other, c) = Count(heap, c)
      OBVIOUS
    <3>1. \A j \in EndedIn(heap, c) : other[j].population = heap[j].population
      BY <1>2, <2>1, <2>7
    <3>2. Members(other, EndedIn(heap, c)) = Members(heap, EndedIn(heap, c))
      BY <3>1, SameMembers
    <3> QED BY <2>6, <3>2 DEF Count
  <2> QED BY <2>5, <2>8, <2>9
<1> QED BY <1>3, <1>4 DEF Ends

\* The classes as the abstract specification changes them.
OneMore(classes, store) ==
    [s \in DOMAIN classes \cup {store} |->
        LET count == IF s \in DOMAIN classes THEN classes[s] ELSE 0
        IN  IF s = store THEN count + 1 ELSE count]

LEMMA EndsClasses ==
  ASSUME NEW n \in 0 .. MaxStores, NEW heap, HeapOK(heap, n), Sampled(heap, n), AddsUp(heap, n),
         NEW other, NEW i, Ends(heap, other, i), NEW store, store = ClassOf(heap, i)
  PROVE  Counted(other) = OneMore(Counted(heap), store)
<1>1. /\ EndedOf(other) = EndedOf(heap) \cup {store}
      /\ \A c : Count(other, c) = IF c = store THEN Count(heap, c) + 1 ELSE Count(heap, c)
  BY EndsCounts
<1>2. \A c : c \notin EndedOf(heap) => Count(heap, c) = 0
  BY NoneCounted
<1>3. /\ DOMAIN Counted(heap) = EndedOf(heap) /\ DOMAIN Counted(other) = EndedOf(other)
      /\ \A c \in EndedOf(heap) : Counted(heap)[c] = Count(heap, c)
      /\ \A c \in EndedOf(other) : Counted(other)[c] = Count(other, c)
  BY DEF Counted
<1>4. \A c : Count(heap, c) = IF c \in DOMAIN Counted(heap) THEN Counted(heap)[c] ELSE 0
  BY <1>2, <1>3
<1> QED BY <1>1, <1>3, <1>4 DEF Counted, OneMore

\* Another chain keeps its pc, its uses and whether it is in use.
LEMMA EndsOthers ==
  ASSUME NEW n \in 0 .. MaxStores, NEW heap, HeapOK(heap, n),
         NEW other, NEW i, Ends(heap, other, i), NEW j \in DOMAIN heap \ {i}
  PROVE  /\ j \in DOMAIN other /\ other[j].pc = heap[j].pc /\ other[j].uses = heap[j].uses
         /\ other[j].done = heap[j].done
<1>1. i \in Cycle /\ \A k \in DOMAIN heap : heap[k] \in Chain
  BY BoundsAssumption DEF HeapOK, Ends, Cycle
<1>2. CASE EndsAlone(heap, other, i)
  BY <1>2 DEF EndsAlone
<1>3. ASSUME NEW twin \in DOMAIN heap \ {i}, EndsIn(heap, other, i, twin)
      PROVE  /\ j \in DOMAIN other /\ other[j].pc = heap[j].pc /\ other[j].uses = heap[j].uses
             /\ other[j].done = heap[j].done
  <2>1. CASE j = twin
    BY <1>1, <1>3, <2>1, GrownClass DEF EndsIn
  <2>2. CASE j # twin
    BY <1>3, <2>2 DEF EndsIn
  <2> QED BY <2>1, <2>2
<1> QED BY <1>2, <1>3 DEF Ends

\* The stores held by the addresses.
LEMMA OpenListed ==
  ASSUME ChainsInv, NEW a \in DOMAIN addressChains, OpenAt(chain, addressChains[a])
  PROVE  /\ OpenStore(a) = ClassOf(chain, Last(addressChains[a]))
         /\ OpenStore(a) # Abstract!NoStore
<1> DEFINE list == addressChains[a]
           last == Last(list)
<1>1. /\ HeapOK(chain, cycle) /\ ListsOK(addressChains, chain)
      /\ list # <<>> /\ \A k \in DOMAIN list : chain[list[k]].done <=> k < Len(list)
  BY DEF ChainsInv, DataOK, OpenAt
<1>2. /\ list \in Seq(DOMAIN chain) /\ Len(list) \in Nat /\ DOMAIN list = 1 .. Len(list)
      /\ \A p \in DOMAIN list : list[p] \in DOMAIN chain
  BY <1>1, ListedOnHeap
<1>3. Len(list) \in DOMAIN list
  BY <1>1, <1>2, EmptySeq
<1>4. last = list[Len(list)] /\ last \in DOMAIN chain
  BY <1>2, <1>3 DEF Last
<1>5. ~chain[last].done
  <2> HIDE DEF last, list
  <2>1. chain[list[Len(list)]].done <=> Len(list) < Len(list)
    BY <1>1, <1>3
  <2> QED BY <1>2, <1>4, <2>1
<1>6. chain[last].pc \in StorePcs /\ chain[last].pc # 0
  <2>1. chain[last] \in Chain
    BY <1>1, <1>4 DEF HeapOK
  <2>2. chain[last].pc \in StorePcs
    BY <2>1, ChainFields
  <2> QED BY <2>2, BoundsAssumption
<1>7. OpenStore(a) = ClassOf(chain, last)
  BY <1>1, <1>5 DEF OpenStore, ClassOf
<1> HIDE DEF last
<1>8. ClassOf(chain, last) # Abstract!NoStore
  <2>1. ClassOf(chain, last).pc = chain[last].pc /\ Abstract!NoStore.pc = 0
    BY DEF ClassOf, Abstract!NoStore
  <2> QED BY <1>6, <2>1
<1> QED BY <1>7, <1>8 DEF last

LEMMA SameOpen ==
  ASSUME ChainsInv, NEW b,
         b \in DOMAIN addressChains' <=> b \in DOMAIN addressChains,
         b \in DOMAIN addressChains =>
            /\ addressChains'[b] = addressChains[b]
            /\ \A p \in DOMAIN addressChains[b] :
                  /\ chain'[addressChains[b][p]].pc = chain[addressChains[b][p]].pc
                  /\ chain'[addressChains[b][p]].uses = chain[addressChains[b][p]].uses
                  /\ chain'[addressChains[b][p]].done = chain[addressChains[b][p]].done
  PROVE  OpenStore(b)' = OpenStore(b)
<1>1. CASE b \notin DOMAIN addressChains
  BY <1>1 DEF OpenStore
<1>2. CASE b \in DOMAIN addressChains /\ addressChains[b] = <<>>
  BY <1>2 DEF OpenStore
<1>3. CASE b \in DOMAIN addressChains /\ addressChains[b] # <<>>
  <2>1. /\ addressChains[b] \in Seq(DOMAIN chain) /\ Len(addressChains[b]) \in Nat
        /\ DOMAIN addressChains[b] = 1 .. Len(addressChains[b])
    BY <1>3, ListedOnHeap DEF ChainsInv, DataOK
  <2>2. Len(addressChains[b]) \in DOMAIN addressChains[b]
    BY <1>3, <2>1, EmptySeq
  <2>3. PICK j : j = addressChains[b][Len(addressChains[b])]
    OBVIOUS
  <2>4. chain'[j].pc = chain[j].pc /\ chain'[j].uses = chain[j].uses /\ chain'[j].done = chain[j].done
    BY <1>3, <2>2, <2>3
  <2>5. Last(addressChains[b]) = j /\ Last(addressChains'[b]) = j
    BY <1>3, <2>3 DEF Last
  <2>6. /\ b \in DOMAIN addressChains' /\ addressChains'[b] # <<>>
        /\ b \in DOMAIN addressChains /\ addressChains[b] # <<>>
    BY <1>3
  <2> QED BY <2>4, <2>5, <2>6 DEF OpenStore
<1> QED BY <1>1, <1>2, <1>3

\* The chains of the other addresses are not the one that ends.
LEMMA OthersListed ==
  ASSUME ChainsInv, NEW a \in DOMAIN addressChains, OpenAt(chain, addressChains[a]),
         NEW b \in DOMAIN addressChains \ {a}, NEW p \in DOMAIN addressChains[b]
  PROVE  addressChains[b][p] \in DOMAIN chain \ {Last(addressChains[a])}
<1>1. ListsOK(addressChains, chain) /\ AddressesOK(addressChains, chain) /\ addressChains[a] # <<>>
  BY DEF ChainsInv, DataOK, OpenAt
<1>2. /\ addressChains[a] \in Seq(DOMAIN chain) /\ Len(addressChains[a]) \in Nat
      /\ DOMAIN addressChains[a] = 1 .. Len(addressChains[a])
      /\ addressChains[b][p] \in DOMAIN chain
  BY <1>1, ListedOnHeap
<1>3. Len(addressChains[a]) \in DOMAIN addressChains[a]
  BY <1>1, <1>2, EmptySeq
<1>4. addressChains[b][p] # addressChains[a][Len(addressChains[a])]
  BY <1>1, <1>3 DEF AddressesOK
<1> QED BY <1>2, <1>4 DEF Last

LEMMA InitImplements == Init => Abstract!Init
<1> SUFFICES ASSUME Init PROVE Abstract!Init
  OBVIOUS
<1>1. DOMAIN addressChains = {} /\ DOMAIN chain = {}
  BY DEF Init
<1>2. \A a \in Addresses : OpenStore(a) = Abstract!NoStore
  BY <1>1 DEF OpenStore, Abstract!NoStore
<1>3. EndedStores = <<>>
  <2>1. {ClassOf(chain, i) : i \in {j \in DOMAIN chain : chain[j].done}} = {}
    BY <1>1
  <2>2. <<>> = [c \in {} |-> 0]
    OBVIOUS
  <2> QED BY <2>1, <2>2 DEF EndedStores
<1> QED BY <1>2, <1>3 DEF Abstract!Init

LEMMA StoreImplements ==
  ASSUME CountInv, NEW pc \in StorePcs, NEW a \in Addresses, Write(pc, a)
  PROVE  Abstract!Store(pc, a)
<1>1. /\ ChainsInv /\ HeapOK(chain, cycle) /\ cycle \in 0 .. MaxStores /\ cycle \in Nat
      /\ Sampled(chain, cycle) /\ AddsUp(chain, cycle) /\ pc \in RecordPcs
      /\ \A b \in DOMAIN addressChains : OpenAt(chain, addressChains[b])
      /\ DOMAIN addressChains \subseteq Addresses
  BY BoundsAssumption DEF CountInv, ChainsInv, DataOK, Write, InUse
<1>2. PICK heap, addresses :
            /\ IF a \in DOMAIN addressChains THEN Ends(chain, heap, Last(addressChains[a]))
               ELSE heap = chain
            /\ HeapOK(heap, cycle)
            /\ DOMAIN addresses = DOMAIN addressChains
            /\ \A b \in DOMAIN addressChains \ {a} : addresses[b] = addressChains[b]
            /\ chain' = Started(heap, pc, cycle + 1)
            /\ addressChains' = Pushed(addresses, a, cycle + 1)
            /\ ListsOK(addresses, heap)
  BY <1>1, WriteShape
<1>3. /\ DOMAIN chain' = DOMAIN heap \cup {cycle + 1} /\ chain'[cycle + 1] = NewChain(pc)
      /\ \A j \in DOMAIN heap : chain'[j] = heap[j]
      /\ cycle + 1 \notin DOMAIN heap /\ DOMAIN heap \subseteq 1 .. cycle
  BY <1>1, <1>2 DEF Started, HeapOK
<1>4. ~NewChain(pc).done /\ NewChain(pc).pc = pc /\ NewChain(pc).uses = <<>>
  BY DEF NewChain
<1>5. Counted(chain') = Counted(heap)
  <2>1. {j \in DOMAIN chain' : chain'[j].done} = {j \in DOMAIN heap : heap[j].done}
    BY <1>3, <1>4
  <2>2. \A j \in {k \in DOMAIN heap : heap[k].done} : chain'[j] = heap[j]
    BY <1>3
  <2> QED BY <2>1, <2>2, SameCounts
<1>6. GrownBy(addresses, addressChains', a, cycle + 1)
  BY <1>1, <1>2, <1>3, PushedLists
<1>7. /\ DOMAIN addressChains' = DOMAIN addressChains \cup {a}
      /\ \A b \in DOMAIN addressChains \ {a} : addressChains'[b] = addressChains[b]
      /\ addressChains'[a] # <<>> /\ Last(addressChains'[a]) = cycle + 1
  BY <1>2, <1>6 DEF GrownBy, Last
<1>8. EndedStores' = Abstract!ClassesAfter(a)
  <2>1. CASE a \in DOMAIN addressChains
    <3>1. /\ OpenStore(a) = ClassOf(chain, Last(addressChains[a]))
          /\ OpenStore(a) # Abstract!NoStore
      BY <1>1, <2>1, OpenListed
    <3>2. Counted(heap) = OneMore(Counted(chain), OpenStore(a))
      <4>1. PICK last, store : last = Last(addressChains[a]) /\ store = OpenStore(a)
        OBVIOUS
      <4>2. Ends(chain, heap, last) /\ store = ClassOf(chain, last)
        BY <1>2, <2>1, <3>1, <4>1
      <4>3. /\ cycle \in 0 .. MaxStores /\ HeapOK(chain, cycle)
            /\ Sampled(chain, cycle) /\ AddsUp(chain, cycle)
        BY <1>1
      <4>4. Counted(heap) = OneMore(Counted(chain), store)
        BY <4>2, <4>3, EndsClasses
      <4> QED BY <4>1, <4>4
    <3>3. EndedStores = Counted(chain) /\ EndedStores' = Counted(chain')
      BY DEF EndedStores, Counted, EndedOf, Count
    <3> QED BY <1>5, <3>1, <3>2, <3>3 DEF OneMore, Abstract!ClassesAfter, Abstract!Population
  <2>2. CASE a \notin DOMAIN addressChains
    <3>1. OpenStore(a) = Abstract!NoStore /\ heap = chain
      BY <1>2, <2>2 DEF OpenStore, Abstract!NoStore
    <3>2. EndedStores = Counted(chain) /\ EndedStores' = Counted(chain')
      BY DEF EndedStores, Counted, EndedOf, Count
    <3> QED BY <1>5, <3>1, <3>2 DEF Abstract!ClassesAfter
  <2> QED BY <2>1, <2>2
<1>9. OpenStore(a)' = [pc |-> pc, uses |-> <<>>]
  BY <1>3, <1>4, <1>7 DEF OpenStore
<1>10. ASSUME NEW b \in Addresses \ {a}
       PROVE  OpenStore(b)' = OpenStore(b)
  <2>1. ASSUME b \in DOMAIN addressChains, NEW p \in DOMAIN addressChains[b]
        PROVE  LET j == addressChains[b][p]
               IN  /\ chain'[j].pc = chain[j].pc /\ chain'[j].uses = chain[j].uses
                   /\ chain'[j].done = chain[j].done
    <3>1. PICK j : j = addressChains[b][p]
      OBVIOUS
    <3>2. CASE a \in DOMAIN addressChains
      <4>1. j \in DOMAIN chain \ {Last(addressChains[a])}
        BY <1>1, <2>1, <3>1, <3>2, OthersListed
      <4>2. /\ j \in DOMAIN heap /\ heap[j].pc = chain[j].pc /\ heap[j].uses = chain[j].uses
            /\ heap[j].done = chain[j].done
        BY <1>1, <1>2, <3>2, <4>1, EndsOthers
      <4> QED BY <1>3, <3>1, <4>2
    <3>3. CASE a \notin DOMAIN addressChains
      <4>1. j \in DOMAIN chain /\ heap = chain
        BY <1>1, <1>2, <2>1, <3>1, <3>3, ListedOnHeap DEF ChainsInv, DataOK
      <4> QED BY <1>3, <3>1, <4>1
    <3> QED BY <3>2, <3>3
  <2>2. b \in DOMAIN addressChains' <=> b \in DOMAIN addressChains
    BY <1>7
  <2>3. b \in DOMAIN addressChains => addressChains'[b] = addressChains[b]
    BY <1>7
  <2> QED BY <1>1, <2>1, <2>2, <2>3, SameOpen
<1>11. [b \in Addresses |-> OpenStore(b)]' =
          [[b \in Addresses |-> OpenStore(b)] EXCEPT ![a] = [pc |-> pc, uses |-> <<>>]]
  BY <1>9, <1>10
<1> QED BY <1>8, <1>11 DEF Abstract!Store

LEMMA LoadImplements ==
  ASSUME CountInv, NEW pc \in LoadPcs, NEW a \in Addresses, Read(pc, a)
  PROVE  Abstract!Load(Tag(pc), a)
<1> DEFINE last == Last(addressChains[a])
<1>1. /\ ChainsInv /\ a \in DOMAIN addressChains /\ OpenAt(chain, addressChains[a])
      /\ addressChains' = addressChains
  BY DEF CountInv, ChainsInv, InUse, Read
<1>2. /\ last \in DOMAIN chain /\ ~chain[last].done
      /\ DOMAIN chain' = DOMAIN chain /\ chain'[last].pc = chain[last].pc
      /\ chain'[last].uses = Append(chain[last].uses, Tag(pc))
      /\ chain'[last].done = chain[last].done
      /\ \A i \in DOMAIN chain \ {last} : chain'[i] = chain[i]
  BY <1>1, ReadShape
<1>3. OpenStore(a) = ClassOf(chain, last) /\ OpenStore(a) # Abstract!NoStore
  BY <1>1, OpenListed
<1>4. OpenStore(a)' = [pc |-> chain[last].pc, uses |-> Append(chain[last].uses, Tag(pc))]
  <2>1. addressChains[a] # <<>>
    BY <1>1 DEF OpenAt
  <2>2. Last(addressChains'[a]) = last
    BY <1>1
  <2> HIDE DEF last
  <2> QED BY <1>1, <1>2, <2>1, <2>2 DEF OpenStore
<1>5. OpenStore(a)' = [OpenStore(a) EXCEPT !.uses = Append(@, Tag(pc))]
  <2>1. OpenStore(a) = [pc |-> chain[last].pc, uses |-> chain[last].uses]
    BY <1>3 DEF ClassOf
  <2>2. PICK p, u, r : p = chain[last].pc /\ u = chain[last].uses /\ r = OpenStore(a)
    OBVIOUS
  <2>3. [r EXCEPT !.uses = Append(@, Tag(pc))] = [pc |-> p, uses |-> Append(u, Tag(pc))]
    <3>1. r = [pc |-> p, uses |-> u]
      BY <2>1, <2>2
    <3> QED BY <3>1
  <2>4. OpenStore(a)' = [pc |-> p, uses |-> Append(u, Tag(pc))]
    BY <1>4, <2>2
  <2>5. OpenStore(a)' = [r EXCEPT !.uses = Append(@, Tag(pc))]
    BY <2>3, <2>4
  <2> QED BY <2>2, <2>5
<1>6. ASSUME NEW b \in Addresses \ {a}
      PROVE  OpenStore(b)' = OpenStore(b)
  <2>1. ASSUME b \in DOMAIN addressChains, NEW p \in DOMAIN addressChains[b]
        PROVE  chain'[addressChains[b][p]] = chain[addressChains[b][p]]
    <3>1. addressChains[b][p] \in DOMAIN chain \ {last}
      BY <1>1, <2>1, OthersListed
    <3> QED BY <1>2, <3>1
  <2> QED BY <1>1, <2>1, SameOpen
<1>7. EndedStores' = EndedStores
  <2>1. {j \in DOMAIN chain' : chain'[j].done} = {j \in DOMAIN chain : chain[j].done}
    BY <1>2
  <2>2. \A j \in {k \in DOMAIN chain : chain[k].done} : chain'[j] = chain[j]
    BY <1>2
  <2>3. Counted(chain') = Counted(chain)
    BY <2>1, <2>2, SameCounts
  <2> QED BY <2>3 DEF EndedStores, Counted, EndedOf, Count
<1>8. [b \in Addresses |-> OpenStore(b)]' =
         [[b \in Addresses |-> OpenStore(b)] EXCEPT ![a].uses = Append(@, Tag(pc))]
  BY <1>5, <1>6
<1> QED BY <1>3, <1>7, <1>8 DEF Abstract!Load

LEMMA EndImplements ==
  ASSUME CountInv, AnalyzeAddress
  PROVE  \E a \in Addresses : Abstract!End(a)
<1>1. PICK a : a = Min(toAnalyze)
  OBVIOUS
<1>2. /\ ChainsInv /\ HeapOK(chain, cycle) /\ cycle \in 0 .. MaxStores
      /\ Sampled(chain, cycle) /\ AddsUp(chain, cycle)
      /\ DOMAIN addressChains \subseteq Addresses
  BY DEF CountInv, ChainsInv, DataOK
<1>3. PICK last, store : last = Last(addressChains[a]) /\ store = OpenStore(a)
  OBVIOUS
<1>4. /\ a \in DOMAIN addressChains /\ OpenAt(chain, addressChains[a])
      /\ Ends(chain, chain', last)
      /\ DOMAIN addressChains' = DOMAIN addressChains
      /\ \A b \in DOMAIN addressChains \ {a} : addressChains'[b] = addressChains[b]
      /\ ClosedAt(chain', addressChains'[a])
  BY <1>1, <1>2, <1>3, AnalyzeShape
<1>5. store = ClassOf(chain, last) /\ store # Abstract!NoStore
  BY <1>2, <1>3, <1>4, OpenListed
<1>6. EndedStores' = Abstract!ClassesAfter(a)
  <2>1. Counted(chain') = OneMore(Counted(chain), store)
    BY <1>2, <1>4, <1>5, EndsClasses
  <2>2. EndedStores = Counted(chain) /\ EndedStores' = Counted(chain')
    BY DEF EndedStores, Counted, EndedOf, Count
  <2>3. a \in Addresses
    BY <1>2, <1>4
  <2> QED BY <1>3, <1>5, <2>1, <2>2, <2>3 DEF OneMore, Abstract!ClassesAfter, Abstract!Population
<1>7. OpenStore(a)' = Abstract!NoStore
  <2>1. CASE addressChains'[a] = <<>>
    BY <2>1 DEF OpenStore, Abstract!NoStore
  <2>2. CASE addressChains'[a] # <<>>
    <3>1. ChainsInv' /\ a \in DOMAIN addressChains'
      BY <1>2, <1>4, AnalyzeChains
    <3>2. /\ addressChains'[a] \in Seq(DOMAIN chain') /\ Len(addressChains'[a]) \in Nat
          /\ DOMAIN addressChains'[a] = 1 .. Len(addressChains'[a])
      BY <3>1, ListedOnHeap DEF ChainsInv, DataOK
    <3>3. Len(addressChains'[a]) \in DOMAIN addressChains'[a]
      BY <2>2, <3>2, EmptySeq
    <3>4. chain'[Last(addressChains'[a])].done
      BY <1>4, <3>3 DEF ClosedAt, Last
    <3> QED BY <3>4 DEF OpenStore, Abstract!NoStore
  <2> QED BY <2>1, <2>2
<1>8. ASSUME NEW b \in Addresses \ {a}
      PROVE  OpenStore(b)' = OpenStore(b)
  <2>1. ASSUME b \in DOMAIN addressChains, NEW p \in DOMAIN addressChains[b]
        PROVE  LET j == addressChains[b][p]
               IN  /\ chain'[j].pc = chain[j].pc /\ chain'[j].uses = chain[j].uses
                   /\ chain'[j].done = chain[j].done
    <3>1. PICK j : j = addressChains[b][p]
      OBVIOUS
    <3>2. j \in DOMAIN chain \ {last}
      BY <1>2, <1>3, <1>4, <2>1, <3>1, OthersListed
    <3> QED BY <1>2, <1>4, <3>1, <3>2, EndsOthers
  <2>2. b \in DOMAIN addressChains' <=> b \in DOMAIN addressChains
    BY <1>4
  <2>3. b \in DOMAIN addressChains => addressChains'[b] = addressChains[b]
    BY <1>4
  <2> QED BY <1>2, <2>1, <2>2, <2>3, SameOpen
<1>9. a \in Addresses
  BY <1>2, <1>4
<1>10. [b \in Addresses |-> OpenStore(b)]' =
          [[b \in Addresses |-> OpenStore(b)] EXCEPT ![a] = Abstract!NoStore]
  BY <1>7, <1>8, <1>9
<1>11. [b \in Addresses |-> OpenStore(b)][a] # Abstract!NoStore
  BY <1>3, <1>5, <1>9
<1> QED BY <1>6, <1>9, <1>10, <1>11 DEF Abstract!End

LEMMA NextImplements ==
  CountInv /\ [Next]_vars
    => [Abstract!Next]_<<[a \in Addresses |-> OpenStore(a)], EndedStores>>
<1> SUFFICES ASSUME CountInv, [Next]_vars
             PROVE  \/ Abstract!Next
                    \/ /\ [a \in Addresses |-> OpenStore(a)]' = [a \in Addresses |-> OpenStore(a)]
                       /\ EndedStores' = EndedStores
  OBVIOUS
<1>1. ASSUME NEW a \in Addresses, NEW pc \in StorePcs, Write(pc, a) PROVE Abstract!Next
  <2>1. Abstract!Store(pc, a) /\ pc \in RecordPcs
    BY <1>1, StoreImplements DEF Write
  <2> QED BY <2>1 DEF Abstract!Next
<1>2. ASSUME NEW a \in Addresses, NEW pc \in LoadPcs, Read(pc, a) PROVE Abstract!Next
  BY <1>2, LoadImplements DEF Abstract!Next
<1>3. CASE AnalyzeAddress
  BY <1>3, EndImplements DEF Abstract!Next
<1>4. CASE UNCHANGED <<chain, addressChains>>
  BY <1>4 DEF OpenStore, EndedStores, ClassOf, EndedIn, Members
<1> QED BY <1>1, <1>2, <1>3, <1>4 DEF Next, StartAnalysis, Report, vars

\* The chains, ended by the next store to their address and merged in place,
\* implement the classification in which every ended store is kept: a class is
\* never lost, split or counted twice by a merge, and a store that is still open
\* is the last of its address (addUse, is_chain_equal, add_cycle, analyzeChains).
THEOREM ChainsImplementClasses == Spec => ImplementsEquivalence
<1>1. Init => Abstract!Init
  BY InitImplements
<1>2. CountInv /\ [Next]_vars
        => [Abstract!Next]_<<[a \in Addresses |-> OpenStore(a)], EndedStores>>
  BY NextImplements
<1> QED BY <1>1, <1>2, InitCount, NextCount, PTL DEF Spec, ImplementsEquivalence, Abstract!Spec

=============================================================================
