------------------------ MODULE RegisterRenameProofs ------------------------
(***************************************************************************)
(* Proofs about RegisterRename for every number of registers, reserve,     *)
(* window size and set of operand lists: the types, the single ownership   *)
(* of every physical register and the program order of the mappings; and   *)
(* that what the handlers write down about registers (ready bits, wait     *)
(* lists, rename counts) agrees with the instructions in flight.           *)
(***************************************************************************)
EXTENDS RegisterRename, FiniteSetsExt, SequenceTheorems, FiniteSetTheorems, WellFoundedInduction, TLAPS

-----------------------------------------------------------------------------
(***************************************************************************)
(* Numbers and finite sets of them.                                        *)
(***************************************************************************)

\* A non-empty set of positive numbers with a bound has a maximum, and Max is it.
LEMMA MaxExists ==
  ASSUME NEW S, NEW n \in Nat, S \subseteq 1 .. n, S # {}
  PROVE  /\ Max(S) \in S
         /\ \A y \in S : y <= Max(S)
<1> DEFINE R == OpToRel(<, Nat)
           T == {m \in Nat : n - m \in S}
<1>1. IsWellFoundedOn(R, Nat)
  BY NatLessThanWellFounded
<1>2. T \subseteq Nat /\ T # {}
  <2>1. PICK s \in S : TRUE
    OBVIOUS
  <2>2. n - s \in Nat /\ n - (n - s) = s
    BY <2>1
  <2> QED BY <2>1, <2>2
<1>3. \A x, y \in Nat : x < y => <<x, y>> \in R
  BY DEF OpToRel
<1>4. PICK x \in T : \A y \in T : ~(<<y, x>> \in R)
  <2> HIDE DEF R, T
  <2> QED BY <1>1, <1>2, WFMin
<1>5. n - x \in S /\ \A y \in S : y <= n - x
  <2> SUFFICES ASSUME NEW y \in S PROVE y <= n - x
    BY <1>4
  <2>1. n - y \in T
    <3>1. n - y \in Nat /\ n - (n - y) = y
      OBVIOUS
    <3> QED BY <3>1
  <2>2. ~(n - y < x)
    BY <2>1, <1>4, <1>3
  <2> QED BY <2>2
<1> QED BY <1>5 DEF Max

\* A non-empty set of numbers has a minimum, and Min is it.
LEMMA MinExists ==
  ASSUME NEW S, S \subseteq Nat, S # {}
  PROVE  Min(S) \in S
<1> DEFINE R == OpToRel(<, Nat)
<1>1. IsWellFoundedOn(R, Nat)
  BY NatLessThanWellFounded
<1>2. \A x, y \in Nat : x < y => <<x, y>> \in R
  BY DEF OpToRel
<1>3. PICK x \in S : \A y \in S : ~(<<y, x>> \in R)
  <2> HIDE DEF R
  <2> QED BY <1>1, WFMin
<1>4. \A y \in S : x <= y
  <2> TAKE y \in S
  <2>1. x \in Nat /\ y \in Nat /\ ~(y < x)
    BY <1>2, <1>3
  <2> QED BY <2>1
<1> QED BY <1>4 DEF Min

-----------------------------------------------------------------------------
(***************************************************************************)
(* The operators the model is built from.                                  *)
(***************************************************************************)

\* setMapping in a loop: the k-th register is pointed at the k-th target, the
\* others keep their mapping, and the map stays a map into the same set.
LEMMA RemapFacts ==
  ASSUME NEW P, NEW map \in [Logical -> P],
         NEW regs \in Seq(Logical), Distinct(regs),
         NEW to \in Seq(P), Len(to) = Len(regs)
  PROVE  /\ Remap(map, regs, to) \in [Logical -> P]
         /\ \A k \in DOMAIN regs : Remap(map, regs, to)[regs[k]] = to[k]
         /\ \A l \in Logical \ Range(regs) : Remap(map, regs, to)[l] = map[l]
<1>1. /\ regs \in [1 .. Len(regs) -> Logical] /\ DOMAIN regs = 1 .. Len(regs)
      /\ to \in [1 .. Len(regs) -> P]
  BY LenProperties
<1>2. \A l \in Range(regs) : \E k \in DOMAIN regs : regs[k] = l
  BY DEF Range
<1>3. \A k \in DOMAIN regs : (CHOOSE j \in DOMAIN regs : regs[j] = regs[k]) = k
  BY DEF Distinct
<1>4. \A k \in DOMAIN regs : regs[k] \in Range(regs) /\ regs[k] \in Logical
  BY <1>1 DEF Range
<1>5. \A l \in Range(regs) : to[CHOOSE j \in DOMAIN regs : regs[j] = l] \in P
  BY <1>1, <1>2
<1>6. Remap(map, regs, to) \in [Logical -> P]
  BY <1>5 DEF Remap
<1>7. \A k \in DOMAIN regs : Remap(map, regs, to)[regs[k]] = to[k]
  BY <1>3, <1>4 DEF Remap
<1>8. \A l \in Logical \ Range(regs) : Remap(map, regs, to)[l] = map[l]
  BY DEF Remap
<1> QED BY <1>6, <1>7, <1>8

LEMMA RecountType ==
  ASSUME NEW count \in [Logical -> Int], NEW regs, NEW by \in Int
  PROVE  Recount(count, regs, by) \in [Logical -> Int]
BY DEF Recount

\* Moving an instruction's stage and its untested sources disturbs no other
\* field.
LEMMA SetStageFacts ==
  ASSUME NEW d \in Instruction, WellFormed(d),
         NEW n \in Nat, n <= Len(d.sources), NEW s \in Stage
  PROVE  LET e == SetStage(d, n, s) IN
         /\ e \in Instruction /\ WellFormed(e)
         /\ e.dests = d.dests /\ e.phys = d.phys /\ e.tofree = d.tofree
         /\ e.sources = d.sources /\ e.srcPhys = d.srcPhys
         /\ e.issue = d.issue /\ e.data = d.data
         /\ e.untested = n /\ e.stage = s
<1> DEFINE e == SetStage(d, n, s)
<1>1. /\ e.dests = d.dests /\ e.phys = d.phys /\ e.tofree = d.tofree
      /\ e.sources = d.sources /\ e.srcPhys = d.srcPhys
      /\ e.issue = d.issue /\ e.data = d.data
      /\ e.untested = n /\ e.stage = s
  BY DEF Instruction, SetStage
<1>2. e \in Instruction
  BY DEF Instruction, SetStage
<1>3. WellFormed(e)
  BY <1>1 DEF WellFormed
<1> QED BY <1>1, <1>2, <1>3

\* What Schedule does to an instruction: it moves its stage and the number of
\* untested sources, which only goes down, and nothing else.
LEMMA TestSourcesFacts ==
  ASSUME NEW d \in Instruction, WellFormed(d), NEW ready
  PROVE  LET e == TestSources(d, ready) IN
         /\ e \in Instruction /\ WellFormed(e)
         /\ e.dests = d.dests /\ e.phys = d.phys /\ e.tofree = d.tofree
         /\ e.sources = d.sources /\ e.srcPhys = d.srcPhys
         /\ e.issue = d.issue /\ e.data = d.data
         /\ e.stage \in {"wait", "ready"}
<1> DEFINE blocked == {k \in 1 .. d.untested : ~ready[d.srcPhys[k]]}
<1>0. d.untested \in Nat /\ d.untested <= Len(d.sources) /\ Len(d.sources) \in Nat
  BY LenProperties DEF Instruction, WellFormed
<1>1. CASE blocked = {}
  <2>1. TestSources(d, ready) = SetStage(d, 0, "ready")
    BY <1>1 DEF TestSources
  <2> QED BY <1>0, <2>1, SetStageFacts DEF Stage
<1>2. CASE blocked # {}
  <2>1. TestSources(d, ready) = SetStage(d, Max(blocked), "wait")
    BY <1>2 DEF TestSources
  <2>2. Max(blocked) \in 1 .. d.untested
    BY <1>0, <1>2, MaxExists
  <2>3. Max(blocked) \in Nat /\ Max(blocked) <= Len(d.sources)
    BY <1>0, <2>2
  <2> HIDE DEF blocked
  <2> QED BY <2>1, <2>3, SetStageFacts DEF Stage
<1> QED BY <1>1, <1>2

\* What the loop over all sources does to an instruction.
LEMMA TestDataFacts ==
  ASSUME NEW d \in Instruction, WellFormed(d), NEW ready
  PROVE  LET e == TestData(d, ready) IN
         /\ e \in Instruction /\ WellFormed(e)
         /\ e.dests = d.dests /\ e.phys = d.phys /\ e.tofree = d.tofree
         /\ e.sources = d.sources /\ e.srcPhys = d.srcPhys
         /\ e.issue = d.issue /\ e.data = d.data
         /\ \/ /\ HasSources(d, ready) /\ e.stage = "ready" /\ e.untested = 0
            \/ /\ e.stage = "early" /\ e.untested \in DOMAIN d.srcPhys
               /\ ~ready[d.srcPhys[e.untested]]
<1> DEFINE missing == {k \in DOMAIN d.srcPhys : ~ready[d.srcPhys[k]]}
<1>0. /\ DOMAIN d.srcPhys = 1 .. Len(d.sources) /\ Len(d.sources) \in Nat
  BY LenProperties DEF Instruction, WellFormed
<1>1. CASE HasSources(d, ready)
  <2>1. TestData(d, ready) = SetStage(d, 0, "ready")
    BY <1>1 DEF TestData
  <2>2. 0 \in Nat /\ 0 <= Len(d.sources) /\ "ready" \in Stage
    BY <1>0 DEF Stage
  <2> QED BY <1>1, <2>1, <2>2, SetStageFacts
<1>2. CASE ~HasSources(d, ready)
  <2>1. TestData(d, ready) = SetStage(d, Min(missing), "early")
    BY <1>2 DEF TestData
  <2>2. missing \subseteq Nat /\ missing # {}
    BY <1>0, <1>2 DEF HasSources
  <2>3. Min(missing) \in missing
    <3> HIDE DEF missing
    <3> QED BY <2>2, MinExists
  <2>4. PICK n : n = Min(missing)
    OBVIOUS
  <2>5. n \in DOMAIN d.srcPhys /\ ~ready[d.srcPhys[n]] /\ n \in Nat /\ n <= Len(d.sources)
    BY <1>0, <2>3, <2>4
  <2>6. "early" \in Stage
    BY DEF Stage
  <2>7. TestData(d, ready) = SetStage(d, n, "early")
    BY <2>1, <2>4
  <2> HIDE DEF missing
  <2> QED BY <2>5, <2>6, <2>7, SetStageFacts
<1> QED BY <1>1, <1>2

\* What a wake-up does to an instruction.
LEMMA ResumeFacts ==
  ASSUME NEW d \in Instruction, WellFormed(d), NEW ready
  PROVE  LET e == Resume(d, ready) IN
         /\ e \in Instruction /\ WellFormed(e)
         /\ e.dests = d.dests /\ e.phys = d.phys /\ e.tofree = d.tofree
         /\ e.sources = d.sources /\ e.srcPhys = d.srcPhys
         /\ e.issue = d.issue /\ e.data = d.data
         /\ e.stage \in {"wait", "ready", "early"}
<1>1. CASE d.stage = "early"
  <2>1. Resume(d, ready) = TestData(d, ready)
    BY <1>1 DEF Resume
  <2> QED BY <2>1, TestDataFacts
<1>2. CASE d.stage # "early"
  <2>1. Resume(d, ready) = TestSources(d, ready)
    BY <1>2 DEF Resume
  <2> QED BY <2>1, TestSourcesFacts
<1> QED BY <1>1, <1>2

\* regAllocate n times: the registers popped and the list that is left are
\* the two parts of the free list.
LEMMA PoppedFacts ==
  ASSUME freelist \in Seq(Physical), NEW n \in Nat, n <= Len(freelist)
  PROVE  /\ Popped(n) \in Seq(Physical) /\ Len(Popped(n)) = n
         /\ \A k \in 1 .. n : Popped(n)[k] = freelist[Len(freelist) - k + 1]
         /\ SubSeq(freelist, 1, Len(freelist) - n) \in Seq(Physical)
         /\ Len(SubSeq(freelist, 1, Len(freelist) - n)) = Len(freelist) - n
         /\ \A k \in 1 .. Len(freelist) - n :
               SubSeq(freelist, 1, Len(freelist) - n)[k] = freelist[k]
<1>1. Len(freelist) \in Nat /\ freelist \in [1 .. Len(freelist) -> Physical]
  BY LenProperties
<1>2. \A k \in 1 .. n : freelist[Len(freelist) - k + 1] \in Physical
  BY <1>1
<1>3. Popped(n) \in Seq(Physical) /\ Len(Popped(n)) = n
  BY <1>2 DEF Popped
<1>4. \A k \in 1 .. n : Popped(n)[k] = freelist[Len(freelist) - k + 1]
  BY DEF Popped
<1>5. /\ SubSeq(freelist, 1, Len(freelist) - n) \in Seq(Physical)
      /\ Len(SubSeq(freelist, 1, Len(freelist) - n)) = Len(freelist) - n
      /\ \A k \in 1 .. Len(freelist) - n :
            SubSeq(freelist, 1, Len(freelist) - n)[k] = freelist[k]
  <2> DEFINE m == Len(freelist) - n
  <2>1. m \in Int /\ m >= 0 /\ \A i \in 1 .. m : freelist[i] \in Physical
    BY <1>1
  <2> HIDE DEF m
  <2>2. /\ SubSeq(freelist, 1, m) \in Seq(Physical)
        /\ Len(SubSeq(freelist, 1, m)) = m
        /\ \A k \in 1 .. m : SubSeq(freelist, 1, m)[k] = freelist[k]
    BY <2>1
  <2> QED BY <2>2 DEF m
<1> QED BY <1>3, <1>4, <1>5

\* The operand lists of a well-typed instruction.
LEMMA InstructionFacts ==
  ASSUME NEW d \in Instruction, WellFormed(d)
  PROVE  /\ d.dests \in DestLists /\ d.dests \in Seq(Logical) /\ Distinct(d.dests)
         /\ Len(d.dests) \in Nat
         /\ DOMAIN d.dests = 1 .. Len(d.dests)
         /\ d.phys \in Seq(Physical) /\ DOMAIN d.phys = DOMAIN d.dests
         /\ d.tofree \in Seq(Physical) /\ DOMAIN d.tofree = DOMAIN d.dests
         /\ d.sources \in Seq(Logical) /\ DOMAIN d.sources = 1 .. Len(d.sources)
         /\ d.srcPhys \in Seq(Physical) /\ DOMAIN d.srcPhys = DOMAIN d.sources
         /\ \A k \in DOMAIN d.dests : /\ d.dests[k] \in Logical
                                      /\ d.phys[k] \in Physical
                                      /\ d.tofree[k] \in Physical
         /\ \A k \in DOMAIN d.sources : /\ d.sources[k] \in Logical
                                        /\ d.srcPhys[k] \in Physical
<1>1. d.dests \in DestLists
  BY DEF Instruction
<1>2. /\ d.dests \in Seq(Logical) /\ Distinct(d.dests) /\ d.sources \in Seq(Logical)
      /\ d.phys \in Seq(Physical) /\ d.tofree \in Seq(Physical)
      /\ d.srcPhys \in Seq(Physical)
  BY <1>1, ListsAssumption DEF Instruction
<1>3. /\ Len(d.phys) = Len(d.dests) /\ Len(d.tofree) = Len(d.dests)
      /\ Len(d.srcPhys) = Len(d.sources)
  BY DEF WellFormed
<1> QED BY <1>1, <1>2, <1>3, LenProperties

-----------------------------------------------------------------------------
(***************************************************************************)
(* Type correctness.                                                       *)
(***************************************************************************)

LEMMA InitTypes == Init => TypeOK
<1> SUFFICES ASSUME Init PROVE TypeOK
  OBVIOUS
<1>1. freelist \in Seq(Physical)
  <2>1. NumPhysical - NumLogical \in Nat
    BY CountsAssumption
  <2>2. \A k \in 1 .. NumPhysical - NumLogical : k - 1 \in Physical
    BY CountsAssumption DEF Physical
  <2> QED BY <2>1, <2>2 DEF Init
<1>2. decodeMap \in [Logical -> Physical]
  BY CountsAssumption DEF Init, Logical, Physical
<1>3. isReady \in [Physical -> BOOLEAN] /\ renameCount \in [Logical -> Int]
  BY DEF Init
<1>4. window = <<>> /\ DOMAIN window = {}
  BY DEF Init
<1>5. window \in Seq(Instruction)
  BY <1>4
<1> QED BY <1>1, <1>2, <1>3, <1>4, <1>5 DEF Init, TypeOK

\* Decode finds the registers it pops: the reserve covers the destinations.
LEMMA DecodeTypes ==
  ASSUME TypeOK, NEW dests \in DestLists, NEW reads \in ReadKinds,
         Decode(dests, reads)
  PROVE  /\ Len(dests) \in Nat /\ Len(dests) <= Len(freelist)
         /\ window'[Len(window) + 1] \in Instruction
         /\ WellFormed(window'[Len(window) + 1])
         /\ TypeOK'
<1> DEFINE d == [dests    |-> dests,
                 phys     |-> Popped(Len(dests)),
                 tofree   |-> [k \in DOMAIN dests |-> decodeMap[dests[k]]],
                 sources  |-> reads.sources,
                 srcPhys  |-> [k \in DOMAIN reads.sources |-> decodeMap[reads.sources[k]]],
                 issue    |-> reads.issue,
                 data     |-> reads.data,
                 untested |-> reads.issue,
                 stage    |-> "decoded"]
<1>1. /\ dests \in Seq(Logical) /\ Distinct(dests) /\ Len(dests) <= Reserves + 1
      /\ reads.sources \in Seq(Logical) /\ reads.issue \in Nat /\ reads.data \in BOOLEAN
      /\ reads.issue <= Len(reads.sources)
  BY ListsAssumption
<1>2. Len(dests) \in Nat /\ Len(dests) <= Len(freelist)
  <2>1. Len(dests) \in Nat /\ Len(freelist) \in Nat
    BY <1>1, LenProperties DEF TypeOK
  <2>2. Len(freelist) > Reserves
    BY DEF Decode, RegsAvailable
  <2> QED BY <1>1, <2>1, <2>2, CountsAssumption
<1>3. /\ Popped(Len(dests)) \in Seq(Physical)
      /\ Len(Popped(Len(dests))) = Len(dests)
      /\ SubSeq(freelist, 1, Len(freelist) - Len(dests)) \in Seq(Physical)
  BY <1>2, PoppedFacts DEF TypeOK
<1>4. d \in Instruction /\ WellFormed(d)
  <2>1. /\ DOMAIN dests = 1 .. Len(dests)
        /\ \A k \in DOMAIN dests : decodeMap[dests[k]] \in Physical
        /\ DOMAIN reads.sources = 1 .. Len(reads.sources) /\ Len(reads.sources) \in Nat
        /\ \A k \in DOMAIN reads.sources : decodeMap[reads.sources[k]] \in Physical
    BY <1>1, LenProperties DEF TypeOK
  <2>2. /\ d.tofree \in Seq(Physical) /\ Len(d.tofree) = Len(dests)
        /\ d.srcPhys \in Seq(Physical) /\ Len(d.srcPhys) = Len(reads.sources)
    BY <1>2, <2>1
  <2>3. d \in Instruction
    BY <1>1, <1>3, <2>1, <2>2 DEF Instruction, Stage
  <2>4. WellFormed(d)
    BY <1>1, <1>3, <2>1, <2>2 DEF WellFormed
  <2> QED BY <2>3, <2>4
<1>5. window \in Seq(Instruction) /\ window' = Append(window, d)
  BY DEF TypeOK, Decode
<1> HIDE DEF d
<1>6. /\ Len(window) \in Nat /\ window' \in Seq(Instruction)
      /\ DOMAIN window' = 1 .. Len(window) + 1 /\ DOMAIN window = 1 .. Len(window)
      /\ \A i \in 1 .. Len(window) : window'[i] = window[i]
      /\ window'[Len(window) + 1] = d
  BY <1>4, <1>5
<1>7. \A i \in DOMAIN window' : WellFormed(window'[i])
  BY <1>4, <1>6 DEF TypeOK
<1>8. /\ freelist' \in Seq(Physical)
      /\ decodeMap' \in [Logical -> Physical]
      /\ renameCount' \in [Logical -> Int]
  <2>1. freelist' \in Seq(Physical)
    BY <1>3 DEF Decode
  <2>2. decodeMap' \in [Logical -> Physical]
    BY <1>1, <1>3, RemapFacts DEF Decode, TypeOK
  <2>3. renameCount' \in [Logical -> Int]
    <3>1. renameCount \in [Logical -> Int] /\ renameCount' = Recount(renameCount, dests, 1)
      BY DEF Decode, TypeOK
    <3> QED BY <3>1, RecountType
  <2> QED BY <2>1, <2>2, <2>3
<1>9. TypeOK'
  BY <1>6, <1>7, <1>8 DEF Decode, TypeOK
<1> QED BY <1>2, <1>4, <1>6, <1>9

LEMMA ScheduleTypes ==
  ASSUME TypeOK, NEW i, Schedule(i)
  PROVE  /\ i \in DOMAIN window /\ DOMAIN window' = DOMAIN window
         /\ window'[i] = TestSources(window[i], isReady)
         /\ \A j \in DOMAIN window \ {i} : window'[j] = window[j]
         /\ TypeOK'
<1>1. /\ i \in DOMAIN window /\ window \in Seq(Instruction)
      /\ DOMAIN window = 1 .. Len(window)
      /\ window' = [window EXCEPT ![i] = TestSources(window[i], isReady)]
  BY LenProperties DEF Schedule, TypeOK
<1>2. window[i] \in Instruction /\ WellFormed(window[i])
  BY <1>1, ElementOfSeq DEF TypeOK
<1>3. /\ TestSources(window[i], isReady) \in Instruction
      /\ WellFormed(TestSources(window[i], isReady))
  BY <1>2, TestSourcesFacts
<1>4. /\ window' \in Seq(Instruction) /\ Len(window') = Len(window)
      /\ window'[i] = TestSources(window[i], isReady)
      /\ \A j \in DOMAIN window \ {i} : window'[j] = window[j]
  BY <1>1, <1>3, ExceptSeq
<1>5. DOMAIN window' = DOMAIN window
  BY <1>1
<1>6. \A j \in DOMAIN window' : WellFormed(window'[j])
  BY <1>3, <1>4, <1>5 DEF TypeOK
<1>7. TypeOK'
  BY <1>4, <1>6 DEF Schedule, TypeOK
<1> QED BY <1>1, <1>4, <1>5, <1>7

LEMMA WaitForDataTypes ==
  ASSUME TypeOK, NEW i, WaitForData(i)
  PROVE  /\ i \in DOMAIN window /\ DOMAIN window' = DOMAIN window
         /\ window'[i] = TestData(window[i], isReady)
         /\ \A j \in DOMAIN window \ {i} : window'[j] = window[j]
         /\ TypeOK'
<1>1. /\ i \in DOMAIN window /\ window \in Seq(Instruction)
      /\ DOMAIN window = 1 .. Len(window)
      /\ window' = [window EXCEPT ![i] = TestData(window[i], isReady)]
  BY LenProperties DEF WaitForData, TypeOK
<1>2. window[i] \in Instruction /\ WellFormed(window[i])
  BY <1>1, ElementOfSeq DEF TypeOK
<1>3. /\ TestData(window[i], isReady) \in Instruction
      /\ WellFormed(TestData(window[i], isReady))
  BY <1>2, TestDataFacts
<1>4. /\ window' \in Seq(Instruction) /\ Len(window') = Len(window)
      /\ window'[i] = TestData(window[i], isReady)
      /\ \A j \in DOMAIN window \ {i} : window'[j] = window[j]
  BY <1>1, <1>3, ExceptSeq
<1>5. DOMAIN window' = DOMAIN window
  BY <1>1
<1>6. \A j \in DOMAIN window' : WellFormed(window'[j])
  BY <1>3, <1>4, <1>5 DEF TypeOK
<1>7. TypeOK'
  BY <1>4, <1>6 DEF WaitForData, TypeOK
<1> QED BY <1>1, <1>4, <1>5, <1>7

LEMMA CompleteTypes ==
  ASSUME TypeOK, NEW i, Complete(i)
  PROVE  /\ i \in DOMAIN window /\ DOMAIN window' = DOMAIN window
         /\ window'[i] = SetStage(window[i], 0, "complete")
         /\ \A j \in DOMAIN window \ {i} :
               \/ window'[j] = window[j]
               \/ window'[j] = Resume(window[j], isReady')
         /\ TypeOK'
<1>1. /\ i \in DOMAIN window /\ window \in Seq(Instruction)
      /\ DOMAIN window = 1 .. Len(window) /\ Len(window) \in Nat
      /\ window \in [1 .. Len(window) -> Instruction]
  BY LenProperties DEF Complete, TypeOK
<1>2. /\ DOMAIN window' = DOMAIN window
      /\ window'[i] = SetStage(window[i], 0, "complete")
      /\ \A j \in DOMAIN window \ {i} :
            \/ window'[j] = window[j]
            \/ window'[j] = Resume(window[j], isReady')
  BY <1>1 DEF Complete
<1>3. \A j \in DOMAIN window : /\ window[j] \in Instruction /\ WellFormed(window[j])
                              /\ Len(window[j].sources) \in Nat
  BY <1>1, LenProperties DEF TypeOK, Instruction
<1>4. \A j \in DOMAIN window : window'[j] \in Instruction /\ WellFormed(window'[j])
  <2> TAKE j \in DOMAIN window
  <2>1. CASE j = i
    <3>1. "complete" \in Stage /\ 0 \in Nat /\ 0 <= Len(window[i].sources)
      BY <1>1, <1>3 DEF Stage
    <3> QED BY <1>1, <1>2, <1>3, <2>1, <3>1, SetStageFacts
  <2>2. CASE j # i
    BY <1>2, <1>3, <2>2, ResumeFacts
  <2> QED BY <2>1, <2>2
<1>5. window' \in Seq(Instruction)
  <2>1. window' = [j \in DOMAIN window |-> window'[j]]
    BY <1>1 DEF Complete
  <2>2. window' \in [1 .. Len(window) -> Instruction]
    BY <1>1, <1>4, <2>1
  <2> QED BY <1>1, <2>2
<1>6. isReady' \in [Physical -> BOOLEAN]
  BY DEF Complete, TypeOK
<1>7. TypeOK'
  BY <1>2, <1>4, <1>5, <1>6 DEF Complete, TypeOK
<1> QED BY <1>1, <1>2, <1>7

\* Retirement takes the head of the window and frees what it displaced.
LEMMA RetireTypes ==
  ASSUME TypeOK, Retire
  PROVE  /\ Len(window) \in Nat \ {0} /\ DOMAIN window = 1 .. Len(window)
         /\ Len(window') = Len(window) - 1 /\ DOMAIN window' = 1 .. Len(window) - 1
         /\ \A j \in DOMAIN window' : window'[j] = window[j + 1]
         /\ freelist' = freelist \o window[1].tofree
         /\ retireMap' = Remap(retireMap, window[1].dests, window[1].phys)
         /\ TypeOK'
<1>1. /\ window \in Seq(Instruction) /\ window # <<>>
      /\ DOMAIN window = 1 .. Len(window) /\ Len(window) \in Nat
      /\ Head(window) = window[1]
  BY LenProperties DEF Retire, TypeOK
<1>2. Len(window) # 0
  BY <1>1, EmptySeq
<1>3. /\ window' = Tail(window) /\ window' \in Seq(Instruction)
      /\ Len(window') = Len(window) - 1
      /\ \A j \in 1 .. Len(window') : window'[j] = window[j + 1]
  BY <1>1, <1>2, HeadTailProperties DEF Retire
<1>4. DOMAIN window' = 1 .. Len(window) - 1
  BY <1>3
<1>5. \A j \in DOMAIN window' : WellFormed(window'[j])
  BY <1>1, <1>3, <1>4 DEF TypeOK
<1>6. window[1] \in Instruction /\ WellFormed(window[1])
  BY <1>1, <1>2 DEF TypeOK
<1>7. /\ freelist' = freelist \o window[1].tofree
      /\ retireMap' = Remap(retireMap, window[1].dests, window[1].phys)
      /\ renameCount' = Recount(renameCount, window[1].dests, -1)
  BY <1>1 DEF Retire
<1>8. freelist' \in Seq(Physical)
  BY <1>6, <1>7, InstructionFacts, ConcatProperties DEF TypeOK
<1>9. retireMap' \in [Logical -> Physical]
  <2>1. /\ window[1].dests \in Seq(Logical) /\ Distinct(window[1].dests)
        /\ window[1].phys \in Seq(Physical)
        /\ Len(window[1].phys) = Len(window[1].dests)
    BY <1>6, InstructionFacts DEF WellFormed
  <2> QED BY <1>7, <2>1, RemapFacts DEF TypeOK
<1>10. renameCount' \in [Logical -> Int]
  <2>1. renameCount \in [Logical -> Int] /\ -1 \in Int
    BY DEF TypeOK
  <2> QED BY <1>7, <2>1, RecountType
<1>11. isReady' \in [Physical -> BOOLEAN]
  BY DEF Retire, TypeOK
<1>12. TypeOK'
  BY <1>3, <1>5, <1>8, <1>9, <1>10, <1>11 DEF Retire, TypeOK
<1> QED BY <1>1, <1>2, <1>3, <1>4, <1>7, <1>12

\* A squash takes the youngest instruction and frees what it allocated.
LEMMA SquashTypes ==
  ASSUME TypeOK, Squash
  PROVE  /\ Len(window) \in Nat \ {0} /\ DOMAIN window = 1 .. Len(window)
         /\ Len(window') = Len(window) - 1 /\ DOMAIN window' = 1 .. Len(window) - 1
         /\ \A j \in DOMAIN window' : window'[j] = window[j]
         /\ freelist' = freelist \o window[Len(window)].phys
         /\ decodeMap' = Remap(decodeMap, window[Len(window)].dests,
                               window[Len(window)].tofree)
         /\ TypeOK'
<1> DEFINE d == window[Len(window)]
<1>1. /\ window \in Seq(Instruction) /\ window # <<>>
      /\ DOMAIN window = 1 .. Len(window) /\ Len(window) \in Nat
  BY LenProperties DEF Squash, TypeOK
<1>2. Len(window) # 0
  BY <1>1, EmptySeq
<1>3. /\ window' = SubSeq(window, 1, Len(window) - 1) /\ window' \in Seq(Instruction)
      /\ Len(window') = Len(window) - 1
      /\ \A j \in 1 .. Len(window) - 1 : window'[j] = window[j]
  <2> DEFINE m == Len(window) - 1
  <2>1. m \in Int /\ m >= 0 /\ \A j \in 1 .. m : window[j] \in Instruction
    BY <1>1, <1>2
  <2>2. window' = SubSeq(window, 1, m)
    BY DEF Squash
  <2> HIDE DEF m
  <2>3. /\ window' \in Seq(Instruction) /\ Len(window') = m
        /\ \A j \in 1 .. m : window'[j] = window[j]
    BY <2>1, <2>2
  <2> QED BY <2>2, <2>3 DEF m
<1>4. DOMAIN window' = 1 .. Len(window) - 1
  BY <1>3
<1>5. \A j \in DOMAIN window' : WellFormed(window'[j])
  BY <1>1, <1>3, <1>4 DEF TypeOK
<1>6. d \in Instruction /\ WellFormed(d)
  BY <1>1, <1>2 DEF TypeOK
<1>7. /\ freelist' = freelist \o d.phys
      /\ decodeMap' = Remap(decodeMap, d.dests, d.tofree)
      /\ renameCount' = Recount(renameCount, d.dests, -1)
  BY DEF Squash
<1> HIDE DEF d
<1>8. freelist' \in Seq(Physical)
  BY <1>6, <1>7, InstructionFacts, ConcatProperties DEF TypeOK
<1>9. decodeMap' \in [Logical -> Physical]
  <2>1. /\ d.dests \in Seq(Logical) /\ Distinct(d.dests)
        /\ d.tofree \in Seq(Physical) /\ Len(d.tofree) = Len(d.dests)
    BY <1>6, InstructionFacts DEF WellFormed
  <2> QED BY <1>7, <2>1, RemapFacts DEF TypeOK
<1>10. renameCount' \in [Logical -> Int]
  <2>1. renameCount \in [Logical -> Int] /\ -1 \in Int
    BY DEF TypeOK
  <2> QED BY <1>7, <2>1, RecountType
<1>11. isReady' \in [Physical -> BOOLEAN]
  BY DEF Squash, TypeOK
<1>12. TypeOK'
  BY <1>3, <1>5, <1>8, <1>9, <1>10, <1>11 DEF Squash, TypeOK
<1> QED BY <1>1, <1>2, <1>3, <1>4, <1>7, <1>12 DEF d

LEMMA NextTypes == TypeOK /\ [Next]_vars => TypeOK'
<1> SUFFICES ASSUME TypeOK, [Next]_vars PROVE TypeOK'
  OBVIOUS
<1>1. ASSUME NEW dests \in DestLists, NEW reads \in ReadKinds, Decode(dests, reads)
      PROVE  TypeOK'
  BY <1>1, DecodeTypes
<1>2. ASSUME NEW i \in 1 .. RobSize, Schedule(i)
      PROVE  TypeOK'
  BY <1>2, ScheduleTypes
<1>3. ASSUME NEW i \in 1 .. RobSize, Complete(i)
      PROVE  TypeOK'
  BY <1>3, CompleteTypes
<1>4. ASSUME NEW i \in 1 .. RobSize, WaitForData(i)
      PROVE  TypeOK'
  BY <1>4, WaitForDataTypes
<1>5. CASE Retire
  BY <1>5, RetireTypes
<1>6. CASE Squash
  BY <1>6, SquashTypes
<1>7. CASE UNCHANGED vars
  BY <1>7 DEF TypeOK, vars
<1> QED BY <1>1, <1>2, <1>3, <1>4, <1>5, <1>6, <1>7 DEF Next

\* The types hold in every state, whatever the sizes and the operand lists.
THEOREM TypeCorrect == Spec => []TypeOK
<1>1. Init => TypeOK
  BY InitTypes
<1>2. TypeOK /\ [Next]_vars => TypeOK'
  BY NextTypes
<1> QED BY <1>1, <1>2, PTL DEF Spec

-----------------------------------------------------------------------------
(***************************************************************************)
(* The mappings follow the program order.                                  *)
(***************************************************************************)

\* What an instruction reads depends only on the older ones and the retire
\* map: a step that keeps the destinations of the n oldest keeps it too.
LEMMA PrefixProvides ==
  ASSUME NEW v, NEW w, NEW r, NEW n \in Nat,
         \A j \in 1 .. n : /\ v[j].dests = w[j].dests
                           /\ v[j].phys = w[j].phys,
         NEW i \in 1 .. n + 1, NEW l, NEW p
  PROVE  Provides(v, r, i, l, p) <=> Provides(w, r, i, l, p)
<1>1. \A j \in 1 .. i - 1 : Writes(v[j], l, p) <=> Writes(w[j], l, p)
  BY DEF Writes
<1>2. \A m \in 1 .. i : NotWritten(v, l, m, i - 1) <=> NotWritten(w, l, m, i - 1)
  BY DEF NotWritten
<1>3. 1 \in 1 .. i /\ \A j \in 1 .. i - 1 : j + 1 \in 1 .. i
  OBVIOUS
<1> QED BY <1>1, <1>2, <1>3 DEF Provides

\* Place i + 1 is served by the youngest of the i oldest, or as place i.
LEMMA NextPlaceProvides ==
  ASSUME NEW w, NEW r, NEW i \in Nat, i >= 1, NEW l, NEW p
  PROVE  /\ Writes(w[i], l, p) => Provides(w, r, i + 1, l, p)
         /\ l \notin Range(w[i].dests) =>
               (Provides(w, r, i + 1, l, p) <=> Provides(w, r, i, l, p))
<1>1. Writes(w[i], l, p) => Provides(w, r, i + 1, l, p)
  <2>1. NotWritten(w, l, i + 1, (i + 1) - 1)
    BY DEF NotWritten
  <2> QED BY <2>1 DEF Provides
<1>2. ASSUME l \notin Range(w[i].dests)
      PROVE  Provides(w, r, i + 1, l, p) <=> Provides(w, r, i, l, p)
  <2>1. (i + 1) - 1 = i
    OBVIOUS
  <2>2. \A m \in 1 .. i : NotWritten(w, l, m, i) <=> NotWritten(w, l, m, i - 1)
    BY <1>2 DEF NotWritten
  <2>3. ~Writes(w[i], l, p)
    BY <1>2 DEF Writes, Range
  <2>4. \A j \in 1 .. i : j # i => j \in 1 .. i - 1 /\ j + 1 \in 1 .. i
    OBVIOUS
  <2>5. \A j \in 1 .. i - 1 : j \in 1 .. i /\ j + 1 \in 1 .. i
    OBVIOUS
  <2> QED BY <2>1, <2>2, <2>3, <2>4, <2>5 DEF Provides
<1> QED BY <1>1, <1>2

\* Retirement moves every instruction down one place without changing what it
\* reads: the head's registers are the architected ones from then on.
LEMMA RetireProvides ==
  ASSUME TypeOK, Retire, NEW i \in 1 .. Len(window), NEW l \in Logical, NEW p,
         Provides(window, retireMap, i + 1, l, p)
  PROVE  Provides(window', retireMap', i, l, p)
<1> DEFINE d == window[1]
<1>1. /\ Len(window) \in Nat \ {0} /\ DOMAIN window = 1 .. Len(window)
      /\ \A j \in 1 .. Len(window) - 1 : window'[j] = window[j + 1]
      /\ retireMap' = Remap(retireMap, d.dests, d.phys)
  BY RetireTypes
<1>2. d \in Instruction /\ WellFormed(d)
  <2>1. 1 \in DOMAIN window /\ window \in [1 .. Len(window) -> Instruction]
    BY <1>1, LenProperties DEF TypeOK
  <2> QED BY <2>1 DEF TypeOK
<1>3. /\ \A k \in DOMAIN d.dests : retireMap'[d.dests[k]] = d.phys[k]
      /\ l \notin Range(d.dests) => retireMap'[l] = retireMap[l]
  <2>1. /\ d.dests \in Seq(Logical) /\ Distinct(d.dests)
        /\ d.phys \in Seq(Physical) /\ Len(d.phys) = Len(d.dests)
    BY <1>2, InstructionFacts DEF WellFormed
  <2>2. retireMap \in [Logical -> Physical]
    BY DEF TypeOK
  <2> HIDE DEF d
  <2> QED BY <1>1, <2>1, <2>2, RemapFacts
<1>4. \A j \in 1 .. i - 1 : Writes(window'[j], l, p) <=> Writes(window[j + 1], l, p)
  BY <1>1 DEF Writes
<1>5. \A m \in 1 .. i : NotWritten(window, l, m + 1, i) => NotWritten(window', l, m, i - 1)
  <2> SUFFICES ASSUME NEW m \in 1 .. i, NotWritten(window, l, m + 1, i), NEW j \in m .. i - 1
               PROVE  l \notin Range(window'[j].dests)
    BY DEF NotWritten
  <2>1. j + 1 \in m + 1 .. i /\ window'[j] = window[j + 1]
    BY <1>1
  <2> QED BY <2>1 DEF NotWritten
<1>6. (i + 1) - 1 = i
  OBVIOUS
<1>7. CASE p = retireMap[l] /\ NotWritten(window, l, 1, i)
  <2>1. l \notin Range(d.dests) /\ NotWritten(window, l, 1 + 1, i)
    BY <1>7 DEF NotWritten
  <2>2. NotWritten(window', l, 1, i - 1) /\ p = retireMap'[l]
    BY <1>3, <1>5, <1>7, <2>1
  <2> QED BY <2>2 DEF Provides
<1>8. CASE \E j \in 1 .. i : Writes(window[j], l, p) /\ NotWritten(window, l, j + 1, i)
  <2>1. PICK j \in 1 .. i : Writes(window[j], l, p) /\ NotWritten(window, l, j + 1, i)
    BY <1>8
  <2>2. CASE j = 1
    <3>1. retireMap'[l] = p
      BY <1>3, <2>1, <2>2 DEF Writes
    <3>2. NotWritten(window', l, 1, i - 1)
      BY <1>5, <2>1, <2>2
    <3> QED BY <3>1, <3>2 DEF Provides
  <2>3. CASE j # 1
    <3>1. j - 1 \in 1 .. i - 1 /\ (j - 1) + 1 = j /\ j \in 1 .. i
      BY <2>3
    <3>2. Writes(window'[j - 1], l, p)
      BY <1>4, <2>1, <3>1
    <3>3. NotWritten(window', l, (j - 1) + 1, i - 1)
      BY <1>5, <2>1, <3>1
    <3> QED BY <3>1, <3>2, <3>3 DEF Provides
  <2> QED BY <2>2, <2>3
<1> QED BY <1>6, <1>7, <1>8 DEF Provides

\* A step that keeps the operands of every instruction and the two maps.
LEMMA SameOperandsOrder ==
  ASSUME TypeOK, ProgramOrderMaps,
         retireMap' = retireMap, decodeMap' = decodeMap,
         Len(window') = Len(window), DOMAIN window' = DOMAIN window,
         \A j \in DOMAIN window :
            /\ window'[j].dests = window[j].dests /\ window'[j].phys = window[j].phys
            /\ window'[j].tofree = window[j].tofree
            /\ window'[j].sources = window[j].sources
            /\ window'[j].srcPhys = window[j].srcPhys
  PROVE  ProgramOrderMaps'
<1>1. Len(window) \in Nat /\ DOMAIN window = 1 .. Len(window)
  BY LenProperties DEF TypeOK
<1>2. \A i \in 1 .. Len(window) + 1 : \A l, p :
         Provides(window, retireMap, i, l, p) => Provides(window', retireMap', i, l, p)
  BY <1>1, PrefixProvides
<1>3. \A i \in DOMAIN window : i \in 1 .. Len(window) + 1
  BY <1>1
<1>4. Len(window) + 1 \in 1 .. Len(window) + 1
  BY <1>1
<1> QED BY <1>2, <1>3, <1>4 DEF ProgramOrderMaps

LEMMA DecodeOrder ==
  ASSUME TypeOK, ProgramOrderMaps, NEW dests \in DestLists, NEW reads \in ReadKinds,
         Decode(dests, reads)
  PROVE  ProgramOrderMaps'
<1> DEFINE n == Len(window)
<1>1. /\ window \in Seq(Instruction) /\ n \in Nat /\ DOMAIN window = 1 .. n
      /\ retireMap' = retireMap
  BY LenProperties DEF TypeOK, Decode
<1>2. /\ DOMAIN window' = 1 .. n + 1 /\ Len(window') = n + 1
      /\ \A j \in 1 .. n : window'[j] = window[j]
      /\ window'[n + 1].dests = dests
      /\ window'[n + 1].phys = Popped(Len(dests))
      /\ window'[n + 1].tofree = [k \in DOMAIN dests |-> decodeMap[dests[k]]]
      /\ window'[n + 1].sources = reads.sources
      /\ window'[n + 1].srcPhys = [k \in DOMAIN reads.sources |-> decodeMap[reads.sources[k]]]
  BY <1>1 DEF Decode
<1>3. /\ dests \in Seq(Logical) /\ Distinct(dests) /\ DOMAIN dests = 1 .. Len(dests)
      /\ \A k \in DOMAIN dests : dests[k] \in Logical
      /\ \A k \in DOMAIN reads.sources : reads.sources[k] \in Logical
      /\ Popped(Len(dests)) \in Seq(Physical) /\ Len(Popped(Len(dests))) = Len(dests)
      /\ DOMAIN Popped(Len(dests)) = DOMAIN dests
  <2>1. Len(dests) \in Nat /\ Len(dests) <= Len(freelist)
    BY DecodeTypes
  <2> QED BY <2>1, PoppedFacts, ListsAssumption, LenProperties DEF TypeOK
<1>4. /\ decodeMap' = Remap(decodeMap, dests, Popped(Len(dests)))
      /\ decodeMap \in [Logical -> Physical]
  BY DEF Decode, TypeOK
<1> HIDE DEF n
<1>5. \A i \in 1 .. n + 1 : \A l, p :
         Provides(window', retireMap', i, l, p) <=> Provides(window, retireMap, i, l, p)
  BY <1>1, <1>2, PrefixProvides
<1>6. \A l \in Logical : Provides(window', retireMap', n + 1, l, decodeMap[l])
  <2>1. n + 1 \in 1 .. n + 1 /\ n = Len(window)
    BY <1>1 DEF n
  <2> QED BY <1>5, <2>1 DEF ProgramOrderMaps
<1>7. ASSUME NEW l \in Logical
      PROVE  Provides(window', retireMap', n + 2, l, decodeMap'[l])
  <2>1. n + 1 \in Nat /\ n + 1 >= 1 /\ (n + 1) + 1 = n + 2
    BY <1>1
  <2>2. CASE l \in Range(dests)
    <3>1. PICK k \in DOMAIN dests : dests[k] = l
      BY <2>2 DEF Range
    <3>2. decodeMap'[l] = Popped(Len(dests))[k]
      BY <1>3, <1>4, <3>1, RemapFacts
    <3>3. Writes(window'[n + 1], l, decodeMap'[l])
      BY <1>2, <3>1, <3>2 DEF Writes
    <3> QED BY <2>1, <3>3, NextPlaceProvides
  <2>3. CASE l \notin Range(dests)
    <3>1. decodeMap'[l] = decodeMap[l]
      BY <1>3, <1>4, <2>3, RemapFacts
    <3>2. l \notin Range(window'[n + 1].dests)
      BY <1>2, <2>3
    <3> QED BY <1>6, <2>1, <3>1, <3>2, NextPlaceProvides
  <2> QED BY <2>2, <2>3
<1>8. \A i \in 1 .. n :
         /\ \A k \in DOMAIN window'[i].dests :
               Provides(window', retireMap', i, window'[i].dests[k], window'[i].tofree[k])
         /\ \A k \in DOMAIN window'[i].sources :
               Provides(window', retireMap', i, window'[i].sources[k], window'[i].srcPhys[k])
  <2>1. \A i \in 1 .. n : i \in 1 .. n + 1 /\ i \in DOMAIN window
    BY <1>1 DEF n
  <2> QED BY <1>2, <1>5, <2>1 DEF ProgramOrderMaps
<1>9. /\ \A k \in DOMAIN window'[n + 1].dests :
            Provides(window', retireMap', n + 1,
                     window'[n + 1].dests[k], window'[n + 1].tofree[k])
      /\ \A k \in DOMAIN window'[n + 1].sources :
            Provides(window', retireMap', n + 1,
                     window'[n + 1].sources[k], window'[n + 1].srcPhys[k])
  BY <1>2, <1>3, <1>6
<1>10. \A i \in 1 .. n + 1 : i \in 1 .. n \/ i = n + 1
  BY <1>1
<1>11. Len(window') + 1 = n + 2
  BY <1>1, <1>2
<1> QED BY <1>2, <1>7, <1>8, <1>9, <1>10, <1>11 DEF ProgramOrderMaps

LEMMA RetireOrder ==
  ASSUME TypeOK, ProgramOrderMaps, Retire
  PROVE  ProgramOrderMaps'
<1>1. /\ Len(window) \in Nat \ {0} /\ DOMAIN window = 1 .. Len(window)
      /\ Len(window') = Len(window) - 1 /\ DOMAIN window' = 1 .. Len(window) - 1
      /\ \A j \in DOMAIN window' : window'[j] = window[j + 1]
      /\ decodeMap' = decodeMap /\ TypeOK'
  BY RetireTypes DEF Retire
<1>2. \A l \in Logical : Provides(window', retireMap', Len(window') + 1, l, decodeMap'[l])
  <2>1. Len(window') + 1 = Len(window) /\ Len(window) \in 1 .. Len(window)
    BY <1>1
  <2>2. \A l \in Logical : Provides(window, retireMap, Len(window) + 1, l, decodeMap[l])
    BY DEF ProgramOrderMaps
  <2>3. \A l \in Logical : Provides(window', retireMap', Len(window), l, decodeMap[l])
    BY <2>1, <2>2, RetireProvides
  <2> QED BY <1>1, <2>1, <2>3
<1>3. ASSUME NEW i \in DOMAIN window'
      PROVE  /\ \A k \in DOMAIN window'[i].dests :
                   Provides(window', retireMap', i, window'[i].dests[k], window'[i].tofree[k])
             /\ \A k \in DOMAIN window'[i].sources :
                   Provides(window', retireMap', i,
                            window'[i].sources[k], window'[i].srcPhys[k])
  <2>1. i \in 1 .. Len(window) /\ i + 1 \in DOMAIN window /\ window'[i] = window[i + 1]
    BY <1>1
  <2>2. window'[i] \in Instruction /\ WellFormed(window'[i])
    <3>1. window' \in Seq(Instruction) /\ WellFormed(window'[i])
      BY <1>1 DEF TypeOK
    <3> QED BY <1>1, <3>1, ElementOfSeq
  <2>3. /\ \A k \in DOMAIN window'[i].dests : window'[i].dests[k] \in Logical
        /\ \A k \in DOMAIN window'[i].sources : window'[i].sources[k] \in Logical
    BY <2>2, InstructionFacts
  <2>4. /\ \A k \in DOMAIN window'[i].dests :
              Provides(window, retireMap, i + 1, window'[i].dests[k], window'[i].tofree[k])
        /\ \A k \in DOMAIN window'[i].sources :
              Provides(window, retireMap, i + 1, window'[i].sources[k], window'[i].srcPhys[k])
    BY <2>1 DEF ProgramOrderMaps
  <2> QED BY <2>1, <2>3, <2>4, RetireProvides
<1> QED BY <1>2, <1>3 DEF ProgramOrderMaps

LEMMA SquashOrder ==
  ASSUME TypeOK, ProgramOrderMaps, Squash
  PROVE  ProgramOrderMaps'
<1> DEFINE n == Len(window)
           d == window[n]
<1>1. /\ n \in Nat \ {0} /\ DOMAIN window = 1 .. n
      /\ Len(window') = n - 1 /\ DOMAIN window' = 1 .. n - 1
      /\ \A j \in DOMAIN window' : window'[j] = window[j]
      /\ decodeMap' = Remap(decodeMap, d.dests, d.tofree)
      /\ retireMap' = retireMap
  BY SquashTypes DEF Squash
<1>2. d \in Instruction /\ WellFormed(d)
  <2>1. n \in DOMAIN window /\ window \in Seq(Instruction)
    BY <1>1 DEF TypeOK
  <2> QED BY <1>1, <2>1, ElementOfSeq DEF TypeOK
<1>3. \A i \in 1 .. n : \A l, p :
         Provides(window', retireMap', i, l, p) <=> Provides(window, retireMap, i, l, p)
  <2>1. n - 1 \in Nat /\ (n - 1) + 1 = n
    BY <1>1
  <2>2. \A i \in 1 .. (n - 1) + 1 : \A l, p :
         Provides(window', retireMap', i, l, p) <=> Provides(window, retireMap, i, l, p)
    BY <1>1, <2>1, PrefixProvides
  <2> QED BY <2>1, <2>2
<1>4. /\ d.dests \in Seq(Logical) /\ Distinct(d.dests)
      /\ d.tofree \in Seq(Physical) /\ Len(d.tofree) = Len(d.dests)
      /\ DOMAIN d.tofree = DOMAIN d.dests
      /\ decodeMap \in [Logical -> Physical]
  BY <1>2, InstructionFacts DEF WellFormed, TypeOK
<1>5. /\ n >= 1 /\ n \in Nat /\ n \in 1 .. n /\ n \in DOMAIN window /\ (n - 1) + 1 = n
      /\ \A i \in 1 .. n - 1 : i \in 1 .. n /\ i \in DOMAIN window
  BY <1>1
<1>6. \A k \in DOMAIN d.dests : Provides(window, retireMap, n, d.dests[k], d.tofree[k])
  BY <1>5 DEF ProgramOrderMaps
<1>7. \A l \in Logical : Provides(window, retireMap, n + 1, l, decodeMap[l])
  BY DEF ProgramOrderMaps
<1>8. ASSUME NEW l \in Logical
      PROVE  Provides(window', retireMap', n, l, decodeMap'[l])
  <2>1. CASE l \in Range(d.dests)
    <3>1. PICK k \in DOMAIN d.dests : d.dests[k] = l
      BY <2>1 DEF Range
    <3> HIDE DEF d
    <3>2. decodeMap'[l] = d.tofree[k]
      BY <1>1, <1>4, <3>1, RemapFacts
    <3> QED BY <1>3, <1>5, <1>6, <3>1, <3>2
  <2>2. CASE l \notin Range(d.dests)
    <3>1. Provides(window, retireMap, n, l, decodeMap[l])
      BY <1>5, <1>7, <2>2, NextPlaceProvides
    <3> HIDE DEF d
    <3>2. decodeMap'[l] = decodeMap[l]
      BY <1>1, <1>4, <2>2, RemapFacts
    <3> QED BY <1>3, <1>5, <3>1, <3>2
  <2> QED BY <2>1, <2>2
<1>9. \A i \in DOMAIN window' :
         /\ \A k \in DOMAIN window'[i].dests :
               Provides(window', retireMap', i, window'[i].dests[k], window'[i].tofree[k])
         /\ \A k \in DOMAIN window'[i].sources :
               Provides(window', retireMap', i, window'[i].sources[k], window'[i].srcPhys[k])
  BY <1>1, <1>3, <1>5 DEF ProgramOrderMaps
<1>10. Len(window') + 1 = n
  BY <1>1
<1> QED BY <1>8, <1>9, <1>10 DEF ProgramOrderMaps

-----------------------------------------------------------------------------
(***************************************************************************)
(* Every physical register has one owner.  A step that frees registers     *)
(* appends them to the free list: the list stays without repetition when   *)
(* what is appended has none and shares nothing with it.                   *)
(***************************************************************************)

LEMMA ConcatDistinct ==
  ASSUME NEW s \in Seq(Physical), NEW t \in Seq(Physical),
         Distinct(s), Distinct(t), \A k \in DOMAIN t : t[k] \notin Range(s)
  PROVE  /\ Distinct(s \o t)
         /\ \A p : p \in Range(s \o t) <=> p \in Range(s) \/ p \in Range(t)
<1>1. /\ Len(s) \in Nat /\ DOMAIN s = 1 .. Len(s)
      /\ Len(t) \in Nat /\ DOMAIN t = 1 .. Len(t)
  BY LenProperties
<1>2. /\ DOMAIN (s \o t) = 1 .. Len(s) + Len(t)
      /\ \A i \in 1 .. Len(s) : (s \o t)[i] = s[i]
      /\ \A i \in Len(s) + 1 .. Len(s) + Len(t) : (s \o t)[i] = t[i - Len(s)]
  BY <1>1, ConcatProperties, LenProperties
<1>3. \A i \in 1 .. Len(s) + Len(t) :
         \/ i \in 1 .. Len(s)
         \/ i \in Len(s) + 1 .. Len(s) + Len(t) /\ i - Len(s) \in 1 .. Len(t)
  BY <1>1
<1>4. \A i \in 1 .. Len(s), j \in 1 .. Len(t) : s[i] # t[j]
  BY <1>1 DEF Range
<1>5. Distinct(s \o t)
  <2> SUFFICES ASSUME NEW i \in 1 .. Len(s) + Len(t), NEW j \in 1 .. Len(s) + Len(t),
                      (s \o t)[i] = (s \o t)[j]
               PROVE  i = j
    BY <1>2 DEF Distinct
  <2>1. CASE i \in 1 .. Len(s) /\ j \in 1 .. Len(s)
    BY <1>1, <1>2, <2>1 DEF Distinct
  <2>2. CASE ~(i \in 1 .. Len(s)) /\ ~(j \in 1 .. Len(s))
    <3>1. t[i - Len(s)] = t[j - Len(s)] /\ i - Len(s) \in 1 .. Len(t) /\ j - Len(s) \in 1 .. Len(t)
      BY <1>2, <1>3, <2>2
    <3>2. i - Len(s) = j - Len(s)
      BY <1>1, <3>1 DEF Distinct
    <3> QED BY <1>1, <3>2
  <2>3. CASE (i \in 1 .. Len(s)) # (j \in 1 .. Len(s))
    BY <1>2, <1>3, <1>4, <2>3
  <2> QED BY <2>1, <2>2, <2>3
<1>6. \A p : p \in Range(s \o t) => p \in Range(s) \/ p \in Range(t)
  <2> SUFFICES ASSUME NEW i \in 1 .. Len(s) + Len(t)
               PROVE  (s \o t)[i] \in Range(s) \/ (s \o t)[i] \in Range(t)
    BY <1>2 DEF Range
  <2> QED BY <1>1, <1>2, <1>3 DEF Range
<1>7. \A i \in 1 .. Len(s) : s[i] \in Range(s \o t)
  <2>1. \A i \in 1 .. Len(s) : i \in 1 .. Len(s) + Len(t)
    BY <1>1
  <2> QED BY <1>2, <2>1 DEF Range
<1>8. \A i \in 1 .. Len(t) : t[i] \in Range(s \o t)
  <2> TAKE i \in 1 .. Len(t)
  <2>1. i + Len(s) \in Len(s) + 1 .. Len(s) + Len(t) /\ (i + Len(s)) - Len(s) = i
        /\ i + Len(s) \in 1 .. Len(s) + Len(t)
    BY <1>1
  <2>2. (s \o t)[i + Len(s)] = t[i]
    BY <1>2, <2>1
  <2> QED BY <1>2, <2>1, <2>2 DEF Range
<1>9. \A p : p \in Range(s) \/ p \in Range(t) => p \in Range(s \o t)
  BY <1>1, <1>7, <1>8 DEF Range
<1> QED BY <1>5, <1>6, <1>9

\* A step that keeps the free list, the retire map and every destination.
LEMMA SameDestsOwners ==
  ASSUME NoRegisterLeak, freelist' = freelist, retireMap' = retireMap,
         DOMAIN window' = DOMAIN window,
         \A j \in DOMAIN window : window'[j].phys = window[j].phys
  PROVE  NoRegisterLeak'
<1>1. \A p : InFlight(window', p) <=> InFlight(window, p)
  BY DEF InFlight
<1> QED BY <1>1 DEF NoRegisterLeak

LEMMA InitOwners == Init => NoRegisterLeak
<1> SUFFICES ASSUME Init PROVE NoRegisterLeak
  OBVIOUS
<1> DEFINE f == NumPhysical - NumLogical
<1>1. /\ f \in Nat /\ NumLogical \in Nat /\ NumPhysical = f + NumLogical
      /\ freelist = [k \in 1 .. f |-> k - 1] /\ DOMAIN freelist = 1 .. f
      /\ retireMap = [l \in Logical |-> NumPhysical - l] /\ DOMAIN retireMap = Logical
  BY CountsAssumption DEF Init
<1>2. \A p : ~InFlight(window, p)
  BY DEF Init, InFlight
<1>3. \A i, j \in DOMAIN window : FALSE
  BY DEF Init
<1> HIDE DEF f
<1>4. Distinct(freelist) /\ Distinct(retireMap)
  BY <1>1 DEF Distinct, Logical
<1>5. \A k \in DOMAIN freelist : freelist[k] \notin Range(retireMap)
  BY <1>1 DEF Range, Logical
<1>6. ASSUME NEW p \in Physical
      PROVE  p \in Range(freelist) \/ p \in Range(retireMap)
  <2>1. p \in Int /\ p >= 0 /\ p <= NumPhysical - 1
    BY CountsAssumption DEF Physical
  <2>2. CASE p < f
    <3>1. p + 1 \in 1 .. f /\ freelist[p + 1] = p
      BY <1>1, <2>1, <2>2
    <3> QED BY <1>1, <3>1 DEF Range
  <2>3. CASE p >= f
    <3>1. NumPhysical - p \in Logical /\ retireMap[NumPhysical - p] = p
      BY <1>1, <2>1, <2>3 DEF Logical
    <3> QED BY <1>1, <3>1 DEF Range
  <2> QED BY <1>1, <2>1, <2>2, <2>3
<1> QED BY <1>2, <1>3, <1>4, <1>5, <1>6 DEF NoRegisterLeak

LEMMA DecodeOwners ==
  ASSUME TypeOK, NoRegisterLeak, NEW dests \in DestLists, NEW reads \in ReadKinds,
         Decode(dests, reads)
  PROVE  NoRegisterLeak'
<1> DEFINE n == Len(window)
           f == Len(freelist)
           m == Len(dests)
<1>1. /\ n \in Nat /\ f \in Nat /\ m \in Nat /\ m <= f
      /\ DOMAIN window = 1 .. n /\ DOMAIN freelist = 1 .. f
      /\ freelist \in Seq(Physical) /\ window \in Seq(Instruction)
      /\ retireMap' = retireMap
  BY DecodeTypes, LenProperties DEF TypeOK, Decode
<1>2. /\ DOMAIN window' = 1 .. n + 1
      /\ \A j \in 1 .. n : window'[j] = window[j]
      /\ window'[n + 1].phys = Popped(m)
  BY <1>1 DEF Decode
<1>3. /\ DOMAIN Popped(m) = 1 .. m
      /\ \A k \in 1 .. m : Popped(m)[k] = freelist[f - k + 1]
  BY DEF Popped
<1>4. /\ DOMAIN freelist' = 1 .. f - m
      /\ \A k \in 1 .. f - m : freelist'[k] = freelist[k]
  <2>1. freelist' = SubSeq(freelist, 1, f - m)
    BY DEF Decode
  <2>2. /\ SubSeq(freelist, 1, f - m) \in Seq(Physical)
        /\ Len(SubSeq(freelist, 1, f - m)) = f - m
        /\ \A k \in 1 .. f - m : SubSeq(freelist, 1, f - m)[k] = freelist[k]
    BY <1>1, PoppedFacts
  <2> QED BY <2>1, <2>2, LenProperties
<1> HIDE DEF n, f, m
<1>5. \A k \in 1 .. m : f - k + 1 \in 1 .. f /\ f - k + 1 > f - m
  BY <1>1
<1>6. \A k \in 1 .. f - m : k \in 1 .. f
  BY <1>1
<1>7. \A p : InFlight(window', p) <=> InFlight(window, p) \/ p \in Range(Popped(m))
  <2>1. \A j : j \in DOMAIN window' <=> j \in DOMAIN window \/ j = n + 1
    BY <1>1, <1>2
  <2> QED BY <1>1, <1>2, <2>1 DEF InFlight
<1>8. \A j, k \in 1 .. f : freelist[j] = freelist[k] => j = k
  BY <1>1 DEF NoRegisterLeak, Distinct
<1>9. Distinct(freelist)'
  BY <1>4, <1>6, <1>8 DEF Distinct
<1>10. Distinct(retireMap)'
  BY <1>1 DEF NoRegisterLeak
<1>11. \A k \in 1 .. f : freelist[k] \notin Range(retireMap) /\ ~InFlight(window, freelist[k])
  BY <1>1 DEF NoRegisterLeak
<1>12. ASSUME NEW i \in DOMAIN window', NEW j \in DOMAIN window',
              NEW a \in DOMAIN window'[i].phys, NEW b \in DOMAIN window'[j].phys,
              window'[i].phys[a] = window'[j].phys[b]
       PROVE  i = j /\ a = b
  <2>1. (i \in DOMAIN window \/ i = n + 1) /\ (j \in DOMAIN window \/ j = n + 1)
    BY <1>1, <1>2
  <2>2. CASE i \in DOMAIN window /\ j \in DOMAIN window
    BY <1>1, <1>2, <1>12, <2>2 DEF NoRegisterLeak
  <2>3. CASE i = n + 1 /\ j = n + 1
    <3>1. a \in 1 .. m /\ b \in 1 .. m /\ Popped(m)[a] = Popped(m)[b]
      BY <1>2, <1>3, <1>12, <2>3
    <3>2. f - a + 1 = f - b + 1
      BY <1>3, <1>5, <1>8, <3>1
    <3>3. a = b
      BY <1>1, <3>1, <3>2
    <3> QED BY <2>3, <3>3
  <2>4. CASE i \in DOMAIN window /\ j = n + 1
    <3>1. InFlight(window, window[i].phys[a])
      BY <1>1, <1>2, <2>4 DEF InFlight, Range
    <3>2. window[i].phys[a] = freelist[f - b + 1]
      BY <1>1, <1>2, <1>3, <1>12, <2>4
    <3>3. f - b + 1 \in 1 .. f
      BY <1>2, <1>3, <1>5, <2>4
    <3> QED BY <1>11, <3>1, <3>2, <3>3
  <2>5. CASE i = n + 1 /\ j \in DOMAIN window
    <3>1. InFlight(window, window[j].phys[b])
      BY <1>1, <1>2, <2>5 DEF InFlight, Range
    <3>2. window[j].phys[b] = freelist[f - a + 1]
      BY <1>1, <1>2, <1>3, <1>12, <2>5
    <3>3. f - a + 1 \in 1 .. f
      BY <1>2, <1>3, <1>5, <2>5
    <3> QED BY <1>11, <3>1, <3>2, <3>3
  <2> QED BY <2>1, <2>2, <2>3, <2>4, <2>5
<1>13. ASSUME NEW k \in DOMAIN freelist'
       PROVE  freelist'[k] \notin Range(retireMap') /\ ~InFlight(window', freelist'[k])
  <2>1. k \in 1 .. f /\ freelist'[k] = freelist[k] /\ k <= f - m
    BY <1>1, <1>4, <1>6
  <2>2. freelist[k] \notin Range(Popped(m))
    BY <1>1, <1>3, <1>5, <1>8, <2>1 DEF Range
  <2>3. ~InFlight(window, freelist[k]) /\ freelist[k] \notin Range(retireMap)
    BY <1>11, <2>1
  <2> QED BY <1>1, <1>7, <2>1, <2>2, <2>3
<1>14. \A l \in Logical : retireMap[l] \notin Range(Popped(m))
  <2>1. \A l \in Logical : retireMap[l] \in Range(retireMap)
    BY DEF Range, TypeOK
  <2> QED BY <1>3, <1>5, <1>11, <2>1 DEF Range
<1>15. \A l \in Logical : ~InFlight(window', retireMap'[l])
  BY <1>1, <1>7, <1>14 DEF NoRegisterLeak, InFlight
<1>16. ASSUME NEW p \in Physical, p \in Range(freelist)
       PROVE  p \in Range(freelist') \/ p \in Range(Popped(m))
  <2>1. PICK k \in 1 .. f : freelist[k] = p
    BY <1>1, <1>16 DEF Range
  <2>2. CASE k <= f - m
    BY <1>1, <1>4, <2>1, <2>2 DEF Range
  <2>3. CASE k > f - m
    <3>1. f - k + 1 \in 1 .. m /\ f - (f - k + 1) + 1 = k
      BY <1>1, <2>1, <2>3
    <3> QED BY <1>3, <2>1, <3>1 DEF Range
  <2> QED BY <1>1, <2>2, <2>3
<1>17. \A p \in Physical : p \in Range(freelist') \/ p \in Range(retireMap') \/ InFlight(window', p)
  BY <1>1, <1>7, <1>16 DEF NoRegisterLeak
<1> QED BY <1>9, <1>10, <1>12, <1>13, <1>15, <1>17 DEF NoRegisterLeak

LEMMA RetireOwners ==
  ASSUME TypeOK, NoRegisterLeak, ProgramOrderMaps, Retire
  PROVE  NoRegisterLeak'
<1> DEFINE n == Len(window)
           d == window[1]
<1>1. /\ n \in Nat \ {0} /\ DOMAIN window = 1 .. n
      /\ DOMAIN window' = 1 .. n - 1
      /\ \A j \in 1 .. n - 1 : window'[j] = window[j + 1]
      /\ freelist' = freelist \o d.tofree
      /\ retireMap' = Remap(retireMap, d.dests, d.phys)
      /\ retireMap' \in [Logical -> Physical]
  BY RetireTypes DEF TypeOK
<1>2. d \in Instruction /\ WellFormed(d) /\ 1 \in DOMAIN window
  <2>1. 1 \in DOMAIN window /\ window \in Seq(Instruction)
    BY <1>1 DEF TypeOK
  <2> QED BY <1>1, <2>1, ElementOfSeq DEF TypeOK
<1>3. \A k \in DOMAIN d.dests : d.tofree[k] = retireMap[d.dests[k]]
  <2>1. \A k \in DOMAIN d.dests : Provides(window, retireMap, 1, d.dests[k], d.tofree[k])
    BY <1>2 DEF ProgramOrderMaps
  <2>2. \A j \in 1 .. 1 - 1 : FALSE
    OBVIOUS
  <2> HIDE DEF d
  <2> QED BY <2>1, <2>2 DEF Provides
<1>4. \A p : p \in Range(d.phys) => InFlight(window, p)
  BY <1>2 DEF InFlight
<1> HIDE DEF d
<1>5. /\ d.dests \in Seq(Logical) /\ Distinct(d.dests) /\ DOMAIN d.tofree = DOMAIN d.dests
      /\ d.phys \in Seq(Physical) /\ Len(d.phys) = Len(d.dests)
      /\ DOMAIN d.phys = DOMAIN d.dests /\ d.tofree \in Seq(Physical)
      /\ \A k \in DOMAIN d.dests : d.dests[k] \in Logical
      /\ retireMap \in [Logical -> Physical] /\ freelist \in Seq(Physical)
  BY <1>2, InstructionFacts DEF WellFormed, TypeOK
<1>6. /\ \A k \in DOMAIN d.dests : retireMap'[d.dests[k]] = d.phys[k]
      /\ \A l \in Logical \ Range(d.dests) : retireMap'[l] = retireMap[l]
  BY <1>1, <1>5, RemapFacts
<1>7. \A l, m \in Logical : retireMap[l] = retireMap[m] => l = m
  BY <1>5 DEF NoRegisterLeak, Distinct
<1>8. /\ \A p : p \in Range(freelist) => p \notin Range(retireMap) /\ ~InFlight(window, p)
      /\ \A l \in Logical : retireMap[l] \in Range(retireMap) /\ ~InFlight(window, retireMap[l])
  BY <1>5 DEF NoRegisterLeak, Range
<1>9. /\ Distinct(freelist')
      /\ \A p : p \in Range(freelist') <=> p \in Range(freelist) \/ p \in Range(d.tofree)
  <2>1. Distinct(d.tofree)
    BY <1>3, <1>5, <1>7 DEF Distinct
  <2>2. \A k \in DOMAIN d.tofree : d.tofree[k] \notin Range(freelist)
    BY <1>3, <1>5, <1>8
  <2>3. Distinct(freelist)
    BY DEF NoRegisterLeak
  <2> QED BY <1>1, <1>5, <2>1, <2>2, <2>3, ConcatDistinct
<1>19. \A p : p \in Range(d.tofree) <=> \E k \in DOMAIN d.dests : p = retireMap[d.dests[k]]
  BY <1>3, <1>5 DEF Range
<1>10. \A p : InFlight(window', p) => InFlight(window, p)
  <2>1. \A j \in DOMAIN window' : j + 1 \in DOMAIN window /\ window'[j] = window[j + 1]
    BY <1>1
  <2> QED BY <2>1 DEF InFlight
<1>11. \A p : p \in Range(d.phys) => ~InFlight(window', p)
  <2> SUFFICES ASSUME NEW k \in DOMAIN d.phys, NEW j \in DOMAIN window',
                      NEW m \in DOMAIN window'[j].phys, window'[j].phys[m] = d.phys[k]
               PROVE  FALSE
    BY DEF InFlight, Range
  <2>1. j + 1 \in DOMAIN window /\ j + 1 # 1 /\ window'[j] = window[j + 1]
    BY <1>1
  <2>2. \A i \in DOMAIN window : \A a \in DOMAIN window[1].phys, b \in DOMAIN window[i].phys :
           window[1].phys[a] = window[i].phys[b] => 1 = i
    BY <1>2 DEF NoRegisterLeak
  <2> QED BY <2>1, <2>2 DEF d
<1>12. \A p : InFlight(window, p) => p \in Range(d.phys) \/ InFlight(window', p)
  <2> SUFFICES ASSUME NEW j \in DOMAIN window, j # 1
               PROVE  j - 1 \in DOMAIN window' /\ window'[j - 1] = window[j]
    BY DEF InFlight, d
  <2>1. j - 1 \in 1 .. n - 1 /\ (j - 1) + 1 = j
    BY <1>1
  <2> QED BY <1>1, <2>1
<1>13. Distinct(retireMap')
  <2> SUFFICES ASSUME NEW l \in Logical, NEW m \in Logical, retireMap'[l] = retireMap'[m]
               PROVE  l = m
    BY <1>1 DEF Distinct
  <2>1. CASE l \in Range(d.dests) /\ m \in Range(d.dests)
    <3>1. PICK a \in DOMAIN d.dests : d.dests[a] = l
      BY <2>1 DEF Range
    <3>2. PICK b \in DOMAIN d.dests : d.dests[b] = m
      BY <2>1 DEF Range
    <3>3. d.phys[a] = d.phys[b]
      BY <1>6, <3>1, <3>2
    <3>4. \A i, j \in DOMAIN window[1].phys : window[1].phys[i] = window[1].phys[j] => i = j
      BY <1>2 DEF NoRegisterLeak
    <3> QED BY <1>5, <3>1, <3>2, <3>3, <3>4 DEF d
  <2>2. CASE l \notin Range(d.dests) /\ m \notin Range(d.dests)
    BY <1>6, <1>7, <2>2
  <2>3. \A i, j \in Logical : i \in Range(d.dests) /\ j \notin Range(d.dests)
                             => retireMap'[i] # retireMap'[j]
    <3> SUFFICES ASSUME NEW a \in DOMAIN d.dests, NEW j \in Logical, j \notin Range(d.dests)
                 PROVE  retireMap'[d.dests[a]] # retireMap'[j]
      BY DEF Range
    <3>1. InFlight(window, d.phys[a])
      BY <1>4, <1>5 DEF Range
    <3> QED BY <1>6, <1>8, <3>1
  <2> QED BY <2>1, <2>2, <2>3
<1>14. ASSUME NEW i \in DOMAIN window', NEW j \in DOMAIN window',
              NEW a \in DOMAIN window'[i].phys, NEW b \in DOMAIN window'[j].phys,
              window'[i].phys[a] = window'[j].phys[b]
       PROVE  i = j /\ a = b
  <2>1. /\ i + 1 \in DOMAIN window /\ window'[i] = window[i + 1]
        /\ j + 1 \in DOMAIN window /\ window'[j] = window[j + 1]
    BY <1>1
  <2>2. i + 1 = j + 1 /\ a = b
    BY <1>14, <2>1 DEF NoRegisterLeak
  <2> QED BY <1>1, <2>2
<1>15. \A p : p \in Range(freelist') => p \notin Range(retireMap') /\ ~InFlight(window', p)
  <2> SUFFICES ASSUME NEW p, p \in Range(freelist')
               PROVE  p \notin Range(retireMap') /\ ~InFlight(window', p)
    OBVIOUS
  <2>1. ~InFlight(window, p)
    BY <1>5, <1>8, <1>9, <1>19
  <2>2. ASSUME NEW l \in Logical, retireMap'[l] = p
        PROVE  FALSE
    <3>1. CASE l \in Range(d.dests)
      <4>1. PICK k \in DOMAIN d.dests : d.dests[k] = l
        BY <3>1 DEF Range
      <4>2. p \in Range(d.phys)
        BY <1>5, <1>6, <2>2, <4>1 DEF Range
      <4> QED BY <1>4, <2>1, <4>2
    <3>2. CASE l \notin Range(d.dests)
      <4>1. retireMap[l] = p
        BY <1>6, <2>2, <3>2
      <4>2. p \notin Range(freelist)
        BY <1>8, <4>1
      <4>3. PICK k \in DOMAIN d.dests : retireMap[d.dests[k]] = p
        BY <1>9, <1>19, <4>2
      <4> QED BY <1>5, <1>7, <3>2, <4>1, <4>3 DEF Range
    <3> QED BY <3>1, <3>2
  <2> QED BY <1>1, <1>10, <2>1, <2>2 DEF Range
<1>16. ASSUME NEW l \in Logical
       PROVE  ~InFlight(window', retireMap'[l])
  <2>1. CASE l \in Range(d.dests)
    BY <1>5, <1>6, <1>11, <2>1 DEF Range
  <2>2. CASE l \notin Range(d.dests)
    BY <1>6, <1>8, <1>10, <2>2
  <2> QED BY <2>1, <2>2
<1>17. ASSUME NEW p \in Physical
       PROVE  p \in Range(freelist') \/ p \in Range(retireMap') \/ InFlight(window', p)
  <2>1. CASE p \in Range(freelist)
    BY <1>9, <2>1
  <2>2. CASE p \in Range(retireMap)
    <3>1. PICK l \in Logical : retireMap[l] = p
      BY <1>5, <2>2 DEF Range
    <3>2. CASE l \in Range(d.dests)
      <4>1. PICK k \in DOMAIN d.dests : d.dests[k] = l
        BY <3>2 DEF Range
      <4> QED BY <1>9, <1>19, <3>1, <4>1
    <3>3. CASE l \notin Range(d.dests)
      BY <1>1, <1>6, <3>1, <3>3 DEF Range
    <3> QED BY <3>2, <3>3
  <2>3. CASE InFlight(window, p)
    <3>1. CASE p \in Range(d.phys)
      BY <1>1, <1>5, <1>6, <3>1 DEF Range
    <3> QED BY <1>12, <2>3, <3>1
  <2> QED BY <2>1, <2>2, <2>3 DEF NoRegisterLeak
<1>18. \A k \in DOMAIN freelist' : freelist'[k] \in Range(freelist')
  BY DEF Range
<1> QED BY <1>9, <1>13, <1>14, <1>15, <1>16, <1>17, <1>18 DEF NoRegisterLeak

LEMMA SquashOwners ==
  ASSUME TypeOK, NoRegisterLeak, Squash
  PROVE  NoRegisterLeak'
<1> DEFINE n == Len(window)
           d == window[n]
<1>1. /\ n \in Nat \ {0} /\ DOMAIN window = 1 .. n
      /\ DOMAIN window' = 1 .. n - 1
      /\ \A j \in 1 .. n - 1 : window'[j] = window[j]
      /\ freelist' = freelist \o d.phys
      /\ retireMap' = retireMap
  BY SquashTypes DEF Squash
<1>2. d \in Instruction /\ WellFormed(d) /\ n \in DOMAIN window
  <2>1. n \in DOMAIN window /\ window \in Seq(Instruction)
    BY <1>1 DEF TypeOK
  <2> QED BY <1>1, <2>1, ElementOfSeq DEF TypeOK
<1>3. d.phys \in Seq(Physical) /\ freelist \in Seq(Physical)
  BY <1>2, InstructionFacts DEF TypeOK
<1>4. \A i \in DOMAIN window : \A a \in DOMAIN d.phys, b \in DOMAIN window[i].phys :
         d.phys[a] = window[i].phys[b] => n = i /\ a = b
  BY <1>2 DEF NoRegisterLeak
<1>5. \A k \in DOMAIN d.phys : InFlight(window, d.phys[k])
  BY <1>2 DEF InFlight, Range
<1>6. \A p : InFlight(window, p) => p \in Range(d.phys) \/ InFlight(window', p)
  <2> SUFFICES ASSUME NEW j \in DOMAIN window, j # n
               PROVE  j \in DOMAIN window' /\ window'[j] = window[j]
    BY DEF InFlight
  <2> QED BY <1>1
<1>7. \A p : InFlight(window', p) => InFlight(window, p)
  <2>1. \A j \in DOMAIN window' : j \in DOMAIN window /\ window'[j] = window[j]
    BY <1>1
  <2> QED BY <2>1 DEF InFlight
<1>8. \A k \in DOMAIN d.phys : ~InFlight(window', d.phys[k])
  <2>1. \A j \in DOMAIN window' : j \in DOMAIN window /\ window'[j] = window[j] /\ j # n
    BY <1>1
  <2> QED BY <1>4, <2>1 DEF InFlight, Range
<1>9. Distinct(d.phys)
  BY <1>2, <1>4 DEF Distinct
<1> HIDE DEF d
<1>10. /\ Distinct(freelist')
       /\ \A p : p \in Range(freelist') <=> p \in Range(freelist) \/ p \in Range(d.phys)
  <2>1. \A k \in DOMAIN d.phys : d.phys[k] \notin Range(freelist)
    BY <1>5 DEF NoRegisterLeak, Range
  <2>2. Distinct(freelist)
    BY DEF NoRegisterLeak
  <2> QED BY <1>1, <1>3, <1>9, <2>1, <2>2, ConcatDistinct
<1>11. \A p : p \in Range(freelist') => p \notin Range(retireMap') /\ ~InFlight(window', p)
  <2>1. \A p : p \in Range(freelist) => p \notin Range(retireMap') /\ ~InFlight(window', p)
    BY <1>1, <1>7 DEF NoRegisterLeak, Range
  <2>2. \A k \in DOMAIN d.phys : d.phys[k] \notin Range(retireMap)
    <3>1. DOMAIN retireMap = Logical
      BY DEF TypeOK
    <3> QED BY <1>5, <3>1 DEF NoRegisterLeak, Range
  <2> QED BY <1>1, <1>8, <1>10, <2>1, <2>2 DEF Range
<1>12. ASSUME NEW i \in DOMAIN window', NEW j \in DOMAIN window',
              NEW a \in DOMAIN window'[i].phys, NEW b \in DOMAIN window'[j].phys,
              window'[i].phys[a] = window'[j].phys[b]
       PROVE  i = j /\ a = b
  <2>1. /\ i \in DOMAIN window /\ window'[i] = window[i]
        /\ j \in DOMAIN window /\ window'[j] = window[j]
    BY <1>1
  <2> QED BY <1>12, <2>1 DEF NoRegisterLeak
<1>13. /\ Distinct(retireMap')
       /\ \A l \in Logical : ~InFlight(window', retireMap'[l])
       /\ \A p \in Physical :
             p \in Range(freelist') \/ p \in Range(retireMap') \/ InFlight(window', p)
  BY <1>1, <1>6, <1>7, <1>10 DEF NoRegisterLeak
<1>14. \A k \in DOMAIN freelist' : freelist'[k] \in Range(freelist')
  BY DEF Range
<1> QED BY <1>10, <1>11, <1>12, <1>13, <1>14 DEF NoRegisterLeak

-----------------------------------------------------------------------------
(***************************************************************************)
(* The inductive invariant: ownership alone is not inductive, because only *)
(* the program order of the mappings tells that the register retirement    *)
(* frees is the one the retire map gives up.                               *)
(***************************************************************************)

IInv == TypeOK /\ NoRegisterLeak /\ ProgramOrderMaps

LEMMA InitIInv == Init => IInv
<1> SUFFICES ASSUME Init PROVE IInv
  OBVIOUS
<1>1. TypeOK /\ NoRegisterLeak
  BY InitTypes, InitOwners
<1>2. window = <<>> /\ Len(window) = 0 /\ DOMAIN window = {} /\ retireMap = decodeMap
  BY DEF Init
<1>3. \A l \in Logical : Provides(window, retireMap, Len(window) + 1, l, decodeMap[l])
  BY <1>2 DEF Provides, NotWritten
<1> QED BY <1>1, <1>2, <1>3 DEF IInv, ProgramOrderMaps

LEMMA NextIInv == IInv /\ [Next]_vars => IInv'
<1> SUFFICES ASSUME IInv, [Next]_vars PROVE NoRegisterLeak' /\ ProgramOrderMaps'
  BY NextTypes DEF IInv
<1> USE DEF IInv
<1>1. ASSUME NEW dests \in DestLists, NEW reads \in ReadKinds, Decode(dests, reads)
      PROVE  NoRegisterLeak' /\ ProgramOrderMaps'
  BY <1>1, DecodeOwners, DecodeOrder
<1>2. ASSUME DOMAIN window' = DOMAIN window, window' \in Seq(Instruction),
             freelist' = freelist, retireMap' = retireMap, decodeMap' = decodeMap,
             \A j \in DOMAIN window :
                /\ window'[j].dests = window[j].dests /\ window'[j].phys = window[j].phys
                /\ window'[j].tofree = window[j].tofree
                /\ window'[j].sources = window[j].sources
                /\ window'[j].srcPhys = window[j].srcPhys
      PROVE  NoRegisterLeak' /\ ProgramOrderMaps'
  <2>1. Len(window') = Len(window)
    <3>1. window \in Seq(Instruction)
      BY DEF TypeOK
    <3> QED BY <1>2, <3>1, LenProperties
  <2> QED BY <1>2, <2>1, SameDestsOwners, SameOperandsOrder
<1>3. \A j \in DOMAIN window : window[j] \in Instruction /\ WellFormed(window[j])
  BY ElementOfSeq, LenProperties DEF TypeOK
<1>4. ASSUME NEW i \in 1 .. RobSize, Schedule(i)
      PROVE  NoRegisterLeak' /\ ProgramOrderMaps'
  <2>1. /\ i \in DOMAIN window /\ DOMAIN window' = DOMAIN window
        /\ window'[i] = TestSources(window[i], isReady)
        /\ \A j \in DOMAIN window \ {i} : window'[j] = window[j]
        /\ window' \in Seq(Instruction)
        /\ freelist' = freelist /\ retireMap' = retireMap /\ decodeMap' = decodeMap
    BY <1>4, ScheduleTypes DEF TypeOK, Schedule
  <2> QED BY <1>2, <1>3, <2>1, TestSourcesFacts
<1>5. ASSUME NEW i \in 1 .. RobSize, Complete(i)
      PROVE  NoRegisterLeak' /\ ProgramOrderMaps'
  <2>1. /\ i \in DOMAIN window /\ DOMAIN window' = DOMAIN window
        /\ window'[i] = SetStage(window[i], 0, "complete")
        /\ \A j \in DOMAIN window \ {i} :
              \/ window'[j] = window[j]
              \/ window'[j] = Resume(window[j], isReady')
        /\ window' \in Seq(Instruction)
        /\ freelist' = freelist /\ retireMap' = retireMap /\ decodeMap' = decodeMap
    BY <1>5, CompleteTypes DEF TypeOK, Complete
  <2>2. "complete" \in Stage /\ 0 \in Nat /\ 0 <= Len(window[i].sources)
    BY <1>3, <2>1, LenProperties DEF Stage, Instruction
  <2>3. /\ window'[i].dests = window[i].dests /\ window'[i].phys = window[i].phys
        /\ window'[i].tofree = window[i].tofree
        /\ window'[i].sources = window[i].sources
        /\ window'[i].srcPhys = window[i].srcPhys
    BY <1>3, <2>1, <2>2, SetStageFacts
  <2>4. \A j \in DOMAIN window \ {i} :
           /\ window'[j].dests = window[j].dests /\ window'[j].phys = window[j].phys
           /\ window'[j].tofree = window[j].tofree
           /\ window'[j].sources = window[j].sources
           /\ window'[j].srcPhys = window[j].srcPhys
    BY <1>3, <2>1, ResumeFacts
  <2> QED BY <1>2, <2>1, <2>3, <2>4
<1>9. ASSUME NEW i \in 1 .. RobSize, WaitForData(i)
      PROVE  NoRegisterLeak' /\ ProgramOrderMaps'
  <2>1. /\ i \in DOMAIN window /\ DOMAIN window' = DOMAIN window
        /\ window'[i] = TestData(window[i], isReady)
        /\ \A j \in DOMAIN window \ {i} : window'[j] = window[j]
        /\ window' \in Seq(Instruction)
        /\ freelist' = freelist /\ retireMap' = retireMap /\ decodeMap' = decodeMap
    BY <1>9, WaitForDataTypes DEF TypeOK, WaitForData
  <2>2. /\ window'[i].dests = window[i].dests /\ window'[i].phys = window[i].phys
        /\ window'[i].tofree = window[i].tofree
        /\ window'[i].sources = window[i].sources
        /\ window'[i].srcPhys = window[i].srcPhys
    BY <1>3, <2>1, TestDataFacts
  <2> QED BY <1>2, <2>1, <2>2
<1>6. CASE Retire
  BY <1>6, RetireOwners, RetireOrder
<1>7. CASE Squash
  BY <1>7, SquashOwners, SquashOrder
<1>8. CASE UNCHANGED vars
  BY <1>8 DEF NoRegisterLeak, ProgramOrderMaps, vars
<1> QED BY <1>1, <1>4, <1>5, <1>6, <1>7, <1>8, <1>9 DEF Next

THEOREM Invariance == Spec => []IInv
<1>1. Init => IInv
  BY InitIInv
<1>2. IInv /\ [Next]_vars => IInv'
  BY NextIInv
<1> QED BY <1>1, <1>2, PTL DEF Spec

\* No physical register is leaked or freed twice, for any number of registers,
\* any window and any operand lists that name a register once.
THEOREM RegistersNeverLeak == Spec => []NoRegisterLeak
<1>1. IInv => NoRegisterLeak
  BY DEF IInv
<1> QED BY <1>1, Invariance, PTL

\* Every instruction in flight reads, and every squash restores, the mapping
\* the program order gives.
THEOREM MapsFollowProgramOrder == Spec => []ProgramOrderMaps
<1>1. IInv => ProgramOrderMaps
  BY DEF IInv
<1> QED BY <1>1, Invariance, PTL

-----------------------------------------------------------------------------
(***************************************************************************)
(* What Schedule knows of the sources of one instruction.                  *)
(***************************************************************************)

\* The sources that were tested are ready: those Schedule has been through or,
\* for an access under way, those it issued with.
Confirmed(d, ready) ==
    IF d.stage = "early"
    THEN \A k \in DOMAIN d.srcPhys : k <= d.issue => ready[d.srcPhys[k]]
    ELSE \A k \in DOMAIN d.srcPhys : k > d.untested /\ k <= d.issue => ready[d.srcPhys[k]]

\* The sources tested are ready; one that waits is the next to test and is not;
\* an instruction that left Schedule has none left to test; one that completed
\* has its data too, if it asks for it.
Tested(d, ready) ==
    /\ Confirmed(d, ready)
    /\ Waiting(d) => d.untested \in DOMAIN d.srcPhys /\ ~ready[d.srcPhys[d.untested]]
    /\ d.stage \in {"ready", "complete"} => d.untested = 0
    /\ d.stage = "complete" /\ d.data => HasSources(d, ready)

SourcesTested == \A i \in DOMAIN window : Tested(window[i], isReady)

\* Schedule and a wake-up test what is left to test.
LEMMA TestSourcesTested ==
  ASSUME NEW d \in Instruction, WellFormed(d), NEW ready,
         Confirmed(d, ready), d.stage # "early"
  PROVE  Tested(TestSources(d, ready), ready)
<1> DEFINE blocked == {k \in 1 .. d.untested : ~ready[d.srcPhys[k]]}
           e == TestSources(d, ready)
<1>0. \A k \in DOMAIN d.srcPhys : k > d.untested /\ k <= d.issue => ready[d.srcPhys[k]]
  BY DEF Confirmed
<1>1. /\ d.untested \in Nat /\ DOMAIN d.srcPhys = 1 .. Len(d.srcPhys)
      /\ Len(d.srcPhys) \in Nat /\ d.untested <= Len(d.srcPhys)
      /\ Len(d.sources) = Len(d.srcPhys)
  BY LenProperties DEF Instruction, WellFormed
<1>2. CASE blocked = {}
  <2>1. e = SetStage(d, 0, "ready")
    BY <1>2 DEF TestSources
  <2>2. /\ e.srcPhys = d.srcPhys /\ e.untested = 0 /\ e.stage = "ready"
        /\ e.issue = d.issue
    BY <1>1, <2>1, SetStageFacts DEF Stage
  <2>3. \A k \in 1 .. d.untested : ready[d.srcPhys[k]]
    BY <1>2
  <2>4. \A k \in DOMAIN d.srcPhys : k <= d.issue => ready[d.srcPhys[k]]
    BY <1>0, <1>1, <2>3
  <2> HIDE DEF e
  <2> QED BY <2>2, <2>4 DEF Tested, Confirmed, Waiting, e
<1>3. CASE blocked # {}
  <2>1. e = SetStage(d, Max(blocked), "wait")
    BY <1>3 DEF TestSources
  <2>2. /\ Max(blocked) \in 1 .. d.untested /\ ~ready[d.srcPhys[Max(blocked)]]
        /\ \A k \in blocked : k <= Max(blocked)
    <3>1. blocked \subseteq 1 .. d.untested
      OBVIOUS
    <3>2. Max(blocked) \in blocked /\ \A k \in blocked : k <= Max(blocked)
      <4> HIDE DEF blocked
      <4> QED BY <1>1, <1>3, <3>1, MaxExists
    <3> QED BY <3>1, <3>2
  <2>3. \A k \in 1 .. d.untested : k > Max(blocked) => ready[d.srcPhys[k]]
    BY <1>1, <2>2
  <2> HIDE DEF blocked
  <2>4. Max(blocked) \in Nat /\ Max(blocked) <= d.untested /\ Max(blocked) <= Len(d.sources)
    BY <1>1, <2>2
  <2>5. /\ e.srcPhys = d.srcPhys /\ e.untested = Max(blocked) /\ e.stage = "wait"
        /\ e.issue = d.issue
    BY <2>1, <2>4, SetStageFacts DEF Stage
  <2> HIDE DEF e
  <2>6. \A k \in DOMAIN d.srcPhys : k > Max(blocked) /\ k <= d.issue => ready[d.srcPhys[k]]
    BY <1>0, <1>1, <2>3, <2>4
  <2>7. Max(blocked) \in DOMAIN d.srcPhys
    BY <1>1, <2>2
  <2> QED BY <2>2, <2>5, <2>6, <2>7 DEF Tested, Confirmed, Waiting, e
<1> QED BY <1>2, <1>3

\* So does the loop over all sources, of an instruction that has what it issued with.
LEMMA TestDataTested ==
  ASSUME NEW d \in Instruction, WellFormed(d), NEW ready,
         \A k \in DOMAIN d.srcPhys : k <= d.issue => ready[d.srcPhys[k]]
  PROVE  Tested(TestData(d, ready), ready)
<1> DEFINE e == TestData(d, ready)
<1>1. /\ e.srcPhys = d.srcPhys /\ e.issue = d.issue
      /\ \/ /\ HasSources(d, ready) /\ e.stage = "ready" /\ e.untested = 0
         \/ /\ e.stage = "early" /\ e.untested \in DOMAIN d.srcPhys
            /\ ~ready[d.srcPhys[e.untested]]
  BY TestDataFacts
<1> HIDE DEF e
<1>2. CASE e.stage = "ready"
  <2>1. e.untested = 0
    BY <1>1, <1>2
  <2> QED BY <1>1, <1>2, <2>1 DEF Tested, Confirmed, Waiting, e
<1>3. CASE e.stage = "early"
  <2>1. e.untested \in DOMAIN e.srcPhys /\ ~ready[e.srcPhys[e.untested]]
    BY <1>1, <1>3
  <2> QED BY <1>1, <1>3, <2>1 DEF Tested, Confirmed, Waiting, e
<1> QED BY <1>1, <1>2, <1>3

LEMMA ResumeTested ==
  ASSUME NEW d \in Instruction, WellFormed(d), NEW ready, Confirmed(d, ready)
  PROVE  Tested(Resume(d, ready), ready)
<1>1. CASE d.stage = "early"
  <2>1. \A k \in DOMAIN d.srcPhys : k <= d.issue => ready[d.srcPhys[k]]
    BY <1>1 DEF Confirmed
  <2> QED BY <1>1, <2>1, TestDataTested DEF Resume
<1>2. CASE d.stage # "early"
  BY <1>2, TestSourcesTested DEF Resume
<1> QED BY <1>1, <1>2

\* Registers that are not among its sources may be emptied.
LEMMA TestedElsewhere ==
  ASSUME NEW d, NEW ready, NEW ready1, Tested(d, ready),
         \A k \in DOMAIN d.srcPhys : ready1[d.srcPhys[k]] <=> ready[d.srcPhys[k]]
  PROVE  Tested(d, ready1)
<1>1. Confirmed(d, ready1)
  BY DEF Tested, Confirmed
<1>2. HasSources(d, ready) => HasSources(d, ready1)
  BY DEF HasSources
<1> QED BY <1>1, <1>2 DEF Tested

-----------------------------------------------------------------------------
(***************************************************************************)
(* The invariant, action by action.                                        *)
(***************************************************************************)
Readiness == ReadyTracksOwner /\ SourcesTested

\* What in-flight instructions are, for all the lemmas.
LEMMA WindowFacts ==
  ASSUME IInv
  PROVE  /\ DOMAIN window = 1 .. Len(window) /\ Len(window) \in Nat
         /\ \A i \in DOMAIN window :
               /\ window[i] \in Instruction /\ WellFormed(window[i])
               /\ \A k \in DOMAIN window[i].phys : window[i].phys[k] \in Physical
               /\ \A k \in DOMAIN window[i].phys : InFlight(window, window[i].phys[k])
               /\ DOMAIN window[i].srcPhys = DOMAIN window[i].sources
               /\ \A k \in DOMAIN window[i].srcPhys :
                     /\ window[i].srcPhys[k] \in Physical
                     /\ window[i].sources[k] \in Logical
<1>1. /\ DOMAIN window = 1 .. Len(window) /\ Len(window) \in Nat
      /\ \A i \in DOMAIN window : window[i] \in Instruction /\ WellFormed(window[i])
  BY LenProperties, ElementOfSeq DEF IInv, TypeOK
<1>2. \A i \in DOMAIN window : \A k \in DOMAIN window[i].phys : InFlight(window, window[i].phys[k])
  BY DEF InFlight, Range
<1> QED BY <1>1, <1>2, InstructionFacts

\* The register of a source is the architected one, not written by an older
\* instruction in flight, or one that an older instruction writes.
LEMMA SourceOwner ==
  ASSUME IInv, NEW i \in DOMAIN window, NEW k \in DOMAIN window[i].srcPhys
  PROVE  LET p == window[i].srcPhys[k]
             l == window[i].sources[k]
         IN  \/ p = retireMap[l] /\ NotWritten(window, l, 1, i - 1)
             \/ \E j \in 1 .. i - 1 : \E m \in DOMAIN window[j].phys : window[j].phys[m] = p
<1> DEFINE p == window[i].srcPhys[k]
           l == window[i].sources[k]
<1>1. k \in DOMAIN window[i].sources
  BY WindowFacts
<1>2. Provides(window, retireMap, i, l, p)
  BY <1>1 DEF IInv, ProgramOrderMaps
<1>3. ASSUME NEW j \in 1 .. i - 1, Writes(window[j], l, p)
      PROVE  \E m \in DOMAIN window[j].phys : window[j].phys[m] = p
  <2>1. j \in DOMAIN window
    BY WindowFacts
  <2>2. WellFormed(window[j]) /\ window[j] \in Instruction
    BY <2>1, WindowFacts
  <2>3. DOMAIN window[j].phys = DOMAIN window[j].dests
    BY <2>2, InstructionFacts DEF WellFormed
  <2> QED BY <1>3, <2>3 DEF Writes
<1> QED BY <1>2, <1>3 DEF Provides

LEMMA InitReadiness == Init => Readiness
<1> SUFFICES ASSUME Init PROVE Readiness
  OBVIOUS
<1>1. /\ NumPhysical \in Nat /\ NumLogical \in Nat /\ NumPhysical >= NumLogical
      /\ isReady = [p \in Physical |-> p >= NumPhysical - NumLogical]
      /\ retireMap = [l \in Logical |-> NumPhysical - l]
      /\ freelist = [k \in 1 .. NumPhysical - NumLogical |-> k - 1]
  BY CountsAssumption DEF Init
<1>2. ASSUME NEW l \in Logical PROVE isReady[retireMap[l]]
  <2>1. /\ retireMap[l] = NumPhysical - l /\ NumPhysical - l \in Physical
        /\ NumPhysical - l >= NumPhysical - NumLogical
    BY <1>1 DEF Logical, Physical
  <2> QED BY <1>1, <2>1
<1>3. ASSUME NEW k \in DOMAIN freelist PROVE ~isReady[freelist[k]]
  <2>1. /\ freelist[k] = k - 1 /\ k - 1 \in Physical
        /\ ~(k - 1 >= NumPhysical - NumLogical)
    BY <1>1 DEF Physical
  <2> QED BY <1>1, <2>1
<1>4. DOMAIN window = {}
  BY DEF Init
<1> QED BY <1>2, <1>3, <1>4 DEF Readiness, ReadyTracksOwner, SourcesTested

\* The registers that Decode takes come from the free list, unwritten; none of the
\* new instruction's sources has been tested.
LEMMA DecodeReadiness ==
  ASSUME IInv, Readiness, NEW dests \in DestLists, NEW reads \in ReadKinds,
         Decode(dests, reads)
  PROVE  Readiness'
<1> DEFINE n == Len(window)
           d == window'[n + 1]
<1>1. /\ window \in Seq(Instruction) /\ freelist \in Seq(Physical)
      /\ DOMAIN window = 1 .. n /\ n \in Nat /\ Len(freelist) \in Nat
      /\ DOMAIN freelist = 1 .. Len(freelist)
  BY LenProperties DEF IInv, TypeOK
<1>2. Len(dests) \in Nat /\ Len(dests) <= Len(freelist) /\ TypeOK'
  BY DecodeTypes DEF IInv
<1>3. /\ d = [dests    |-> dests,
              phys     |-> Popped(Len(dests)),
              tofree   |-> [k \in DOMAIN dests |-> decodeMap[dests[k]]],
              sources  |-> reads.sources,
              srcPhys  |-> [k \in DOMAIN reads.sources |-> decodeMap[reads.sources[k]]],
              issue    |-> reads.issue,
              data     |-> reads.data,
              untested |-> reads.issue,
              stage    |-> "decoded"]
      /\ DOMAIN window' = 1 .. n + 1
      /\ \A j \in 1 .. n : window'[j] = window[j]
  BY <1>1 DEF Decode
<1>4. /\ freelist' = SubSeq(freelist, 1, Len(freelist) - Len(dests))
      /\ retireMap' = retireMap /\ isReady' = isReady
  BY DEF Decode
<1>5. \A k \in DOMAIN freelist' : k \in DOMAIN freelist /\ freelist'[k] = freelist[k]
  <2> DEFINE m == Len(freelist) - Len(dests)
  <2>1. m \in Nat /\ m <= Len(freelist)
    BY <1>1, <1>2
  <2>2. /\ freelist' \in Seq(Physical) /\ Len(freelist') = m
        /\ \A k \in 1 .. m : freelist'[k] = freelist[k]
    BY <1>1, <1>2, <1>4, PoppedFacts
  <2>3. DOMAIN freelist' = 1 .. m
    BY <2>2, LenProperties
  <2> HIDE DEF m
  <2> QED BY <1>1, <2>1, <2>2, <2>3
<1>6. /\ d.stage = "decoded" /\ d.untested = reads.issue /\ d.issue = reads.issue
      /\ d.phys = Popped(Len(dests)) /\ DOMAIN d.srcPhys = DOMAIN reads.sources
  BY <1>3
<1>7. \A k \in DOMAIN d.phys : ~isReady[d.phys[k]]
  <2>1. DOMAIN d.phys = 1 .. Len(dests)
    BY <1>1, <1>2, <1>6, PoppedFacts, LenProperties
  <2>2. \A k \in 1 .. Len(dests) : /\ d.phys[k] = freelist[Len(freelist) - k + 1]
                                   /\ Len(freelist) - k + 1 \in DOMAIN freelist
    <3>1. \A k \in 1 .. Len(dests) : Popped(Len(dests))[k] = freelist[Len(freelist) - k + 1]
      BY <1>1, <1>2, PoppedFacts
    <3>2. \A k \in 1 .. Len(dests) : Len(freelist) - k + 1 \in 1 .. Len(freelist)
      BY <1>1, <1>2
    <3> QED BY <1>1, <1>6, <3>1, <3>2
  <2> QED BY <2>1, <2>2 DEF Readiness, ReadyTracksOwner
<1> HIDE DEF d
<1>8. DOMAIN reads.sources = 1 .. Len(reads.sources) /\ Len(reads.sources) \in Nat /\ reads.issue \in Nat
  BY ListsAssumption, LenProperties
<1>9. Tested(d, isReady)
  BY <1>6, <1>8 DEF Tested, Confirmed, Waiting
<1>10. ReadyTracksOwner'
  <2>1. \A i \in 1 .. n : \A k \in DOMAIN window[i].phys :
            isReady[window[i].phys[k]] <=> window[i].stage = "complete"
    BY <1>1 DEF Readiness, ReadyTracksOwner
  <2>2. \A k \in DOMAIN d.phys : isReady[d.phys[k]] <=> d.stage = "complete"
    BY <1>6, <1>7
  <2>3. \A i \in 1 .. n + 1 : i \in 1 .. n \/ i = n + 1
    BY <1>1
  <2>4. \A i \in DOMAIN window' : \A k \in DOMAIN window'[i].phys :
            isReady[window'[i].phys[k]] <=> window'[i].stage = "complete"
    BY <1>3, <2>1, <2>2, <2>3 DEF d
  <2>5. /\ \A l \in Logical : isReady[retireMap[l]]
        /\ \A k \in DOMAIN freelist : ~isReady[freelist[k]]
    BY DEF Readiness, ReadyTracksOwner
  <2> QED BY <1>4, <1>5, <2>4, <2>5 DEF ReadyTracksOwner
<1>11. SourcesTested'
  <2>1. \A i \in 1 .. n : Tested(window[i], isReady)
    BY <1>1 DEF Readiness, SourcesTested
  <2>2. \A i \in 1 .. n + 1 : i \in 1 .. n \/ i = n + 1
    BY <1>1
  <2>3. \A i \in DOMAIN window' : Tested(window'[i], isReady)
    BY <1>3, <1>9, <2>1, <2>2 DEF d
  <2> QED BY <1>4, <2>3 DEF SourcesTested
<1> QED BY <1>10, <1>11 DEF Readiness

\* Schedule writes no register, and records what it has tested.
LEMMA ScheduleReadiness ==
  ASSUME IInv, Readiness, NEW i \in 1 .. RobSize, Schedule(i)
  PROVE  Readiness'
<1>1. /\ i \in DOMAIN window /\ DOMAIN window' = DOMAIN window
      /\ window'[i] = TestSources(window[i], isReady)
      /\ \A j \in DOMAIN window \ {i} : window'[j] = window[j]
      /\ freelist' = freelist /\ retireMap' = retireMap /\ isReady' = isReady
      /\ window[i].stage = "decoded"
  BY ScheduleTypes DEF IInv, Schedule
<1>2. window[i] \in Instruction /\ WellFormed(window[i])
  BY <1>1, WindowFacts
<1>3. Tested(window'[i], isReady)
  <2>1. Tested(window[i], isReady)
    BY <1>1 DEF Readiness, SourcesTested
  <2>2. Confirmed(window[i], isReady) /\ window[i].stage # "early"
    BY <1>1, <2>1 DEF Tested
  <2> QED BY <1>1, <1>2, <2>2, TestSourcesTested
<1>4. window'[i].phys = window[i].phys /\ window'[i].stage # "complete"
  BY <1>1, <1>2, TestSourcesFacts
<1>5. ReadyTracksOwner'
  <2>1. \A j \in DOMAIN window : \A k \in DOMAIN window[j].phys :
            isReady[window[j].phys[k]] <=> window[j].stage = "complete"
    BY DEF Readiness, ReadyTracksOwner
  <2>2. \A j \in DOMAIN window : /\ window'[j].phys = window[j].phys
                                 /\ window'[j].stage = "complete" <=> window[j].stage = "complete"
    <3>1. \A j \in DOMAIN window : j = i \/ j \in DOMAIN window \ {i}
      OBVIOUS
    <3>2. "decoded" # "complete"
      OBVIOUS
    <3> QED BY <1>1, <1>4, <3>1, <3>2
  <2>3. /\ \A l \in Logical : isReady[retireMap[l]]
        /\ \A k \in DOMAIN freelist : ~isReady[freelist[k]]
    BY DEF Readiness, ReadyTracksOwner
  <2> QED BY <1>1, <2>1, <2>2, <2>3 DEF ReadyTracksOwner
<1>6. SourcesTested'
  <2>1. \A j \in DOMAIN window \ {i} : Tested(window[j], isReady)
    BY DEF Readiness, SourcesTested
  <2> QED BY <1>1, <1>3, <2>1 DEF SourcesTested
<1> QED BY <1>5, <1>6 DEF Readiness

\* Nor does an access that waits for its data.
LEMMA WaitForDataReadiness ==
  ASSUME IInv, Readiness, NEW i \in 1 .. RobSize, WaitForData(i)
  PROVE  Readiness'
<1>1. /\ i \in DOMAIN window /\ DOMAIN window' = DOMAIN window
      /\ window'[i] = TestData(window[i], isReady)
      /\ \A j \in DOMAIN window \ {i} : window'[j] = window[j]
      /\ freelist' = freelist /\ retireMap' = retireMap /\ isReady' = isReady
      /\ window[i].stage = "ready"
  BY WaitForDataTypes DEF IInv, WaitForData
<1>2. window[i] \in Instruction /\ WellFormed(window[i])
  BY <1>1, WindowFacts
<1>3. Tested(window'[i], isReady)
  <2>1. Tested(window[i], isReady)
    BY <1>1 DEF Readiness, SourcesTested
  <2>2. \A k \in DOMAIN window[i].srcPhys : k <= window[i].issue => isReady[window[i].srcPhys[k]]
    <3>1. /\ window[i].untested = 0 /\ window[i].stage # "early"
          /\ DOMAIN window[i].srcPhys = 1 .. Len(window[i].srcPhys)
      BY <1>1, <1>2, <2>1, LenProperties DEF Tested, Instruction
    <3> QED BY <2>1, <3>1 DEF Tested, Confirmed
  <2> QED BY <1>1, <1>2, <2>2, TestDataTested
<1>4. window'[i].phys = window[i].phys /\ window'[i].stage # "complete"
  BY <1>1, <1>2, TestDataFacts
<1>5. ReadyTracksOwner'
  <2>1. \A j \in DOMAIN window : \A k \in DOMAIN window[j].phys :
            isReady[window[j].phys[k]] <=> window[j].stage = "complete"
    BY DEF Readiness, ReadyTracksOwner
  <2>2. \A j \in DOMAIN window : /\ window'[j].phys = window[j].phys
                                 /\ window'[j].stage = "complete" <=> window[j].stage = "complete"
    <3>1. \A j \in DOMAIN window : j = i \/ j \in DOMAIN window \ {i}
      OBVIOUS
    <3>2. "ready" # "complete" /\ "early" # "complete"
      OBVIOUS
    <3> QED BY <1>1, <1>4, <3>1, <3>2
  <2>3. /\ \A l \in Logical : isReady[retireMap[l]]
        /\ \A k \in DOMAIN freelist : ~isReady[freelist[k]]
    BY DEF Readiness, ReadyTracksOwner
  <2> QED BY <1>1, <2>1, <2>2, <2>3 DEF ReadyTracksOwner
<1>6. SourcesTested'
  <2>1. \A j \in DOMAIN window \ {i} : Tested(window[j], isReady)
    BY DEF Readiness, SourcesTested
  <2> QED BY <1>1, <1>3, <2>1 DEF SourcesTested
<1> QED BY <1>5, <1>6 DEF Readiness

\* The registers written are nobody else's; who waits for one tests on, who waits
\* for another still waits.
LEMMA CompleteReadiness ==
  ASSUME IInv, Readiness, NEW i \in 1 .. RobSize, Complete(i)
  PROVE  Readiness'
<1> DEFINE written == Range(window[i].phys)
<1>1. /\ i \in DOMAIN window /\ DOMAIN window' = DOMAIN window
      /\ window'[i] = SetStage(window[i], 0, "complete")
      /\ \A j \in DOMAIN window \ {i} :
             window'[j] = IF WaitsOn(window[j], written) THEN Resume(window[j], isReady')
                          ELSE window[j]
      /\ isReady' = [p \in Physical |-> isReady[p] \/ p \in written]
      /\ freelist' = freelist /\ retireMap' = retireMap
      /\ window[i].stage = "ready"
      /\ window[i].data => HasSources(window[i], isReady)
  BY CompleteTypes DEF IInv, Complete
<1>2. \A j \in DOMAIN window : window[j] \in Instruction /\ WellFormed(window[j])
  BY WindowFacts
<1>3. \A p \in Physical : isReady'[p] <=> isReady[p] \/ p \in written
  BY <1>1
<1>4. /\ \A k \in DOMAIN window[i].phys : window[i].phys[k] \in written
      /\ \A j \in DOMAIN window \ {i} : \A k \in DOMAIN window[j].phys : window[j].phys[k] \notin written
      /\ \A k \in DOMAIN freelist : freelist[k] \notin written
  BY <1>1 DEF IInv, NoRegisterLeak, InFlight, Range
<1>5. /\ window'[i].phys = window[i].phys /\ window'[i].srcPhys = window[i].srcPhys
      /\ window'[i].stage = "complete" /\ window'[i].untested = 0
      /\ window'[i].issue = window[i].issue /\ window'[i].data = window[i].data
  <2>1. "complete" \in Stage /\ 0 \in Nat /\ 0 <= Len(window[i].sources)
    BY <1>1, <1>2, LenProperties DEF Stage, Instruction
  <2> QED BY <1>1, <1>2, <2>1, SetStageFacts
<1>6. \A j \in DOMAIN window : Tested(window[j], isReady)
  BY DEF Readiness, SourcesTested
<1>7. /\ freelist \in Seq(Physical) /\ retireMap \in [Logical -> Physical]
      /\ \A k \in DOMAIN freelist : freelist[k] \in Physical
  BY ElementOfSeq DEF IInv, TypeOK
<1> HIDE DEF written
<1>8. ReadyTracksOwner'
  <2>1. \A l \in Logical : isReady'[retireMap'[l]]
    BY <1>1, <1>3, <1>7 DEF Readiness, ReadyTracksOwner
  <2>2. \A k \in DOMAIN freelist' : ~isReady'[freelist'[k]]
    BY <1>1, <1>3, <1>4, <1>7 DEF Readiness, ReadyTracksOwner
  <2>3. \A k \in DOMAIN window'[i].phys : isReady'[window'[i].phys[k]] <=> window'[i].stage = "complete"
    BY <1>1, <1>3, <1>4, <1>5, WindowFacts
  <2>4. ASSUME NEW j \in DOMAIN window \ {i}
        PROVE  \A k \in DOMAIN window'[j].phys : isReady'[window'[j].phys[k]] <=> window'[j].stage = "complete"
    <3>1. window'[j].phys = window[j].phys /\ (window'[j].stage = "complete" <=> window[j].stage = "complete")
      <4>1. CASE WaitsOn(window[j], written)
        <5>1. window'[j] = Resume(window[j], isReady')
          BY <1>1, <4>1
        <5>2. window'[j].phys = window[j].phys /\ window'[j].stage \in {"wait", "ready", "early"}
          BY <1>2, <5>1, ResumeFacts
        <5>3. window[j].stage \in {"wait", "early"}
          BY <4>1 DEF WaitsOn, Waiting
        <5> QED BY <5>2, <5>3
      <4>2. CASE ~ WaitsOn(window[j], written)
        <5>1. window'[j] = window[j]
          BY <1>1, <4>2
        <5> QED BY <5>1
      <4> QED BY <4>1, <4>2
    <3>2. \A k \in DOMAIN window[j].phys :
              /\ window[j].phys[k] \in Physical
              /\ isReady[window[j].phys[k]] <=> window[j].stage = "complete"
      BY WindowFacts DEF Readiness, ReadyTracksOwner
    <3> QED BY <1>3, <1>4, <3>1, <3>2
  <2> QED BY <1>1, <2>1, <2>2, <2>3, <2>4 DEF ReadyTracksOwner
<1>9. SourcesTested'
  <2>1. \A j \in DOMAIN window : \A k \in DOMAIN window[j].srcPhys :
            /\ window[j].srcPhys[k] \in Physical
            /\ isReady[window[j].srcPhys[k]] => isReady'[window[j].srcPhys[k]]
    BY <1>3, WindowFacts
  <2>2. Tested(window'[i], isReady')
    <3>1. window[i].untested = 0 /\ Confirmed(window[i], isReady)
      BY <1>1, <1>6 DEF Tested
    <3>2. \A k \in DOMAIN window[i].srcPhys :
             k > window[i].untested /\ k <= window[i].issue => isReady[window[i].srcPhys[k]]
      BY <1>1, <3>1 DEF Confirmed
    <3>3. Confirmed(window'[i], isReady')
      BY <1>1, <1>5, <2>1, <3>1, <3>2 DEF Confirmed
    <3>4. window'[i].data => HasSources(window'[i], isReady')
      BY <1>1, <1>5, <2>1 DEF HasSources
    <3> QED BY <1>5, <3>3, <3>4 DEF Tested, Waiting
  <2>3. ASSUME NEW j \in DOMAIN window \ {i} PROVE Tested(window'[j], isReady')
    <3>0. Tested(window[j], isReady)
      BY <1>6
    <3>1. Confirmed(window[j], isReady')
      BY <2>1, <3>0 DEF Tested, Confirmed
    <3>2. CASE WaitsOn(window[j], written)
      <4>1. window'[j] = Resume(window[j], isReady')
        BY <1>1, <3>2
      <4> QED BY <1>2, <3>1, <4>1, ResumeTested
    <3>3. CASE ~ WaitsOn(window[j], written)
      <4>1. window'[j] = window[j]
        BY <1>1, <3>3
      <4>2. ASSUME Waiting(window[j])
            PROVE  /\ window[j].untested \in DOMAIN window[j].srcPhys
                   /\ ~ isReady'[window[j].srcPhys[window[j].untested]]
        <5>1. /\ window[j].untested \in DOMAIN window[j].srcPhys
              /\ ~ isReady[window[j].srcPhys[window[j].untested]]
          BY <3>0, <4>2 DEF Tested
        <5>2. window[j].srcPhys[window[j].untested] \notin written
          BY <3>3, <4>2 DEF WaitsOn
        <5> QED BY <1>3, <2>1, <5>1, <5>2
      <4>3. window[j].stage \in {"ready", "complete"} => window[j].untested = 0
        BY <3>0 DEF Tested
      <4>4. window[j].stage = "complete" /\ window[j].data => HasSources(window[j], isReady')
        BY <2>1, <3>0 DEF Tested, HasSources
      <4> QED BY <3>1, <4>1, <4>2, <4>3, <4>4 DEF Tested
    <3> QED BY <3>2, <3>3
  <2> QED BY <1>1, <2>2, <2>3 DEF SourcesTested
<1> QED BY <1>8, <1>9 DEF Readiness

\* A retiring instruction empties the registers it displaces: the architected ones
\* of the registers it writes, which no younger instruction reads or holds.
LEMMA RetireReadiness ==
  ASSUME IInv, Readiness, Retire
  PROVE  Readiness'
<1> DEFINE n == Len(window)
           d == window[1]
<1>1. /\ n \in Nat \ {0} /\ DOMAIN window = 1 .. n
      /\ DOMAIN window' = 1 .. n - 1
      /\ \A j \in 1 .. n - 1 : window'[j] = window[j + 1]
      /\ freelist' = freelist \o d.tofree
      /\ retireMap' = Remap(retireMap, d.dests, d.phys)
  BY RetireTypes DEF IInv
<1>2. d \in Instruction /\ WellFormed(d) /\ 1 \in DOMAIN window
  BY <1>1, WindowFacts
<1>3. \A k \in DOMAIN d.dests : d.tofree[k] = retireMap[d.dests[k]]
  <2>1. \A k \in DOMAIN d.dests : Provides(window, retireMap, 1, d.dests[k], d.tofree[k])
    BY <1>2 DEF IInv, ProgramOrderMaps
  <2>2. \A j \in 1 .. 1 - 1 : FALSE
    OBVIOUS
  <2> HIDE DEF d
  <2> QED BY <2>1, <2>2 DEF Provides
<1>4. /\ \A k \in DOMAIN d.phys : isReady[d.phys[k]] /\ InFlight(window, d.phys[k])
      /\ isReady' = [p \in Physical |-> isReady[p] /\ p \notin Range(d.tofree)]
  <2>1. Head(window) = d
    BY <1>1 DEF IInv, TypeOK
  <2>2. d.stage = "complete"
    BY <2>1 DEF Retire
  <2> QED BY <1>2, <2>1, <2>2, WindowFacts DEF Retire, Readiness, ReadyTracksOwner
<1> HIDE DEF d
<1>5. /\ d.dests \in Seq(Logical) /\ Distinct(d.dests) /\ DOMAIN d.tofree = DOMAIN d.dests
      /\ d.phys \in Seq(Physical) /\ Len(d.phys) = Len(d.dests)
      /\ DOMAIN d.phys = DOMAIN d.dests /\ d.tofree \in Seq(Physical)
      /\ \A k \in DOMAIN d.dests : d.dests[k] \in Logical /\ d.phys[k] \in Physical
      /\ retireMap \in [Logical -> Physical] /\ freelist \in Seq(Physical)
  BY <1>2, InstructionFacts DEF WellFormed, IInv, TypeOK
<1>6. /\ \A k \in DOMAIN d.dests : retireMap'[d.dests[k]] = d.phys[k]
      /\ \A l \in Logical \ Range(d.dests) : retireMap'[l] = retireMap[l]
  <2>1. /\ \A k \in DOMAIN d.dests : Remap(retireMap, d.dests, d.phys)[d.dests[k]] = d.phys[k]
        /\ \A l \in Logical \ Range(d.dests) : Remap(retireMap, d.dests, d.phys)[l] = retireMap[l]
    BY <1>5, RemapFacts
  <2> QED BY <1>1, <2>1
<1>7. \A p \in Range(d.tofree) : \E k \in DOMAIN d.dests : p = retireMap[d.dests[k]]
  BY <1>3, <1>5 DEF Range
<1>8. \A p \in Physical : InFlight(window, p) => p \notin Range(d.tofree)
  BY <1>5, <1>7 DEF IInv, NoRegisterLeak
<1>9. \A l \in Logical \ Range(d.dests) : retireMap[l] \notin Range(d.tofree)
  <2>1. \A l, m \in Logical : retireMap[l] = retireMap[m] => l = m
    BY <1>5 DEF IInv, NoRegisterLeak, Distinct
  <2>2. \A k \in DOMAIN d.dests : d.dests[k] \in Range(d.dests)
    BY DEF Range
  <2> QED BY <1>5, <1>7, <2>1, <2>2
<1>10. ReadyTracksOwner'
  <2>1. ASSUME NEW l \in Logical PROVE isReady'[retireMap'[l]]
    <3>1. CASE l \in Range(d.dests)
      <4>1. PICK k \in DOMAIN d.dests : d.dests[k] = l
        BY <3>1 DEF Range
      <4> QED BY <1>4, <1>5, <1>6, <1>8, <4>1
    <3>2. CASE l \notin Range(d.dests)
      <4>1. isReady[retireMap[l]] /\ retireMap[l] \in Physical
        BY <1>5 DEF Readiness, ReadyTracksOwner
      <4> QED BY <1>4, <1>6, <1>9, <3>2, <4>1
    <3> QED BY <3>1, <3>2
  <2>2. ASSUME NEW k \in DOMAIN freelist' PROVE ~isReady'[freelist'[k]]
    <3>1. freelist'[k] \in Physical /\ (freelist'[k] \in Range(freelist) \/ freelist'[k] \in Range(d.tofree))
      <4>1. /\ Len(freelist') = Len(freelist) + Len(d.tofree) /\ freelist' \in Seq(Physical)
            /\ \A j \in 1 .. Len(freelist) + Len(d.tofree) :
                  freelist'[j] = IF j <= Len(freelist) THEN freelist[j] ELSE d.tofree[j - Len(freelist)]
        BY <1>1, <1>5, ConcatProperties
      <4>2. /\ DOMAIN freelist' = 1 .. Len(freelist') /\ DOMAIN freelist = 1 .. Len(freelist)
            /\ DOMAIN d.tofree = 1 .. Len(d.tofree)
            /\ Len(freelist) \in Nat /\ Len(d.tofree) \in Nat
        BY <1>5, <4>1, LenProperties
      <4>3. freelist'[k] \in Physical
        BY <4>1, ElementOfSeq
      <4>4. k \in DOMAIN freelist \/ (k - Len(freelist) \in DOMAIN d.tofree /\ k > Len(freelist))
        BY <4>1, <4>2
      <4> QED BY <4>1, <4>2, <4>3, <4>4 DEF Range
    <3>2. \A p \in Range(freelist) : ~isReady[p]
      BY DEF Readiness, ReadyTracksOwner, Range
    <3> QED BY <1>4, <3>1, <3>2
  <2>3. ASSUME NEW i \in DOMAIN window'
        PROVE  \A k \in DOMAIN window'[i].phys : isReady'[window'[i].phys[k]] <=> window'[i].stage = "complete"
    <3>1. i + 1 \in DOMAIN window /\ window'[i] = window[i + 1]
      BY <1>1
    <3>2. \A k \in DOMAIN window[i + 1].phys :
              /\ window[i + 1].phys[k] \in Physical /\ InFlight(window, window[i + 1].phys[k])
              /\ isReady[window[i + 1].phys[k]] <=> window[i + 1].stage = "complete"
      BY <3>1, WindowFacts DEF Readiness, ReadyTracksOwner
    <3> QED BY <1>4, <1>8, <3>1, <3>2
  <2> QED BY <2>1, <2>2, <2>3 DEF ReadyTracksOwner
<1>11. SourcesTested'
  <2> SUFFICES ASSUME NEW i \in DOMAIN window' PROVE Tested(window'[i], isReady')
    BY DEF SourcesTested
  <2>1. i + 1 \in DOMAIN window /\ window'[i] = window[i + 1] /\ i \in Nat /\ i >= 1
    BY <1>1
  <2>2. ASSUME NEW k \in DOMAIN window[i + 1].srcPhys
        PROVE  isReady'[window[i + 1].srcPhys[k]] <=> isReady[window[i + 1].srcPhys[k]]
    <3> DEFINE p == window[i + 1].srcPhys[k]
               l == window[i + 1].sources[k]
    <3>1. p \in Physical /\ l \in Logical
      BY <2>1, WindowFacts
    <3>2. CASE p = retireMap[l] /\ NotWritten(window, l, 1, i)
      <4>1. l \notin Range(d.dests)
        <5>1. 1 \in 1 .. i
          BY <2>1
        <5> QED BY <3>2, <5>1 DEF NotWritten, d
      <4> QED BY <1>4, <1>9, <3>1, <3>2, <4>1
    <3>3. CASE \E j \in 1 .. i : \E m \in DOMAIN window[j].phys : window[j].phys[m] = p
      <4>1. PICK j \in 1 .. i : \E m \in DOMAIN window[j].phys : window[j].phys[m] = p
        BY <3>3
      <4>2. InFlight(window, p)
        <5>1. j \in DOMAIN window
          BY <1>1, <2>1
        <5> QED BY <4>1, <5>1, WindowFacts
      <4> QED BY <1>4, <1>8, <3>1, <4>2
    <3>4. (i + 1) - 1 = i
      BY <2>1
    <3> QED BY <2>1, <3>2, <3>3, <3>4, SourceOwner
  <2>3. Tested(window[i + 1], isReady)
    BY <2>1 DEF Readiness, SourcesTested
  <2> QED BY <2>1, <2>2, <2>3, TestedElsewhere
<1> QED BY <1>10, <1>11 DEF Readiness

\* A squashed instruction empties the registers it took, which only younger ones
\* could have read.
LEMMA SquashReadiness ==
  ASSUME IInv, Readiness, Squash
  PROVE  Readiness'
<1> DEFINE n == Len(window)
           d == window[n]
<1>1. /\ n \in Nat \ {0} /\ DOMAIN window = 1 .. n
      /\ DOMAIN window' = 1 .. n - 1
      /\ \A j \in 1 .. n - 1 : window'[j] = window[j]
      /\ freelist' = freelist \o d.phys
      /\ retireMap' = retireMap
      /\ isReady' = [p \in Physical |-> isReady[p] /\ p \notin Range(d.phys)]
  BY SquashTypes DEF IInv, Squash
<1>2. d \in Instruction /\ WellFormed(d) /\ n \in DOMAIN window
  BY <1>1, WindowFacts
<1>3. /\ \A l \in Logical : retireMap[l] \notin Range(d.phys)
      /\ \A j \in 1 .. n - 1 : \A k \in DOMAIN window[j].phys : window[j].phys[k] \notin Range(d.phys)
  <2>1. \A p \in Range(d.phys) : InFlight(window, p) /\ \E m \in DOMAIN d.phys : d.phys[m] = p
    BY <1>2 DEF InFlight, Range
  <2>2. \A l \in Logical : retireMap[l] \notin Range(d.phys)
    BY <2>1 DEF IInv, NoRegisterLeak
  <2>3. ASSUME NEW j \in 1 .. n - 1, NEW k \in DOMAIN window[j].phys
        PROVE  window[j].phys[k] \notin Range(d.phys)
    <3>1. j \in DOMAIN window /\ j # n
      <4>1. n \in Nat /\ DOMAIN window = 1 .. n
        BY <1>1
      <4> HIDE DEF n
      <4> QED BY <4>1
    <3> QED BY <1>2, <2>1, <3>1 DEF IInv, NoRegisterLeak
  <2> QED BY <2>2, <2>3
<1>4. /\ d.phys \in Seq(Physical) /\ freelist \in Seq(Physical)
      /\ retireMap \in [Logical -> Physical]
  BY <1>2, InstructionFacts DEF IInv, TypeOK
<1> HIDE DEF d
<1>5. ReadyTracksOwner'
  <2>1. \A l \in Logical : isReady'[retireMap'[l]]
    BY <1>1, <1>3, <1>4 DEF Readiness, ReadyTracksOwner
  <2>2. ASSUME NEW k \in DOMAIN freelist' PROVE ~isReady'[freelist'[k]]
    <3>1. freelist'[k] \in Physical /\ (freelist'[k] \in Range(freelist) \/ freelist'[k] \in Range(d.phys))
      <4>1. /\ Len(freelist') = Len(freelist) + Len(d.phys) /\ freelist' \in Seq(Physical)
            /\ \A j \in 1 .. Len(freelist) + Len(d.phys) :
                  freelist'[j] = IF j <= Len(freelist) THEN freelist[j] ELSE d.phys[j - Len(freelist)]
        BY <1>1, <1>4, ConcatProperties
      <4>2. /\ DOMAIN freelist' = 1 .. Len(freelist') /\ DOMAIN freelist = 1 .. Len(freelist)
            /\ DOMAIN d.phys = 1 .. Len(d.phys)
            /\ Len(freelist) \in Nat /\ Len(d.phys) \in Nat
        BY <1>4, <4>1, LenProperties
      <4>3. freelist'[k] \in Physical
        BY <4>1, ElementOfSeq
      <4>4. k \in DOMAIN freelist \/ (k - Len(freelist) \in DOMAIN d.phys /\ k > Len(freelist))
        BY <4>1, <4>2
      <4> QED BY <4>1, <4>2, <4>3, <4>4 DEF Range
    <3>2. \A p \in Range(freelist) : ~isReady[p]
      BY DEF Readiness, ReadyTracksOwner, Range
    <3> QED BY <1>1, <3>1, <3>2
  <2>3. ASSUME NEW i \in DOMAIN window'
        PROVE  \A k \in DOMAIN window'[i].phys : isReady'[window'[i].phys[k]] <=> window'[i].stage = "complete"
    <3>1. i \in DOMAIN window /\ i \in 1 .. n - 1 /\ window'[i] = window[i]
      BY <1>1
    <3>2. \A k \in DOMAIN window[i].phys :
              /\ window[i].phys[k] \in Physical
              /\ isReady[window[i].phys[k]] <=> window[i].stage = "complete"
      BY <3>1, WindowFacts DEF Readiness, ReadyTracksOwner
    <3> QED BY <1>1, <1>3, <3>1, <3>2
  <2> QED BY <2>1, <2>2, <2>3 DEF ReadyTracksOwner
<1>6. SourcesTested'
  <2> SUFFICES ASSUME NEW i \in DOMAIN window' PROVE Tested(window'[i], isReady')
    BY DEF SourcesTested
  <2>1. i \in DOMAIN window /\ i \in 1 .. n - 1 /\ window'[i] = window[i]
    BY <1>1
  <2>2. ASSUME NEW k \in DOMAIN window[i].srcPhys
        PROVE  isReady'[window[i].srcPhys[k]] <=> isReady[window[i].srcPhys[k]]
    <3> DEFINE p == window[i].srcPhys[k]
               l == window[i].sources[k]
    <3>1. p \in Physical /\ l \in Logical
      BY <2>1, WindowFacts
    <3>2. p \notin Range(d.phys)
      <4>1. CASE p = retireMap[l]
        BY <1>3, <3>1, <4>1
      <4>2. CASE \E j \in 1 .. i - 1 : \E m \in DOMAIN window[j].phys : window[j].phys[m] = p
        <5>1. PICK j \in 1 .. i - 1 : \E m \in DOMAIN window[j].phys : window[j].phys[m] = p
          BY <4>2
        <5>2. j \in 1 .. n - 1
          BY <1>1, <2>1
        <5> QED BY <1>3, <5>1, <5>2
      <4>3. \/ p = retireMap[l] /\ NotWritten(window, l, 1, i - 1)
            \/ \E j \in 1 .. i - 1 : \E m \in DOMAIN window[j].phys : window[j].phys[m] = p
        BY <2>1, SourceOwner
      <4> QED BY <4>1, <4>2, <4>3
    <3> QED BY <1>1, <3>1, <3>2
  <2>3. Tested(window[i], isReady)
    BY <2>1 DEF Readiness, SourcesTested
  <2> QED BY <2>1, <2>2, <2>3, TestedElsewhere
<1> QED BY <1>5, <1>6 DEF Readiness

-----------------------------------------------------------------------------
(***************************************************************************)
(* The counts of mappings.                                                 *)
(***************************************************************************)
Writers(win, l) == {i \in DOMAIN win : l \in Range(win[i].dests)}

LEMMA WritersFinite ==
  ASSUME IInv, NEW l
  PROVE  IsFiniteSet(Writers(window, l)) /\ Cardinality(Writers(window, l)) \in Nat
<1>1. Writers(window, l) \subseteq 1 .. Len(window) /\ Len(window) \in Nat
  BY WindowFacts DEF Writers
<1>2. IsFiniteSet(1 .. Len(window))
  BY <1>1, FS_Interval
<1> QED BY <1>1, <1>2, FS_Subset, FS_CardinalityType

\* One instruction more writes what it writes.
LEMMA DecodeCounts ==
  ASSUME IInv, RenameCountExact, NEW dests \in DestLists, NEW reads \in ReadKinds,
         Decode(dests, reads)
  PROVE  RenameCountExact'
<1> DEFINE n == Len(window)
<1>1. /\ DOMAIN window = 1 .. n /\ n \in Nat
      /\ DOMAIN window' = 1 .. n + 1
      /\ \A j \in 1 .. n : window'[j] = window[j]
      /\ window'[n + 1].dests = dests
  <2>1. /\ DOMAIN window = 1 .. n /\ n \in Nat /\ window \in Seq(Instruction)
    BY WindowFacts DEF IInv, TypeOK
  <2> QED BY <2>1 DEF Decode
<1>2. renameCount' = Recount(renameCount, dests, 1) /\ renameCount \in [Logical -> Int]
  BY DEF Decode, IInv, TypeOK
<1> HIDE DEF n
<1> SUFFICES ASSUME NEW l \in Logical
             PROVE  renameCount'[l] = 1 + Cardinality(Writers(window', l))
  BY DEF RenameCountExact, Writers
<1>3. IsFiniteSet(Writers(window, l)) /\ renameCount[l] = 1 + Cardinality(Writers(window, l))
  BY WritersFinite DEF RenameCountExact, Writers
<1>4. CASE l \in Range(dests)
  <2>1. Writers(window', l) = Writers(window, l) \cup {n + 1} /\ n + 1 \notin Writers(window, l)
    BY <1>1, <1>4 DEF Writers
  <2>2. Cardinality(Writers(window', l)) = Cardinality(Writers(window, l)) + 1
    BY <1>3, <2>1, FS_AddElement
  <2> QED BY <1>2, <1>3, <1>4, <2>2, WritersFinite DEF Recount
<1>5. CASE l \notin Range(dests)
  <2>1. Writers(window', l) = Writers(window, l)
    BY <1>1, <1>5 DEF Writers
  <2> QED BY <1>2, <1>3, <1>5, <2>1 DEF Recount
<1> QED BY <1>4, <1>5

\* The places of the window move by one when its head leaves.
LEMMA RetireCounts ==
  ASSUME IInv, RenameCountExact, Retire
  PROVE  RenameCountExact'
<1> DEFINE n == Len(window)
<1>1. /\ DOMAIN window = 1 .. n /\ n \in Nat \ {0}
      /\ DOMAIN window' = 1 .. n - 1
      /\ \A j \in 1 .. n - 1 : window'[j] = window[j + 1]
  BY RetireTypes DEF IInv
<1>2. renameCount' = Recount(renameCount, window[1].dests, -1) /\ renameCount \in [Logical -> Int]
  BY <1>1 DEF Retire, IInv, TypeOK
<1> HIDE DEF n
<1> SUFFICES ASSUME NEW l \in Logical
             PROVE  renameCount'[l] = 1 + Cardinality(Writers(window', l))
  BY DEF RenameCountExact, Writers
<1>3. IsFiniteSet(Writers(window, l)) /\ renameCount[l] = 1 + Cardinality(Writers(window, l))
  BY WritersFinite DEF RenameCountExact, Writers
<1> DEFINE S == Writers(window, l) \ {1}
           T == Writers(window', l)
           f == [i \in S |-> i - 1]
<1>4. /\ \A i \in S : i \in 2 .. n /\ l \in Range(window[i].dests)
      /\ \A i \in T : i \in 1 .. n - 1 /\ l \in Range(window[i + 1].dests)
  BY <1>1 DEF Writers
<1>5. f \in Bijection(S, T)
  <2>1. ASSUME NEW i \in S PROVE i - 1 \in T
    <3>1. i - 1 \in 1 .. n - 1 /\ (i - 1) + 1 = i
      BY <1>1, <1>4
    <3> QED BY <1>1, <1>4, <3>1 DEF Writers
  <2>2. ASSUME NEW i \in T PROVE i + 1 \in S /\ f[i + 1] = i
    <3>1. i + 1 \in 1 .. n /\ i + 1 # 1 /\ (i + 1) - 1 = i
      BY <1>1, <1>4
    <3>2. i + 1 \in S
      BY <1>1, <1>4, <3>1 DEF Writers
    <3> QED BY <3>1, <3>2
  <2>3. f \in [S -> T]
    BY <2>1
  <2>4. \A i, j \in S : f[i] = f[j] => i = j
    BY <1>4
  <2> HIDE DEF f, S, T
  <2> QED BY <2>2, <2>3, <2>4 DEF Bijection, Injection, Surjection, IsInjective
<1>6. IsFiniteSet(S) /\ IsFiniteSet(T) /\ Cardinality(T) = Cardinality(S)
  <2>1. IsFiniteSet(S)
    BY <1>3, FS_Subset
  <2> HIDE DEF f, S, T
  <2> QED BY <1>5, <2>1, FS_Bijection DEF ExistsBijection
<1>7. CASE l \in Range(window[1].dests)
  <2>1. 1 \in Writers(window, l)
    BY <1>1, <1>7 DEF Writers
  <2>2. Cardinality(S) = Cardinality(Writers(window, l)) - 1
    BY <1>3, <2>1, FS_RemoveElement
  <2> QED BY <1>2, <1>3, <1>6, <1>7, <2>2, WritersFinite DEF Recount
<1>8. CASE l \notin Range(window[1].dests)
  <2>1. S = Writers(window, l)
    BY <1>8 DEF Writers
  <2> QED BY <1>2, <1>3, <1>6, <1>8, <2>1 DEF Recount
<1> QED BY <1>7, <1>8

LEMMA SquashCounts ==
  ASSUME IInv, RenameCountExact, Squash
  PROVE  RenameCountExact'
<1> DEFINE n == Len(window)
<1>1. /\ DOMAIN window = 1 .. n /\ n \in Nat \ {0}
      /\ DOMAIN window' = 1 .. n - 1
      /\ \A j \in 1 .. n - 1 : window'[j] = window[j]
  BY SquashTypes DEF IInv
<1>2. renameCount' = Recount(renameCount, window[n].dests, -1) /\ renameCount \in [Logical -> Int]
  BY DEF Squash, IInv, TypeOK
<1> HIDE DEF n
<1> SUFFICES ASSUME NEW l \in Logical
             PROVE  renameCount'[l] = 1 + Cardinality(Writers(window', l))
  BY DEF RenameCountExact, Writers
<1>3. IsFiniteSet(Writers(window, l)) /\ renameCount[l] = 1 + Cardinality(Writers(window, l))
  BY WritersFinite DEF RenameCountExact, Writers
<1>4. Writers(window', l) = Writers(window, l) \ {n}
  BY <1>1 DEF Writers
<1>5. CASE l \in Range(window[n].dests)
  <2>1. n \in Writers(window, l)
    BY <1>1, <1>5 DEF Writers
  <2>2. Cardinality(Writers(window', l)) = Cardinality(Writers(window, l)) - 1
    BY <1>3, <1>4, <2>1, FS_RemoveElement
  <2> QED BY <1>2, <1>3, <1>5, <2>2, WritersFinite DEF Recount
<1>6. CASE l \notin Range(window[n].dests)
  <2>1. Writers(window', l) = Writers(window, l)
    BY <1>4, <1>6 DEF Writers
  <2> QED BY <1>2, <1>3, <1>6, <2>1 DEF Recount
<1> QED BY <1>5, <1>6

\* Where no instruction comes or goes, the counts stay.
LEMMA SameCounts ==
  ASSUME RenameCountExact, DOMAIN window' = DOMAIN window, renameCount' = renameCount,
         \A j \in DOMAIN window : window'[j].dests = window[j].dests
  PROVE  RenameCountExact'
<1>1. \A l \in Logical : Writers(window', l) = Writers(window, l)
  BY DEF Writers
<1> QED BY <1>1 DEF RenameCountExact, Writers

\* Schedule moves no register.
LEMMA ScheduleCounts ==
  ASSUME IInv, RenameCountExact, NEW i \in 1 .. RobSize, Schedule(i)
  PROVE  RenameCountExact'
<1>1. /\ i \in DOMAIN window /\ DOMAIN window' = DOMAIN window
      /\ window'[i] = TestSources(window[i], isReady)
      /\ \A j \in DOMAIN window \ {i} : window'[j] = window[j]
      /\ renameCount' = renameCount
  BY ScheduleTypes DEF IInv, Schedule
<1>2. window'[i].dests = window[i].dests
  BY <1>1, WindowFacts, TestSourcesFacts
<1> QED BY <1>1, <1>2, SameCounts

LEMMA WaitForDataCounts ==
  ASSUME IInv, RenameCountExact, NEW i \in 1 .. RobSize, WaitForData(i)
  PROVE  RenameCountExact'
<1>1. /\ i \in DOMAIN window /\ DOMAIN window' = DOMAIN window
      /\ window'[i] = TestData(window[i], isReady)
      /\ \A j \in DOMAIN window \ {i} : window'[j] = window[j]
      /\ renameCount' = renameCount
  BY WaitForDataTypes DEF IInv, WaitForData
<1>2. window'[i].dests = window[i].dests
  BY <1>1, WindowFacts, TestDataFacts
<1> QED BY <1>1, <1>2, SameCounts

\* Nor does a completion.
LEMMA CompleteCounts ==
  ASSUME IInv, RenameCountExact, NEW i \in 1 .. RobSize, Complete(i)
  PROVE  RenameCountExact'
<1>1. /\ i \in DOMAIN window /\ DOMAIN window' = DOMAIN window
      /\ window'[i] = SetStage(window[i], 0, "complete")
      /\ \A j \in DOMAIN window \ {i} : \/ window'[j] = window[j]
                                        \/ window'[j] = Resume(window[j], isReady')
      /\ renameCount' = renameCount
  BY CompleteTypes DEF IInv, Complete
<1>2. window'[i].dests = window[i].dests
  <2>1. window[i] \in Instruction /\ WellFormed(window[i])
    BY <1>1, WindowFacts
  <2>2. "complete" \in Stage /\ 0 \in Nat /\ 0 <= Len(window[i].sources)
    BY <2>1, LenProperties DEF Stage, Instruction
  <2> QED BY <1>1, <2>1, <2>2, SetStageFacts
<1>3. \A j \in DOMAIN window \ {i} : window'[j].dests = window[j].dests
  BY <1>1, WindowFacts, ResumeFacts
<1> QED BY <1>1, <1>2, <1>3, SameCounts

-----------------------------------------------------------------------------
BookkeepingInv == IInv /\ Readiness /\ RenameCountExact

LEMMA InitBookkeeping == Init => BookkeepingInv
<1> SUFFICES ASSUME Init PROVE RenameCountExact
  BY InitIInv, InitReadiness DEF BookkeepingInv
<1>1. \A l \in Logical : renameCount[l] = 1 /\ Writers(window, l) = {}
  BY DEF Init, Writers
<1>2. Cardinality({}) = 0
  BY FS_EmptySet
<1> QED BY <1>1, <1>2 DEF RenameCountExact, Writers

LEMMA NextBookkeeping == BookkeepingInv /\ [Next]_vars => BookkeepingInv'
<1> SUFFICES ASSUME BookkeepingInv, [Next]_vars PROVE Readiness' /\ RenameCountExact'
  BY NextIInv DEF BookkeepingInv
<1> USE DEF BookkeepingInv
<1>1. ASSUME NEW dests \in DestLists, NEW reads \in ReadKinds, Decode(dests, reads)
      PROVE  Readiness' /\ RenameCountExact'
  BY <1>1, DecodeReadiness, DecodeCounts
<1>2. ASSUME NEW i \in 1 .. RobSize, Schedule(i)
      PROVE  Readiness' /\ RenameCountExact'
  BY <1>2, ScheduleReadiness, ScheduleCounts
<1>3. ASSUME NEW i \in 1 .. RobSize, Complete(i)
      PROVE  Readiness' /\ RenameCountExact'
  BY <1>3, CompleteReadiness, CompleteCounts
<1>4. CASE Retire
  BY <1>4, RetireReadiness, RetireCounts
<1>5. CASE Squash
  BY <1>5, SquashReadiness, SquashCounts
<1>6. CASE UNCHANGED vars
  BY <1>6 DEF vars, Readiness, ReadyTracksOwner, SourcesTested, RenameCountExact
<1>7. ASSUME NEW i \in 1 .. RobSize, WaitForData(i)
      PROVE  Readiness' /\ RenameCountExact'
  BY <1>7, WaitForDataReadiness, WaitForDataCounts
<1> QED BY <1>1, <1>2, <1>3, <1>4, <1>5, <1>6, <1>7 DEF Next

\* What a waiting instruction waits for is unwritten, hence not architected, hence
\* of an older instruction that has not completed.
LEMMA WaitsHaveWriters == BookkeepingInv => NoLostWakeup
<1> SUFFICES ASSUME BookkeepingInv, NEW i \in DOMAIN window
             PROVE  LET d == window[i] IN
                    /\ Waiting(d) =>
                          \E j \in 1 .. i - 1 : /\ d.srcPhys[d.untested] \in Range(window[j].phys)
                                                /\ window[j].stage # "complete"
                    /\ d.stage \in {"ready", "early", "complete"} =>
                          \A k \in 1 .. d.issue : isReady[d.srcPhys[k]]
                    /\ d.stage = "complete" /\ d.data =>
                          \A k \in DOMAIN d.srcPhys : isReady[d.srcPhys[k]]
  BY DEF NoLostWakeup
<1> DEFINE d == window[i]
<1>1. IInv /\ Tested(d, isReady) /\ ReadyTracksOwner
  BY DEF BookkeepingInv, Readiness, SourcesTested
<1>2. ASSUME Waiting(d)
      PROVE  \E j \in 1 .. i - 1 : /\ d.srcPhys[d.untested] \in Range(window[j].phys)
                                   /\ window[j].stage # "complete"
  <2> DEFINE k == d.untested
             l == d.sources[k]
  <2>1. k \in DOMAIN d.srcPhys /\ ~isReady[d.srcPhys[k]]
    BY <1>1, <1>2 DEF Tested
  <2>2. d.srcPhys[k] # retireMap[l]
    <3>1. l \in Logical
      BY <1>1, <2>1, WindowFacts
    <3> QED BY <1>1, <2>1, <3>1 DEF ReadyTracksOwner
  <2>3. \/ d.srcPhys[k] = retireMap[l] /\ NotWritten(window, l, 1, i - 1)
        \/ \E j \in 1 .. i - 1 : \E m \in DOMAIN window[j].phys : window[j].phys[m] = d.srcPhys[k]
    BY <1>1, <2>1, SourceOwner
  <2>4. PICK j \in 1 .. i - 1 : \E m \in DOMAIN window[j].phys : window[j].phys[m] = d.srcPhys[k]
    BY <2>2, <2>3
  <2>5. PICK m \in DOMAIN window[j].phys : window[j].phys[m] = d.srcPhys[k]
    BY <2>4
  <2>6. j \in DOMAIN window
    BY <1>1, WindowFacts
  <2>7. window[j].stage # "complete"
    BY <1>1, <2>1, <2>5, <2>6 DEF ReadyTracksOwner
  <2>8. d.srcPhys[k] \in Range(window[j].phys)
    BY <2>5 DEF Range
  <2> QED BY <2>7, <2>8
<1>3. ASSUME d.stage \in {"ready", "early", "complete"}, NEW k \in 1 .. d.issue
      PROVE  isReady[d.srcPhys[k]]
  <2>1. /\ DOMAIN d.srcPhys = 1 .. Len(d.srcPhys) /\ Len(d.srcPhys) \in Nat
        /\ d.issue \in Nat /\ d.issue <= Len(d.srcPhys)
    BY <1>1, WindowFacts, LenProperties DEF Instruction, WellFormed
  <2>2. k \in DOMAIN d.srcPhys /\ k <= d.issue /\ k > 0
    BY <2>1
  <2>3. CASE d.stage = "early"
    BY <1>1, <2>2, <2>3 DEF Tested, Confirmed
  <2>4. CASE d.stage # "early"
    <3>1. d.untested = 0
      BY <1>1, <1>3, <2>4 DEF Tested
    <3> QED BY <1>1, <2>2, <2>4, <3>1 DEF Tested, Confirmed
  <2> QED BY <2>3, <2>4
<1>4. d.stage = "complete" /\ d.data => \A k \in DOMAIN d.srcPhys : isReady[d.srcPhys[k]]
  BY <1>1 DEF Tested, HasSources
<1> QED BY <1>2, <1>3, <1>4

\* Nothing waits for a register that nobody will write, before it issues or for its
\* data in the middle of its execution, whatever completes, retires
\* or is squashed in between; ready bits and rename counts are exact.
THEOREM BookkeepingIsExact == Spec => []BookkeepingExact
<1>1. Init => BookkeepingInv
  BY InitBookkeeping
<1>2. BookkeepingInv /\ [Next]_vars => BookkeepingInv'
  BY NextBookkeeping
<1>3. BookkeepingInv => BookkeepingExact
  BY WaitsHaveWriters DEF BookkeepingInv, Readiness, BookkeepingExact
<1> QED BY <1>1, <1>2, <1>3, PTL DEF Spec
=============================================================================
