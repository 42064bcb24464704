--------------------- MODULE SchedulerRingLockProofs ---------------------
(***************************************************************************)
(* Proofs about three components.                                          *)
(*                                                                         *)
(* ContainerRing, for any window, any number of registers and however many *)
(* slots are taken behind an instruction: first, that an instruction in    *)
(* flight loses what decode put in its slots only when the whole ring has  *)
(* been taken since; then, that no register is lost or freed twice before  *)
(* one that was lapped so is retired or squashed.                          *)
(*                                                                         *)
(* ReadersWriterLock, for any number of threads: that the two counts by    *)
(* which the methods decide are those of the threads that hold the lock,   *)
(* that a writer is alone, that nobody who holds the lock is refused when  *)
(* releasing it, and that a single writer goes before the readers.         *)
(*                                                                         *)
(* Scheduler, for any units, latencies, widths and lengths of the ring:    *)
(* that each instruction is in the one list its state says, that the lists *)
(* are in their orders, that an instruction executes when its latency is   *)
(* over, and that the oldest go first.                                     *)
(***************************************************************************)
EXTENDS ContainerRing, ReadersWriterLock, Scheduler,
        FiniteSetsExt, SequenceTheorems, FiniteSetTheorems, WellFoundedInduction, TLAPS

-----------------------------------------------------------------------------
(***************************************************************************)
(* Numbers and finite sets of them.                                        *)
(***************************************************************************)

\* One step around a ring, and less than one round.
LEMMA Wrap ==
  ASSUME NEW n \in Nat \ {0}, NEW a \in 0 .. 2 * n - 1
  PROVE  a % n = IF a < n THEN a ELSE a - n
<1>1. CASE a < n
  BY <1>1
<1>2. CASE a >= n
  <2> DEFINE b == a - n
  <2>1. b \in 0 .. n - 1 /\ a = b + n
    BY <1>2
  <2>2. b % n = b
    BY <2>1
  <2>3. (b + n) % n = b % n
    BY <2>1
  <2> QED BY <1>2, <2>1, <2>2, <2>3
<1> QED BY <1>1, <1>2

-----------------------------------------------------------------------------
(***************************************************************************)
(* The ring and the window.                                                *)
(***************************************************************************)

LEMMA SizeFacts == Size \in Nat /\ Size >= 4 /\ Slots = 0 .. Size - 1
BY RingAssumption DEF Size, Slots

\* An instruction of the window has the fields Decode gave it.
LEMMA WindowFacts ==
  ASSUME TypeOK, NEW i \in DOMAIN window
  PROVE  /\ i \in 1 .. Len(window) /\ i \in Nat /\ Len(window) \in Nat
         /\ window[i] \in Instruction /\ window[i].op \in Ops
         /\ window[i].source \in Slots /\ window[i].tofree \in Slots
         /\ window[i].dest \in Slots /\ window[i].age \in 1 .. MaxAge
         /\ window[i].reg \in Regs /\ window[i].displaced \in Phys
         /\ window[i].given \in Phys
<1>1. window \in Seq(Instruction)
  BY DEF TypeOK
<1>2. i \in 1 .. Len(window) /\ Len(window) \in Nat /\ window[i] \in Instruction
  BY <1>1, LenProperties, ElementOfSeq
<1> QED BY <1>2 DEF Instruction

LEMMA OpFacts ==
  ASSUME NEW op \in Ops
  PROVE  /\ Taken(op) \in 1 .. 3
         /\ Reads(op) => First(op) = 1
         /\ ~Reads(op) => First(op) = 0 /\ Writes(op)
         /\ Writes(op) => Taken(op) = First(op) + 2
         /\ ~Writes(op) => Taken(op) = 1 /\ First(op) = 1
BY RingAssumption DEF Taken, First, Reads, Writes

-----------------------------------------------------------------------------
(***************************************************************************)
(* Where the slots of an instruction are: counted back from the index, the *)
(* first as many places as have been taken since, and the rest behind it.  *)
(***************************************************************************)

\* The place of the k-th slot of an instruction of the given age.
PlaceAt(x, age, k) == (x + Size - age + k) % Size

Placed(x, d) ==
    /\ Taken(d.op) <= d.age
    /\ Reads(d.op) => d.source = PlaceAt(x, d.age, 0)
    /\ Writes(d.op) => /\ d.tofree = PlaceAt(x, d.age, First(d.op))
                       /\ d.dest = PlaceAt(x, d.age, First(d.op) + 1)

\* What SlotsKept says of one instruction.
Kept(s, d) ==
    /\ Reads(d.op) => s[d.source] = [reg |-> d.reg, phys |-> d.displaced]
    /\ Writes(d.op) => /\ s[d.tofree] = [reg |-> d.reg, phys |-> d.displaced]
                       /\ s[d.dest]   = [reg |-> d.reg, phys |-> d.given]

\* An instruction that is not lapped.
PlacedAndKept(x, s, d) == Lapped(d) \/ (Placed(x, d) /\ Kept(s, d))

SlotsInv ==
    /\ TypeOK
    /\ \A i \in DOMAIN window : PlacedAndKept(index, slots, window[i])

\* Places spelled out without the remainder.
LEMMA SlotPlace ==
  ASSUME index \in Slots, NEW k \in 0 .. 3
  PROVE  /\ Slot(k) = IF index + k < Size THEN index + k ELSE index + k - Size
         /\ Slot(k) \in Slots
<1>1. index \in 0 .. Size - 1 /\ Size \in Nat /\ Size >= 4
  BY SizeFacts
<1> DEFINE a == index + k
<1>2. a \in 0 .. 2 * Size - 1 /\ Size \in Nat \ {0}
  BY <1>1
<1>3. a % Size = IF a < Size THEN a ELSE a - Size
  <2> HIDE DEF a
  <2> QED BY <1>2, Wrap
<1>4. Slot(k) = IF index + k < Size THEN index + k ELSE index + k - Size
  BY <1>1, <1>2, <1>3 DEF Slot
<1> QED BY <1>1, <1>4, SizeFacts

LEMMA WrapBack ==
  ASSUME NEW n \in Nat \ {0}, NEW i \in 0 .. n - 1, NEW age \in 1 .. n, NEW k \in 0 .. age - 1
  PROVE  (i + n - age + k) % n = IF i + n - age + k < n THEN i + n - age + k ELSE i - age + k
<1> DEFINE a == i + n - age + k
<1>1. a \in 0 .. 2 * n - 1
  OBVIOUS
<1>2. a % n = IF a < n THEN a ELSE a - n
  <2> HIDE DEF a
  <2> QED BY <1>1, Wrap
<1> QED BY <1>2

\* A place does not move when more slots are taken.
LEMMA PlaceStays ==
  ASSUME index \in Slots, NEW t \in 1 .. 3, index' = Slot(t),
         NEW age \in Nat, age + t <= Size, NEW k \in 0 .. age + t - 1, k < age \/ age = 0
  PROVE  PlaceAt(index', age + t, k) = IF age = 0 THEN Slot(k) ELSE PlaceAt(index, age, k)
<1>1. index \in 0 .. Size - 1 /\ Size \in Nat /\ Size >= 4
  BY SizeFacts
<1>2. index' = IF index + t < Size THEN index + t ELSE index + t - Size
  BY SlotPlace
<1>3. index' \in 0 .. Size - 1
  BY <1>1, <1>2
<1>4. PlaceAt(index', age + t, k) = IF index' + Size - (age + t) + k < Size
                        THEN index' + Size - (age + t) + k ELSE index' - (age + t) + k
  <2>1. PlaceAt(index', age + t, k) = (index' + Size - (age + t) + k) % Size
    BY DEF PlaceAt, Size
  <2> DEFINE later == age + t
  <2>2. Size \in Nat \ {0} /\ later \in 1 .. Size /\ k \in 0 .. later - 1
    BY <1>1
  <2>3. (index' + Size - later + k) % Size =
            IF index' + Size - later + k < Size THEN index' + Size - later + k
            ELSE index' - later + k
    <3> HIDE DEF later
    <3> QED BY <1>3, <2>2, WrapBack
  <2> QED BY <2>1, <2>3
<1>5. CASE age = 0
  <2>1. Slot(k) = IF index + k < Size THEN index + k ELSE index + k - Size
    <3>1. k \in 0 .. 3
      BY <1>5
    <3> QED BY <3>1, SlotPlace
  <2> QED BY <1>1, <1>2, <1>4, <1>5, <2>1
<1>6. CASE age # 0
  <2>1. PlaceAt(index, age, k) = IF index + Size - age + k < Size THEN index + Size - age + k
                     ELSE index - age + k
    <3>1. Size \in Nat \ {0} /\ age \in 1 .. Size /\ k \in 0 .. age - 1
      BY <1>1, <1>6
    <3> QED BY <1>1, <3>1, WrapBack DEF PlaceAt
  <2> QED BY <1>1, <1>2, <1>4, <1>6, <2>1
<1> QED BY <1>5, <1>6

\* Slots taken now are not those of an instruction in flight.
LEMMA PlacesApart ==
  ASSUME index \in Slots, NEW t \in 1 .. 3, NEW j \in 0 .. t - 1,
         NEW age \in 1 .. Size, age + t <= Size, NEW k \in 0 .. age - 1
  PROVE  Slot(j) # PlaceAt(index, age, k)
<1>1. index \in 0 .. Size - 1 /\ Size \in Nat /\ Size >= 4
  BY SizeFacts
<1>2. Slot(j) = IF index + j < Size THEN index + j ELSE index + j - Size
  BY SlotPlace
<1>3. PlaceAt(index, age, k) = IF index + Size - age + k < Size THEN index + Size - age + k
                   ELSE index - age + k
  <2>1. Size \in Nat \ {0}
    BY <1>1
  <2> QED BY <1>1, <2>1, WrapBack DEF PlaceAt
<1> HIDE DEF PlaceAt, Slot
<1> QED BY <1>1, <1>2, <1>3

-----------------------------------------------------------------------------
(***************************************************************************)
(* What each action makes of the window.                                   *)
(***************************************************************************)

\* Everything of an instruction but its age.
SameButAge(d, e) ==
    /\ d.op = e.op /\ d.source = e.source /\ d.tofree = e.tofree /\ d.dest = e.dest
    /\ d.reg = e.reg /\ d.displaced = e.displaced /\ d.given = e.given

LEMMA OlderByTaken ==
  ASSUME NEW d \in Instruction, NEW age \in 1 .. MaxAge
  PROVE  /\ [d EXCEPT !.age = age] \in Instruction
         /\ [d EXCEPT !.age = age].age = age
         /\ SameButAge([d EXCEPT !.age = age], d)
BY DEF Instruction, SameButAge

LEMMA DecodedWindow ==
  ASSUME TypeOK, NEW op \in Ops, NEW r \in Regs, NEW p \in Phys, Decode(op, r, p)
  PROVE  /\ window' \in Seq(Instruction)
         /\ DOMAIN window' = 1 .. Len(window) + 1 /\ Len(window) \in Nat
         /\ \A i \in 1 .. Len(window) :
                /\ SameButAge(window'[i], window[i])
                /\ window'[i].age = window[i].age + Taken(op)
                /\ window'[i].age <= MaxAge
         /\ LET d == window'[Len(window) + 1] IN
                /\ d.op = op /\ d.source = Slot(0) /\ d.tofree = Slot(First(op))
                /\ Writes(op) => d.dest = Slot(First(op) + 1)
                /\ d.age = Taken(op) /\ d.reg = r
                /\ d.displaced = decodeMap[r] /\ d.given = p
<1> DEFINE old == [i \in DOMAIN window |-> [window[i] EXCEPT !.age = @ + Taken(op)]]
           new == [op |-> op, source |-> Slot(0), tofree |-> Slot(First(op)),
                   dest |-> IF Writes(op) THEN Slot(First(op) + 1) ELSE Slot(0),
                   age |-> Taken(op), reg |-> r, displaced |-> decodeMap[r], given |-> p]
<1>1. window' = Append(old, new)
  BY DEF Decode
<1>2. Len(window) \in Nat /\ DOMAIN window = 1 .. Len(window)
  BY LenProperties DEF TypeOK
<1>3. ASSUME NEW i \in 1 .. Len(window)
      PROVE  /\ old[i] \in Instruction
             /\ SameButAge(old[i], window[i]) /\ old[i].age = window[i].age + Taken(op)
             /\ old[i].age <= MaxAge
  <2>1. window[i] \in Instruction /\ window[i].age \in 1 .. MaxAge
    BY <1>2, WindowFacts
  <2>2. window[i].age + Taken(op) \in 1 .. MaxAge
    <3>1. window[i].age + Taken(op) <= MaxAge
      BY <1>2 DEF Decode
    <3> QED BY <2>1, <3>1, OpFacts, RingAssumption
  <2>3. old[i] = [window[i] EXCEPT !.age = window[i].age + Taken(op)]
    BY <1>2
  <2> QED BY <2>1, <2>2, <2>3, OlderByTaken
<1>4. old \in Seq(Instruction) /\ Len(old) = Len(window)
  <2>1. old \in [1 .. Len(window) -> Instruction]
    BY <1>2, <1>3
  <2> QED BY <1>2, <2>1, SeqDef, LenProperties
<1>5. new \in Instruction
  <2>1. First(op) + 1 \in 0 .. 3 /\ First(op) \in 0 .. 3 /\ Taken(op) \in 1 .. MaxAge
    BY OpFacts, RingAssumption DEF First
  <2>2. Slot(0) \in Slots /\ Slot(First(op)) \in Slots /\ Slot(First(op) + 1) \in Slots
    BY <2>1, SlotPlace DEF TypeOK
  <2>3. decodeMap[r] \in Phys
    BY DEF TypeOK
  <2> QED BY <2>1, <2>2, <2>3 DEF Instruction
<1>6. /\ window' \in Seq(Instruction) /\ DOMAIN window' = 1 .. Len(window) + 1
      /\ \A i \in 1 .. Len(window) : window'[i] = old[i]
      /\ window'[Len(window) + 1] = new
  <2> HIDE DEF old, new
  <2> QED BY <1>1, <1>2, <1>4, <1>5, AppendProperties, LenProperties
<1>7. ASSUME NEW i \in 1 .. Len(window)
      PROVE  /\ SameButAge(window'[i], window[i])
             /\ window'[i].age = window[i].age + Taken(op) /\ window'[i].age <= MaxAge
  <2> HIDE DEF old
  <2> QED BY <1>3, <1>6
<1> QED BY <1>2, <1>6, <1>7

\* Retirement and a squash take the first or the last away.
LEMMA RetiredWindow ==
  ASSUME TypeOK, Retire
  PROVE  /\ window' \in Seq(Instruction) /\ DOMAIN window' = 1 .. Len(window) - 1
         /\ Len(window) \in Nat \ {0} /\ 1 \in DOMAIN window /\ Head(window) = window[1]
         /\ \A i \in 1 .. Len(window) - 1 : window'[i] = window[i + 1] /\ i + 1 \in DOMAIN window
<1>1. window \in Seq(Instruction) /\ window # <<>> /\ window' = Tail(window)
  BY DEF TypeOK, Retire
<1>2. Len(window) \in Nat /\ Len(window) >= 1 /\ DOMAIN window = 1 .. Len(window)
  BY <1>1, LenProperties, EmptySeq
<1> QED BY <1>1, <1>2, HeadTailProperties, LenProperties

LEMMA SquashedWindow ==
  ASSUME TypeOK, Squash
  PROVE  /\ window' \in Seq(Instruction) /\ DOMAIN window' = 1 .. Len(window) - 1
         /\ Len(window) \in Nat \ {0} /\ Len(window) \in DOMAIN window
         /\ \A i \in 1 .. Len(window) - 1 : window'[i] = window[i] /\ i \in DOMAIN window
<1>1. window \in Seq(Instruction) /\ window # <<>> /\ window' = SubSeq(window, 1, Len(window) - 1)
  BY DEF TypeOK, Squash
<1>2. Len(window) \in Nat /\ Len(window) >= 1 /\ DOMAIN window = 1 .. Len(window)
  BY <1>1, LenProperties, EmptySeq
<1> QED BY <1>1, <1>2, SubSeqProperties, LenProperties

-----------------------------------------------------------------------------
(***************************************************************************)
(* The slots are kept.                                                     *)
(***************************************************************************)

\* What decode leaves of the slots: those it takes get what it read and renamed.
LEMMA DecodedSlots ==
  ASSUME TypeOK, NEW op \in Ops, NEW r \in Regs, NEW p \in Phys, Decode(op, r, p)
  PROVE  /\ slots' \in [Slots -> Named] /\ index' = Slot(Taken(op)) /\ index' \in Slots
         /\ \A s \in Slots : (\A k \in 0 .. Taken(op) - 1 : s # Slot(k)) => slots'[s] = slots[s]
         /\ Reads(op) => slots'[Slot(0)] = [reg |-> r, phys |-> decodeMap[r]]
         /\ Writes(op) => /\ slots'[Slot(First(op))] = [reg |-> r, phys |-> decodeMap[r]]
                          /\ slots'[Slot(First(op) + 1)] = [reg |-> r, phys |-> p]
<1>1. /\ \A k \in 0 .. 3 : Slot(k) \in Slots
      /\ Slot(0) # Slot(1) /\ Slot(1) # Slot(2) /\ Slot(0) # Slot(2)
  <2>1. index \in Slots
    BY DEF TypeOK
  <2>2. \A k \in 0 .. 3 : Slot(k) = IF index + k < Size THEN index + k ELSE index + k - Size
    BY <2>1, SlotPlace
  <2>3. \A k \in 0 .. 3 : Slot(k) \in Slots
    BY <2>1, SlotPlace
  <2> HIDE DEF Slot
  <2> QED BY <2>1, <2>2, <2>3, SizeFacts
<1> DEFINE taken == {Slot(k) : k \in 0 .. Taken(op) - 1}
           read == [reg |-> r, phys |-> decodeMap[r]]
           written == [reg |-> r, phys |-> p]
<1>2. read \in Named /\ written \in Named
  BY DEF Named, TypeOK
<1>3. slots' = [s \in Slots |->
                  IF Writes(op) /\ s = Slot(First(op) + 1) THEN written
                  ELSE IF s \in taken THEN read ELSE slots[s]]
  BY DEF Decode
<1>4. slots' \in [Slots -> Named]
  <2> HIDE DEF read, written, taken
  <2> QED BY <1>2, <1>3 DEF TypeOK
<1>5. index' = Slot(Taken(op)) /\ index' \in Slots
  <2>1. Taken(op) \in 0 .. 3
    BY OpFacts
  <2> QED BY <1>1, <2>1 DEF Decode
<1>6. ASSUME NEW s \in Slots, \A k \in 0 .. Taken(op) - 1 : s # Slot(k)
      PROVE  slots'[s] = slots[s]
  <2>1. s \notin taken
    BY <1>6
  <2>2. Writes(op) => Slot(First(op) + 1) \in taken
    <3>1. Writes(op) => First(op) + 1 \in 0 .. Taken(op) - 1
      BY OpFacts
    <3> QED BY <3>1
  <2> HIDE DEF read, written, taken
  <2> QED BY <1>3, <2>1, <2>2
<1>7. Reads(op) => slots'[Slot(0)] = read
  <2> SUFFICES ASSUME Reads(op) PROVE slots'[Slot(0)] = read
    OBVIOUS
  <2>1. First(op) = 1 /\ 0 \in 0 .. Taken(op) - 1
    BY OpFacts
  <2>2. Slot(0) \in taken
    BY <2>1
  <2> HIDE DEF read, written, taken
  <2> QED BY <1>1, <1>3, <2>1, <2>2
<1>8. Writes(op) => slots'[Slot(First(op))] = read /\ slots'[Slot(First(op) + 1)] = written
  <2> SUFFICES ASSUME Writes(op)
               PROVE  slots'[Slot(First(op))] = read /\ slots'[Slot(First(op) + 1)] = written
    OBVIOUS
  <2>1. First(op) \in {0, 1} /\ First(op) \in 0 .. Taken(op) - 1
    BY OpFacts
  <2>2. Slot(First(op)) \in taken /\ Slot(First(op)) \in Slots /\ Slot(First(op) + 1) \in Slots
    BY <1>1, <2>1
  <2>3. Slot(First(op)) # Slot(First(op) + 1)
    BY <1>1, <2>1
  <2> HIDE DEF read, written, taken
  <2> QED BY <1>3, <2>2, <2>3
<1> QED BY <1>4, <1>5, <1>6, <1>7, <1>8

\* Init and the steps preserve the types.
LEMMA InitType == Init => TypeOK
<1> SUFFICES ASSUME Init PROVE TypeOK
  OBVIOUS
<1>1. index \in Slots /\ window \in Seq(Instruction)
  BY SizeFacts, EmptySeq DEF Init
<1>4. misled \in BOOLEAN
  BY DEF Init
<1>2. PICK start \in [Regs -> Phys] :
         /\ decodeMap = start /\ retireMap = start
         /\ free = Phys \ {start[r] : r \in Regs}
         /\ \E r \in Regs : slots = [s \in Slots |-> [reg |-> r, phys |-> start[r]]]
  BY DEF Init
<1>3. slots \in [Slots -> Named]
  BY <1>2 DEF Named
<1> QED BY <1>1, <1>2, <1>3, <1>4 DEF TypeOK

LEMMA NextType == TypeOK /\ [Next]_vars => TypeOK'
<1> SUFFICES ASSUME TypeOK, [Next]_vars PROVE TypeOK'
  OBVIOUS
<1>1. ASSUME NEW op \in Ops, NEW r \in Regs, NEW p \in Phys, Decode(op, r, p)
      PROVE  TypeOK'
  <2>1. window' \in Seq(Instruction) /\ slots' \in [Slots -> Named] /\ index' \in Slots
    BY <1>1, DecodedWindow, DecodedSlots
  <2>2. /\ decodeMap' \in [Regs -> Phys] /\ retireMap' \in [Regs -> Phys]
        /\ free' \subseteq Phys /\ misled' \in BOOLEAN
    BY <1>1 DEF Decode, TypeOK
  <2> QED BY <2>1, <2>2 DEF TypeOK, Slots, Size, Instruction, Named
<1>2. CASE Retire
  <2>1. window' \in Seq(Instruction) /\ Head(window) \in Instruction
    <3>1. Head(window) = window[1] /\ 1 \in DOMAIN window
      BY <1>2, RetiredWindow
    <3> QED BY <1>2, <3>1, RetiredWindow, WindowFacts
  <2>2. retireMap' \in [Regs -> Phys] /\ free' \subseteq Phys
    <3> DEFINE d == Head(window)
    <3>1. slots[d.dest] \in Named /\ slots[d.tofree] \in Named
      BY <2>1 DEF TypeOK, Instruction
    <3>2. CASE RetireParts(d)
      BY <3>1, <3>2 DEF RetireParts, TypeOK, Named
    <3>3. CASE UNCHANGED <<retireMap, free>>
      BY <3>3 DEF TypeOK
    <3> QED BY <1>2, <3>2, <3>3 DEF Retire
  <2> QED BY <1>2, <2>1, <2>2 DEF Retire, TypeOK
<1>3. CASE Squash
  <2>1. window' \in Seq(Instruction) /\ window[Len(window)] \in Instruction
    BY <1>3, SquashedWindow, WindowFacts
  <2>2. decodeMap' \in [Regs -> Phys] /\ free' \subseteq Phys
    <3> DEFINE d == window[Len(window)]
    <3>1. slots[d.dest] \in Named /\ slots[d.tofree] \in Named
      BY <2>1 DEF TypeOK, Instruction
    <3>2. CASE /\ decodeMap' = [decodeMap EXCEPT ![slots[d.tofree].reg] = slots[d.tofree].phys]
               /\ free' = free \union {slots[d.dest].phys}
      <4> HIDE DEF d
      <4> QED BY <3>1, <3>2 DEF TypeOK, Named
    <3>3. CASE UNCHANGED <<decodeMap, free>>
      BY <3>3 DEF TypeOK
    <3> QED BY <1>3, <3>2, <3>3 DEF Squash
  <2> QED BY <1>3, <2>1, <2>2 DEF Squash, TypeOK
<1>4. CASE UNCHANGED vars
  BY <1>4 DEF vars, TypeOK
<1> QED BY <1>1, <1>2, <1>3, <1>4 DEF Next

LEMMA DecodeKeepsSlots ==
  ASSUME SlotsInv, NEW op \in Ops, NEW r \in Regs, NEW p \in Phys, Decode(op, r, p)
  PROVE  \A i \in DOMAIN window' : PlacedAndKept(index', slots', window'[i])
<1> DEFINE t == Taken(op)
<1>1. TypeOK /\ index \in Slots /\ index' = Slot(t) /\ t \in 1 .. 3
  BY DecodedSlots, OpFacts DEF SlotsInv, TypeOK
<1>2. DOMAIN window' = 1 .. Len(window) + 1 /\ DOMAIN window = 1 .. Len(window)
      /\ Len(window) \in Nat
  BY <1>1, DecodedWindow, LenProperties DEF TypeOK
<1>3. ASSUME NEW i \in 1 .. Len(window), ~Lapped(window'[i])
      PROVE  Placed(index', window'[i]) /\ Kept(slots', window'[i])
  <2> DEFINE d == window[i]
             e == window'[i]
  <2>0. PlacedAndKept(index, slots, d) /\ d.age \in 1 .. MaxAge /\ d.op \in Ops
    BY <1>1, <1>2, WindowFacts DEF SlotsInv
  <2>2. SameButAge(e, d) /\ e.age = d.age + t
    BY <1>1, DecodedWindow
  <2>3. d.age \in 1 .. Size /\ d.age + t <= Size /\ Size \in Nat
    <3>1. e.age <= Size
      <4>1. ~(e.age > Size)
        BY <1>3 DEF Lapped
      <4>2. e.age \in Nat
        BY <1>1, <2>0, <2>2, RingAssumption
      <4> QED BY <4>1, <4>2, SizeFacts
    <3> QED BY <1>1, <2>0, <2>2, <3>1, SizeFacts, RingAssumption
  <2>1. Placed(index, d) /\ Kept(slots, d) /\ d.age \in 1 .. MaxAge /\ d.op \in Ops
    <3>1. ~Lapped(d)
      BY <1>1, <2>3 DEF Lapped
    <3> QED BY <2>0, <3>1 DEF PlacedAndKept
  <2>4. ASSUME NEW k \in 0 .. Taken(d.op) - 1
        PROVE  /\ PlaceAt(index', e.age, k) = PlaceAt(index, d.age, k)
               /\ PlaceAt(index, d.age, k) \in Slots =>
                      slots'[PlaceAt(index, d.age, k)] = slots[PlaceAt(index, d.age, k)]
    <3>1. k \in 0 .. d.age - 1
      BY <2>1, <2>3, OpFacts DEF Placed
    <3>2. PlaceAt(index', e.age, k) = PlaceAt(index, d.age, k)
      <4>1. PlaceAt(index', d.age + t, k) = IF d.age = 0 THEN Slot(k) ELSE PlaceAt(index, d.age, k)
        <5> DEFINE age == d.age
        <5>1. age \in Nat /\ age + t <= Size /\ k \in 0 .. age + t - 1 /\ k < age
          BY <1>1, <2>3, <3>1
        <5>2. PlaceAt(index', age + t, k) = IF age = 0 THEN Slot(k) ELSE PlaceAt(index, age, k)
          <6> HIDE DEF age, t
          <6> QED BY <1>1, <5>1, PlaceStays
        <5> QED BY <5>2
      <4>2. PlaceAt(index', e.age, k) = PlaceAt(index', d.age + t, k)
        BY <2>2 DEF PlaceAt
      <4> HIDE DEF d
      <4> QED BY <2>3, <4>1, <4>2
    <3>3. \A j \in 0 .. t - 1 : PlaceAt(index, d.age, k) # Slot(j)
      <4> DEFINE age == d.age
      <4>1. age \in 1 .. Size /\ age + t <= Size /\ k \in 0 .. age - 1
        BY <2>3, <3>1
      <4> HIDE DEF age, t
      <4>2. \A j \in 0 .. t - 1 : Slot(j) # PlaceAt(index, age, k)
        BY <1>1, <4>1, PlacesApart
      <4> QED BY <4>2 DEF age
    <3>4. PlaceAt(index, d.age, k) \in Slots => slots'[PlaceAt(index, d.age, k)] = slots[PlaceAt(index, d.age, k)]
      <4> DEFINE place == PlaceAt(index, d.age, k)
      <4>1. \A j \in 0 .. Taken(op) - 1 : place # Slot(j)
        BY <3>3
      <4> HIDE DEF place
      <4>2. place \in Slots => slots'[place] = slots[place]
        BY <1>1, <4>1, DecodedSlots
      <4> QED BY <4>2 DEF place
    <3> QED BY <3>2, <3>4
  <2>5. /\ Taken(e.op) <= e.age
        /\ Reads(d.op) => 0 \in 0 .. Taken(d.op) - 1
        /\ Writes(d.op) => /\ First(d.op) \in 0 .. Taken(d.op) - 1
                           /\ First(d.op) + 1 \in 0 .. Taken(d.op) - 1
    BY <1>1, <2>1, <2>2, <2>3, OpFacts DEF Placed, SameButAge
  <2>6. /\ Reads(d.op) => d.source = PlaceAt(index, d.age, 0)
        /\ Writes(d.op) => /\ d.tofree = PlaceAt(index, d.age, First(d.op))
                           /\ d.dest = PlaceAt(index, d.age, First(d.op) + 1)
    BY <2>1 DEF Placed
  <2>7. d.source \in Slots /\ d.tofree \in Slots /\ d.dest \in Slots
    BY <1>1, <1>2, WindowFacts
  <2>8. Placed(index', e)
    <3>1. /\ Reads(e.op) => e.source = PlaceAt(index', e.age, 0)
          /\ Writes(e.op) => /\ e.tofree = PlaceAt(index', e.age, First(e.op))
                             /\ e.dest = PlaceAt(index', e.age, First(e.op) + 1)
      <4> HIDE DEF d, e, PlaceAt
      <4> QED BY <2>2, <2>4, <2>5, <2>6 DEF SameButAge
    <3> QED BY <2>5, <3>1 DEF Placed
  <2>9. Kept(slots', e)
    <3>1. /\ Reads(d.op) => slots'[d.source] = slots[d.source]
          /\ Writes(d.op) => /\ slots'[d.tofree] = slots[d.tofree]
                             /\ slots'[d.dest] = slots[d.dest]
      <4> HIDE DEF d, e, PlaceAt
      <4> QED BY <2>4, <2>5, <2>6, <2>7
    <3> QED BY <2>1, <2>2, <3>1 DEF Kept, SameButAge
  <2> QED BY <2>8, <2>9
<1>4. Placed(index', window'[Len(window) + 1]) /\ Kept(slots', window'[Len(window) + 1])
  <2> DEFINE d == window'[Len(window) + 1]
  <2>1. /\ d.op = op /\ d.source = Slot(0) /\ d.tofree = Slot(First(op))
        /\ Writes(op) => d.dest = Slot(First(op) + 1)
        /\ d.age = t /\ d.reg = r /\ d.displaced = decodeMap[r] /\ d.given = p
    BY <1>1, DecodedWindow
  <2>2. ASSUME NEW k \in 0 .. t - 1
        PROVE  PlaceAt(index', d.age, k) = Slot(k)
    <3>1. PlaceAt(index', 0 + t, k) = IF 0 = 0 THEN Slot(k) ELSE PlaceAt(index, 0, k)
      <4>1. k \in 0 .. 0 + t - 1 /\ 0 + t <= Size
        BY <1>1, SizeFacts
      <4> HIDE DEF t
      <4> QED BY <1>1, <4>1, PlaceStays
    <3>2. PlaceAt(index', d.age, k) = PlaceAt(index', 0 + t, k)
      <4>1. d.age = 0 + t
        BY <1>1, <2>1
      <4> QED BY <4>1 DEF PlaceAt
    <3> QED BY <3>1, <3>2
  <2>3. /\ Reads(op) => 0 \in 0 .. t - 1
        /\ Writes(op) => First(op) \in 0 .. t - 1 /\ First(op) + 1 \in 0 .. t - 1
    BY OpFacts
  <2>4. Placed(index', d)
    <3>1. /\ Reads(op) => d.source = PlaceAt(index', d.age, 0)
          /\ Writes(op) => /\ d.tofree = PlaceAt(index', d.age, First(op))
                           /\ d.dest = PlaceAt(index', d.age, First(op) + 1)
      <4> HIDE DEF d, t, PlaceAt
      <4> QED BY <2>1, <2>2, <2>3
    <3>2. Taken(d.op) <= d.age
      BY <1>1, <2>1
    <3> QED BY <2>1, <3>1, <3>2 DEF Placed
  <2>5. Kept(slots', d)
    BY <1>1, <2>1, DecodedSlots DEF Kept
  <2> QED BY <2>4, <2>5
<1>5. ASSUME NEW i \in DOMAIN window'
      PROVE  PlacedAndKept(index', slots', window'[i])
  <2>1. i \in 1 .. Len(window) \/ i = Len(window) + 1
    BY <1>2, <1>5
  <2> QED BY <1>3, <1>4, <2>1 DEF PlacedAndKept
<1> QED BY <1>5

LEMMA NextSlots == SlotsInv /\ [Next]_vars => SlotsInv'
<1> SUFFICES ASSUME SlotsInv, [Next]_vars PROVE SlotsInv'
  OBVIOUS
<1>1. TypeOK'
  BY NextType DEF SlotsInv
<1>2. \A i \in DOMAIN window' : PlacedAndKept(index', slots', window'[i])
  <2>1. ASSUME NEW op \in Ops, NEW r \in Regs, NEW p \in Phys, Decode(op, r, p)
        PROVE  \A i \in DOMAIN window' : PlacedAndKept(index', slots', window'[i])
    BY <2>1, DecodeKeepsSlots
  <2>2. CASE Retire
    <3>1. UNCHANGED <<index, slots>> /\ DOMAIN window' = 1 .. Len(window) - 1
      BY <2>2, RetiredWindow DEF Retire, SlotsInv
    <3>2. ASSUME NEW i \in DOMAIN window'
          PROVE  PlacedAndKept(index, slots, window[i + 1]) /\ window'[i] = window[i + 1]
      BY <2>2, <3>1, RetiredWindow DEF SlotsInv
    <3> QED BY <3>1, <3>2
  <2>3. CASE Squash
    <3>1. UNCHANGED <<index, slots>> /\ DOMAIN window' = 1 .. Len(window) - 1
      BY <2>3, SquashedWindow DEF Squash, SlotsInv
    <3>2. ASSUME NEW i \in DOMAIN window'
          PROVE  PlacedAndKept(index, slots, window[i]) /\ window'[i] = window[i]
      BY <2>3, <3>1, SquashedWindow DEF SlotsInv
    <3> QED BY <3>1, <3>2
  <2>4. CASE UNCHANGED vars
    BY <2>4 DEF vars, SlotsInv
  <2> QED BY <2>1, <2>2, <2>3, <2>4 DEF Next
<1> QED BY <1>1, <1>2 DEF SlotsInv

\* An instruction loses the registers that decode read and renamed (arf.C:3158)
\* only when the ring has been lapped behind it, and alone, for every size of the
\* window and however long it stays: what container_lap shows is the only way.
THEOREM SlotsAreKept == Spec => []SlotsKeptUntilLapped
<1>1. Init => SlotsInv
  <2> SUFFICES ASSUME Init PROVE SlotsInv
    OBVIOUS
  <2>1. DOMAIN window = {}
    BY EmptySeq DEF Init
  <2> QED BY <2>1, InitType DEF SlotsInv
<1>2. SlotsInv /\ [Next]_vars => SlotsInv'
  BY NextSlots
<1>3. SlotsInv => SlotsKeptUntilLapped
  BY DEF SlotsInv, PlacedAndKept, SlotsKeptUntilLapped, StillNamed, Kept
<1> QED BY <1>1, <1>2, <1>3, PTL DEF Spec

-----------------------------------------------------------------------------
(***************************************************************************)
(* No register is lost or freed twice.                                     *)
(***************************************************************************)

NoWriter(w, r, from, to) == \A j \in from .. to : ~(Writes(w[j].op) /\ w[j].reg = r)

\* What r is renamed to after the first n instructions of w: the register of
\* the last of them that writes r, or the architected one.
Names(w, architected, n, r, p) ==
    \/ p = architected[r] /\ NoWriter(w, r, 1, n)
    \/ \E j \in 1 .. n : /\ Writes(w[j].op) /\ w[j].reg = r /\ w[j].given = p
                        /\ NoWriter(w, r, j + 1, n)

\* The owners of registers: free, architected, given to an instruction in flight.
OwnersApart ==
    /\ \A r \in Regs : retireMap[r] \notin free
    /\ \A r, s \in Regs : r # s => retireMap[r] # retireMap[s]
    /\ \A i \in DOMAIN window : Writes(window[i].op) =>
          /\ window[i].given \notin free
          /\ \A r \in Regs : window[i].given # retireMap[r]
          /\ \A j \in DOMAIN window : j # i /\ Writes(window[j].op) =>
                window[i].given # window[j].given

EveryOwned ==
    \A p \in Phys : \/ p \in free
                    \/ \E r \in Regs : retireMap[r] = p
                    \/ \E i \in DOMAIN window : Writes(window[i].op) /\ window[i].given = p

\* What a write displaces, and what decode reads next, is what the closest older
\* write was given.
InProgramOrder ==
    /\ \A i \in DOMAIN window : Writes(window[i].op) =>
          Names(window, retireMap, i - 1, window[i].reg, window[i].displaced)
    /\ \A r \in Regs : Names(window, retireMap, Len(window), r, decodeMap[r])

Trusted == OwnersApart /\ EveryOwned /\ InProgramOrder

PartsInv == SlotsInv /\ (misled \/ Trusted)

\* Two windows that agree on their first n instructions name the same registers.
LEMMA NamesAgree ==
  ASSUME NEW w, NEW v, NEW n \in Nat, NEW a, NEW r, NEW p,
         \A j \in 1 .. n : w[j].op = v[j].op /\ w[j].reg = v[j].reg /\ w[j].given = v[j].given,
         Names(w, a, n, r, p)
  PROVE  Names(v, a, n, r, p)
<1>1. ASSUME NEW j \in 0 .. n, NoWriter(w, r, j + 1, n)
      PROVE  NoWriter(v, r, j + 1, n)
  BY <1>1 DEF NoWriter
<1>2. CASE p = a[r] /\ NoWriter(w, r, 1, n)
  <2>1. NoWriter(v, r, 1, n)
    BY <1>2 DEF NoWriter
  <2> QED BY <1>2, <2>1 DEF Names
<1>3. CASE \E j \in 1 .. n : /\ Writes(w[j].op) /\ w[j].reg = r /\ w[j].given = p
                            /\ NoWriter(w, r, j + 1, n)
  BY <1>1, <1>3 DEF Names
<1> QED BY <1>2, <1>3 DEF Names

\* An instruction that does not write r leaves its name.
LEMMA NamesPast ==
  ASSUME NEW w, NEW n \in Nat, NEW a, NEW r, NEW p,
         ~(Writes(w[n + 1].op) /\ w[n + 1].reg = r)
  PROVE  Names(w, a, n + 1, r, p) <=> Names(w, a, n, r, p)
<1>1. ASSUME NEW j \in 0 .. n
      PROVE  NoWriter(w, r, j + 1, n + 1) <=> NoWriter(w, r, j + 1, n)
  <2>1. \A k \in j + 1 .. n + 1 : k \in j + 1 .. n \/ k = n + 1
    OBVIOUS
  <2>2. \A k \in j + 1 .. n : k \in j + 1 .. n + 1
    OBVIOUS
  <2> QED BY <2>1, <2>2 DEF NoWriter
<1>2. NoWriter(w, r, 1, n + 1) <=> NoWriter(w, r, 1, n)
  BY <1>1
<1>3. \A j \in 1 .. n + 1 : Writes(w[j].op) /\ w[j].reg = r => j \in 1 .. n
  OBVIOUS
<1> QED BY <1>1, <1>2, <1>3 DEF Names

\* When the oldest leaves, a register it wrote is the architected one.
LEMMA NamesShift ==
  ASSUME NEW w, NEW v, NEW n \in Nat, NEW a, NEW b, NEW r, NEW p,
         \A j \in 1 .. n : v[j] = w[j + 1],
         IF Writes(w[1].op) /\ w[1].reg = r THEN b[r] = w[1].given ELSE b[r] = a[r],
         Names(w, a, n + 1, r, p)
  PROVE  Names(v, b, n, r, p)
<1>1. ASSUME NEW j \in 1 .. n + 1, NoWriter(w, r, j + 1, n + 1)
      PROVE  NoWriter(v, r, j, n)
  <2>1. \A k \in j .. n : k + 1 \in j + 1 .. n + 1 /\ v[k] = w[k + 1]
    OBVIOUS
  <2> QED BY <1>1, <2>1 DEF NoWriter
<1>2. CASE p = a[r] /\ NoWriter(w, r, 1, n + 1)
  <2>1. ~(Writes(w[1].op) /\ w[1].reg = r) /\ NoWriter(w, r, 1 + 1, n + 1)
    BY <1>2 DEF NoWriter
  <2>2. NoWriter(v, r, 1, n)
    BY <1>1, <2>1
  <2> QED BY <1>2, <2>1, <2>2 DEF Names
<1>3. ASSUME NEW j \in 1 .. n + 1, Writes(w[j].op), w[j].reg = r, w[j].given = p,
             NoWriter(w, r, j + 1, n + 1)
      PROVE  Names(v, b, n, r, p)
  <2>1. NoWriter(v, r, j, n)
    BY <1>1, <1>3
  <2>2. CASE j = 1
    BY <1>3, <2>1, <2>2 DEF Names
  <2>3. CASE j # 1
    <3>1. j - 1 \in 1 .. n /\ v[j - 1] = w[j] /\ (j - 1) + 1 = j
      BY <2>3
    <3> QED BY <1>3, <2>1, <3>1 DEF Names
  <2> QED BY <2>2, <2>3
<1> QED BY <1>2, <1>3 DEF Names

\* A register that has a name is not free.
LEMMA NamedNotFree ==
  ASSUME TypeOK, OwnersApart, InProgramOrder, NEW r \in Regs
  PROVE  decodeMap[r] \notin free
<1>1. Names(window, retireMap, Len(window), r, decodeMap[r])
  BY DEF InProgramOrder
<1>2. 1 .. Len(window) = DOMAIN window
  BY LenProperties DEF TypeOK
<1> QED BY <1>1, <1>2 DEF Names, OwnersApart

LEMMA DecodeParts ==
  ASSUME SlotsInv, Trusted, NEW op \in Ops, NEW r \in Regs, NEW p \in Phys, Decode(op, r, p)
  PROVE  Trusted'
<1> DEFINE n == Len(window)
<1>1. TypeOK /\ OwnersApart /\ EveryOwned /\ InProgramOrder
  BY DEF Trusted, SlotsInv
<1>2. /\ DOMAIN window' = 1 .. n + 1 /\ DOMAIN window = 1 .. n /\ n \in Nat /\ Len(window') = n + 1
      /\ \A i \in 1 .. n : SameButAge(window'[i], window[i])
      /\ window'[n + 1].op = op /\ window'[n + 1].reg = r
      /\ window'[n + 1].displaced = decodeMap[r] /\ window'[n + 1].given = p
  BY <1>1, DecodedWindow, LenProperties DEF TypeOK
<1>3. /\ UNCHANGED retireMap /\ free' = free \ {p}
      /\ decodeMap' = [decodeMap EXCEPT ![r] = p]
      /\ IF Writes(op) THEN p \in free ELSE p = decodeMap[r]
  BY DEF Decode
<1>4. free' = IF Writes(op) THEN free \ {p} ELSE free
  BY <1>1, <1>3, NamedNotFree
<1>5. OwnersApart'
  <2>1. ASSUME NEW i \in 1 .. n + 1, Writes(window'[i].op)
        PROVE  /\ window'[i].given \notin free'
               /\ \A s \in Regs : window'[i].given # retireMap[s]
               /\ \A j \in 1 .. n + 1 : j # i /\ Writes(window'[j].op) =>
                     window'[i].given # window'[j].given
    <3>1. CASE i = n + 1
      <4>1. ASSUME NEW j \in 1 .. n, Writes(window'[j].op)
            PROVE  window'[j].given # p
        BY <1>1, <1>2, <1>3, <2>1, <3>1, <4>1 DEF OwnersApart, SameButAge
      <4>2. \A j \in 1 .. n + 1 : j # i => j \in 1 .. n
        BY <3>1
      <4> QED BY <1>1, <1>2, <1>3, <2>1, <3>1, <4>1, <4>2 DEF OwnersApart
    <3>2. CASE i \in 1 .. n
      <4>1. Writes(window[i].op) /\ window'[i].given = window[i].given
        BY <1>2, <2>1, <3>2 DEF SameButAge
      <4>2. ASSUME NEW j \in 1 .. n + 1, j # i, Writes(window'[j].op)
            PROVE  window'[i].given # window'[j].given
        <5>1. CASE j = n + 1
          <6>1. p \in free
            BY <1>2, <1>3, <4>2, <5>1
          <6> QED BY <1>1, <1>2, <3>2, <4>1, <5>1, <6>1 DEF OwnersApart
        <5>2. CASE j \in 1 .. n
          BY <1>1, <1>2, <3>2, <4>1, <4>2, <5>2 DEF OwnersApart, SameButAge
        <5> QED BY <4>2, <5>1, <5>2
      <4> QED BY <1>1, <1>2, <1>3, <3>2, <4>1, <4>2 DEF OwnersApart
    <3> QED BY <1>2, <3>1, <3>2
  <2>2. /\ \A s \in Regs : retireMap'[s] \notin free'
        /\ \A s, u \in Regs : s # u => retireMap'[s] # retireMap'[u]
    BY <1>1, <1>3 DEF OwnersApart
  <2> QED BY <1>2, <1>3, <2>1, <2>2 DEF OwnersApart
<1>6. EveryOwned'
  <2> SUFFICES ASSUME NEW q \in Phys, q \notin free', \A s \in Regs : retireMap'[s] # q
               PROVE  \E i \in DOMAIN window' : Writes(window'[i].op) /\ window'[i].given = q
    BY DEF EveryOwned
  <2>1. CASE q \in free
    <3>1. Writes(op) /\ q = p /\ n + 1 \in DOMAIN window'
      BY <1>2, <1>4, <2>1
    <3> QED BY <1>2, <3>1
  <2>2. CASE q \notin free
    <3>1. PICK i \in 1 .. n : Writes(window[i].op) /\ window[i].given = q
      BY <1>1, <1>2, <1>3, <2>2 DEF EveryOwned
    <3>2. i \in DOMAIN window' /\ SameButAge(window'[i], window[i])
      BY <1>2
    <3> QED BY <3>1, <3>2 DEF SameButAge
  <2> QED BY <2>1, <2>2
<1>7. ASSUME NEW k \in 0 .. n, NEW s, NEW q, Names(window, retireMap, k, s, q)
      PROVE  Names(window', retireMap', k, s, q)
  <2>1. \A j \in 1 .. k : /\ window[j].op = window'[j].op /\ window[j].reg = window'[j].reg
                         /\ window[j].given = window'[j].given
    BY <1>2 DEF SameButAge
  <2>2. Names(window', retireMap, k, s, q)
    <3> DEFINE w == window
               v == window'
    <3>1. \A j \in 1 .. k : w[j].op = v[j].op /\ w[j].reg = v[j].reg /\ w[j].given = v[j].given
      BY <2>1
    <3>2. k \in Nat /\ Names(w, retireMap, k, s, q)
      BY <1>7
    <3> HIDE DEF w, v
    <3>3. Names(v, retireMap, k, s, q)
      BY <3>1, <3>2, NamesAgree
    <3> QED BY <3>3 DEF v
  <2> QED BY <1>3, <2>2
<1>8. ASSUME NEW i \in 1 .. n + 1, Writes(window'[i].op)
      PROVE  Names(window', retireMap', i - 1, window'[i].reg, window'[i].displaced)
  <2>1. i - 1 \in 0 .. n
    BY <1>2
  <2>2. Names(window, retireMap, i - 1, window'[i].reg, window'[i].displaced)
    <3>1. CASE i = n + 1
      <4>1. i - 1 = n
        BY <1>2, <3>1
      <4> QED BY <1>1, <1>2, <3>1, <4>1 DEF InProgramOrder
    <3>2. CASE i \in 1 .. n
      BY <1>1, <1>2, <1>8, <3>2 DEF InProgramOrder, SameButAge
    <3> QED BY <1>2, <3>1, <3>2
  <2> QED BY <1>7, <2>1, <2>2
<1>9. ASSUME NEW s \in Regs
      PROVE  Names(window', retireMap', n + 1, s, decodeMap'[s])
  <2>1. Names(window', retireMap', n, s, decodeMap[s])
    BY <1>1, <1>2, <1>7 DEF InProgramOrder
  <2>2. CASE Writes(op) /\ s = r
    <3>1. decodeMap'[s] = p /\ n + 1 \in 1 .. n + 1
      BY <1>1, <1>2, <1>3, <2>2 DEF TypeOK
    <3>2. NoWriter(window', s, n + 1 + 1, n + 1)
      BY <1>2 DEF NoWriter
    <3> QED BY <1>2, <2>2, <3>1, <3>2 DEF Names
  <2>3. CASE ~(Writes(op) /\ s = r)
    <3>1. decodeMap'[s] = decodeMap[s]
      BY <1>1, <1>3, <2>3 DEF TypeOK
    <3>2. ~(Writes(window'[n + 1].op) /\ window'[n + 1].reg = s)
      BY <1>2, <2>3
    <3> DEFINE w == window'
               a == retireMap'
               q == decodeMap[s]
    <3>3. Names(w, a, n + 1, s, q)
      <4>1. n \in Nat /\ Names(w, a, n, s, q) /\ ~(Writes(w[n + 1].op) /\ w[n + 1].reg = s)
        BY <1>2, <2>1, <3>2
      <4> HIDE DEF w, a, q, n
      <4> QED BY <4>1, NamesPast
    <3> QED BY <3>1, <3>3
  <2> QED BY <2>2, <2>3
<1>10. InProgramOrder'
  BY <1>2, <1>8, <1>9 DEF InProgramOrder
<1> QED BY <1>5, <1>6, <1>10 DEF Trusted

\* Names after the oldest has left, whether or not it wrote a register.
LEMMA RetireNames ==
  ASSUME InProgramOrder, NEW n \in Nat, DOMAIN window = 1 .. n + 1, Len(window) = n + 1,
         DOMAIN window' = 1 .. n, Len(window') = n, UNCHANGED decodeMap,
         \A i \in 1 .. n : window'[i] = window[i + 1],
         \A r \in Regs : IF Writes(window[1].op) /\ window[1].reg = r
                        THEN retireMap'[r] = window[1].given ELSE retireMap'[r] = retireMap[r],
         \A i \in 1 .. n + 1 : window[i].reg \in Regs
  PROVE  InProgramOrder'
<1>1. ASSUME NEW k \in 0 .. n, NEW r \in Regs, NEW p, Names(window, retireMap, k + 1, r, p)
      PROVE  Names(window', retireMap', k, r, p)
  <2> DEFINE w == window
             v == window'
             a == retireMap
             b == retireMap'
  <2>1. \A j \in 1 .. k : v[j] = w[j + 1]
    OBVIOUS
  <2>2. IF Writes(w[1].op) /\ w[1].reg = r THEN b[r] = w[1].given ELSE b[r] = a[r]
    OBVIOUS
  <2>3. Names(w, a, k + 1, r, p) /\ k \in Nat
    BY <1>1
  <2> HIDE DEF w, v, a, b
  <2>4. Names(v, b, k, r, p)
    BY <2>1, <2>2, <2>3, NamesShift
  <2> QED BY <2>4 DEF v, b
<1>2. ASSUME NEW i \in 1 .. n, Writes(window'[i].op)
      PROVE  Names(window', retireMap', i - 1, window'[i].reg, window'[i].displaced)
  <2>1. i - 1 \in 0 .. n /\ (i - 1) + 1 = (i + 1) - 1 /\ i + 1 \in 1 .. n + 1
        /\ window'[i] = window[i + 1] /\ window'[i].reg \in Regs
    OBVIOUS
  <2>2. Names(window, retireMap, (i - 1) + 1, window'[i].reg, window'[i].displaced)
    BY <1>2, <2>1 DEF InProgramOrder
  <2> QED BY <1>1, <2>1, <2>2
<1>3. \A r \in Regs : Names(window', retireMap', n, r, decodeMap'[r])
  BY <1>1 DEF InProgramOrder
<1> QED BY <1>2, <1>3 DEF InProgramOrder

LEMMA WindowRegs ==
  ASSUME TypeOK
  PROVE  \A i \in DOMAIN window : window[i].reg \in Regs
BY WindowFacts

LEMMA RetireKeepsParts ==
  ASSUME SlotsInv, Trusted, Retire, ~misled'
  PROVE  Trusted'
<1> DEFINE n == Len(window) - 1
           d == window[1]
<1>1. TypeOK /\ OwnersApart /\ EveryOwned /\ InProgramOrder
  BY DEF Trusted, SlotsInv
<1>2. /\ DOMAIN window' = 1 .. n /\ DOMAIN window = 1 .. n + 1 /\ n \in Nat /\ Len(window') = n
      /\ \A i \in 1 .. n : window'[i] = window[i + 1] /\ i + 1 \in 1 .. n + 1
      /\ Head(window) = d /\ 1 \in 1 .. n + 1
      /\ d.reg \in Regs /\ d.given \in Phys /\ d.displaced \in Phys
  <2>1. 1 \in DOMAIN window /\ Len(window) \in Nat \ {0} /\ DOMAIN window = 1 .. Len(window)
    BY <1>1, RetiredWindow, LenProperties DEF TypeOK
  <2>2. d.reg \in Regs /\ d.given \in Phys /\ d.displaced \in Phys
    BY <1>1, <2>1, WindowFacts
  <2>3. n \in Nat /\ n + 1 = Len(window) /\ 1 \in 1 .. n + 1
    BY <2>1
  <2>4. /\ window' \in Seq(Instruction) /\ DOMAIN window' = 1 .. n /\ Head(window) = d
        /\ \A i \in 1 .. n : window'[i] = window[i + 1]
    BY <1>1, RetiredWindow
  <2>5. Len(window') = n
    <3> HIDE DEF n
    <3> QED BY <2>3, <2>4, LenProperties
  <2>6. \A i \in 1 .. n : i + 1 \in 1 .. n + 1
    BY <2>3
  <2> HIDE DEF n, d
  <2> QED BY <2>1, <2>2, <2>3, <2>4, <2>5, <2>6
<1>3. CASE Writes(d.op)
  <2>1. /\ slots[d.dest] = [reg |-> d.reg, phys |-> d.given]
        /\ slots[d.tofree] = [reg |-> d.reg, phys |-> d.displaced]
    <3>1. ~Lapped(d)
      BY <1>2, <1>3 DEF Retire, Misleads
    <3>2. PlacedAndKept(index, slots, d)
      BY <1>2 DEF SlotsInv
    <3> QED BY <1>3, <3>1, <3>2 DEF PlacedAndKept, Kept
  <2>2. /\ retireMap' = [retireMap EXCEPT ![d.reg] = d.given]
        /\ free' = free \union {d.displaced} /\ UNCHANGED decodeMap
    BY <1>2, <1>3, <2>1 DEF Retire, RetireParts
  <2>3. d.displaced = retireMap[d.reg]
    <3>1. Names(window, retireMap, 0, d.reg, d.displaced)
      <4>1. 1 - 1 = 0
        OBVIOUS
      <4> QED BY <1>1, <1>2, <1>3, <4>1 DEF InProgramOrder
    <3> QED BY <3>1 DEF Names
  <2>4. /\ d.given \notin free /\ \A r \in Regs : retireMap[r] # d.given
        /\ \A j \in 1 .. n : Writes(window'[j].op) =>
              /\ window'[j].given # d.given /\ window'[j].given \notin free
              /\ \A r \in Regs : window'[j].given # retireMap[r]
    BY <1>1, <1>2, <1>3 DEF OwnersApart
  <2>5. /\ retireMap'[d.reg] = d.given
        /\ \A r \in Regs : r # d.reg => retireMap'[r] = retireMap[r]
    BY <1>1, <1>2, <2>2 DEF TypeOK
  <2>6. OwnersApart'
    <3>1. \A r \in Regs : retireMap'[r] \notin free'
      BY <1>1, <1>2, <2>2, <2>3, <2>4, <2>5 DEF OwnersApart
    <3>2. \A r, s \in Regs : r # s => retireMap'[r] # retireMap'[s]
      BY <1>1, <2>4, <2>5 DEF OwnersApart
    <3>3. ASSUME NEW i \in 1 .. n, Writes(window'[i].op)
          PROVE  /\ window'[i].given \notin free' /\ \A r \in Regs : window'[i].given # retireMap'[r]
                 /\ \A j \in 1 .. n : j # i /\ Writes(window'[j].op) =>
                       window'[i].given # window'[j].given
      <4>1. window'[i].given \notin free' /\ \A r \in Regs : window'[i].given # retireMap'[r]
        BY <1>2, <2>2, <2>3, <2>4, <2>5, <3>3
      <4>2. ASSUME NEW j \in 1 .. n, j # i, Writes(window'[j].op)
            PROVE  window'[i].given # window'[j].given
        <5>1. j + 1 # i + 1 /\ i + 1 \in 1 .. n + 1 /\ j + 1 \in 1 .. n + 1
          BY <1>2, <4>2
        <5>2. window'[i] = window[i + 1] /\ window'[j] = window[j + 1]
          BY <1>2
        <5> HIDE DEF n, d
        <5> QED BY <1>1, <1>2, <3>3, <4>2, <5>1, <5>2 DEF OwnersApart
      <4> QED BY <4>1, <4>2
    <3> QED BY <1>2, <3>1, <3>2, <3>3 DEF OwnersApart
  <2>7. EveryOwned'
    <3> SUFFICES ASSUME NEW q \in Phys, q \notin free', \A r \in Regs : retireMap'[r] # q
                 PROVE  \E i \in DOMAIN window' : Writes(window'[i].op) /\ window'[i].given = q
      BY DEF EveryOwned
    <3>1. q \notin free /\ \A r \in Regs : retireMap[r] # q
      BY <2>2, <2>3, <2>5
    <3>2. PICK i \in 1 .. n + 1 : Writes(window[i].op) /\ window[i].given = q
      BY <1>1, <1>2, <3>1 DEF EveryOwned
    <3>3. i # 1
      BY <1>2, <2>5, <3>2
    <3>4. i - 1 \in 1 .. n /\ (i - 1) + 1 = i
      BY <1>2, <3>3
    <3>5. window'[i - 1] = window[i]
      BY <1>2, <3>4
    <3> QED BY <1>2, <3>2, <3>4, <3>5
  <2>8. \A r \in Regs : IF Writes(window[1].op) /\ window[1].reg = r
                        THEN retireMap'[r] = window[1].given ELSE retireMap'[r] = retireMap[r]
    BY <1>2, <1>3, <2>5
  <2>9. InProgramOrder'
    <3>1. Len(window) = n + 1 /\ UNCHANGED decodeMap
      BY <1>2, <2>2
    <3>2. \A i \in 1 .. n + 1 : window[i].reg \in Regs
      BY <1>1, <1>2, WindowRegs
    <3> HIDE DEF n, d
    <3> QED BY <1>1, <1>2, <2>8, <3>1, <3>2, RetireNames
  <2> QED BY <2>6, <2>7, <2>9 DEF Trusted
<1>4. CASE ~Writes(d.op)
  <2>1. UNCHANGED <<retireMap, free, decodeMap>>
    BY <1>2, <1>4 DEF Retire
  <2>2. OwnersApart'
    <3>1. ASSUME NEW i \in 1 .. n, Writes(window'[i].op)
          PROVE  /\ window'[i].given \notin free /\ \A r \in Regs : window'[i].given # retireMap[r]
                 /\ \A j \in 1 .. n : j # i /\ Writes(window'[j].op) =>
                       window'[i].given # window'[j].given
      <4>1. window'[i] = window[i + 1] /\ i + 1 \in 1 .. n + 1
        BY <1>2
      <4>2. /\ window'[i].given \notin free
            /\ \A r \in Regs : window'[i].given # retireMap[r]
        <5> HIDE DEF n, d
        <5> QED BY <1>1, <1>2, <3>1, <4>1 DEF OwnersApart
      <4>3. ASSUME NEW j \in 1 .. n, j # i, Writes(window'[j].op)
            PROVE  window'[i].given # window'[j].given
        <5>1. j + 1 # i + 1 /\ j + 1 \in 1 .. n + 1 /\ window'[j] = window[j + 1]
          BY <1>2, <4>3
        <5> HIDE DEF n, d
        <5> QED BY <1>1, <1>2, <3>1, <4>1, <4>3, <5>1 DEF OwnersApart
      <4> QED BY <4>2, <4>3
    <3> HIDE DEF n, d
    <3> QED BY <1>1, <1>2, <2>1, <3>1 DEF OwnersApart
  <2>3. EveryOwned'
    <3> SUFFICES ASSUME NEW q \in Phys, q \notin free, \A r \in Regs : retireMap[r] # q
                 PROVE  \E i \in DOMAIN window' : Writes(window'[i].op) /\ window'[i].given = q
      BY <2>1 DEF EveryOwned
    <3>2. PICK i \in 1 .. n + 1 : Writes(window[i].op) /\ window[i].given = q
      BY <1>1, <1>2 DEF EveryOwned
    <3>4. i - 1 \in 1 .. n /\ (i - 1) + 1 = i
      BY <1>2, <1>4, <3>2
    <3>5. window'[i - 1] = window[i]
      BY <1>2, <3>4
    <3> QED BY <1>2, <3>2, <3>4, <3>5
  <2>8. \A r \in Regs : IF Writes(window[1].op) /\ window[1].reg = r
                        THEN retireMap'[r] = window[1].given ELSE retireMap'[r] = retireMap[r]
    BY <1>2, <1>4, <2>1
  <2>9. InProgramOrder'
    <3>1. Len(window) = n + 1 /\ UNCHANGED decodeMap
      BY <1>2, <2>1
    <3>2. \A i \in 1 .. n + 1 : window[i].reg \in Regs
      BY <1>1, <1>2, WindowRegs
    <3> HIDE DEF n, d
    <3> QED BY <1>1, <1>2, <2>8, <3>1, <3>2, RetireNames
  <2> QED BY <2>2, <2>3, <2>9 DEF Trusted
<1> QED BY <1>3, <1>4

LEMMA SquashKeepsParts ==
  ASSUME SlotsInv, Trusted, Squash, ~misled'
  PROVE  Trusted'
<1> DEFINE n == Len(window) - 1
           d == window[Len(window)]
<1>1. TypeOK /\ OwnersApart /\ EveryOwned /\ InProgramOrder
  BY DEF Trusted, SlotsInv
<1>2. /\ DOMAIN window' = 1 .. n /\ DOMAIN window = 1 .. n + 1 /\ n \in Nat /\ Len(window') = n
      /\ \A i \in 1 .. n : window'[i] = window[i] /\ i \in 1 .. n + 1
      /\ d = window[n + 1] /\ n + 1 = Len(window) /\ n + 1 \in 1 .. n + 1
      /\ d.reg \in Regs /\ d.given \in Phys /\ d.displaced \in Phys
  <2>1. Len(window) \in DOMAIN window /\ Len(window) \in Nat \ {0} /\ DOMAIN window = 1 .. Len(window)
    BY <1>1, SquashedWindow, LenProperties DEF TypeOK
  <2>2. d.reg \in Regs /\ d.given \in Phys /\ d.displaced \in Phys
    BY <1>1, <2>1, WindowFacts
  <2>3. n \in Nat /\ n + 1 = Len(window) /\ n + 1 \in 1 .. n + 1
    BY <2>1
  <2>4. /\ window' \in Seq(Instruction) /\ DOMAIN window' = 1 .. n
        /\ \A i \in 1 .. n : window'[i] = window[i]
    BY <1>1, SquashedWindow
  <2>5. Len(window') = n
    <3> HIDE DEF n
    <3> QED BY <2>3, <2>4, LenProperties
  <2>6. \A i \in 1 .. n : i \in 1 .. n + 1
    BY <2>3
  <2>7. d = window[n + 1]
    BY <2>3
  <2> HIDE DEF n, d
  <2> QED BY <2>1, <2>2, <2>3, <2>4, <2>5, <2>6, <2>7
<1>3. UNCHANGED retireMap
  BY DEF Squash
<1>4. /\ free' = IF Writes(d.op) THEN free \union {d.given} ELSE free
      /\ decodeMap' = IF Writes(d.op) THEN [decodeMap EXCEPT ![d.reg] = d.displaced] ELSE decodeMap
  <2>1. CASE Writes(d.op)
    <3>1. /\ slots[d.dest] = [reg |-> d.reg, phys |-> d.given]
          /\ slots[d.tofree] = [reg |-> d.reg, phys |-> d.displaced]
      <4>1. ~Lapped(d)
        BY <2>1 DEF Squash, Misleads
      <4>2. PlacedAndKept(index, slots, d)
        BY <1>2 DEF SlotsInv
      <4> QED BY <2>1, <4>1, <4>2 DEF PlacedAndKept, Kept
    <3> QED BY <2>1, <3>1 DEF Squash
  <2>2. CASE ~Writes(d.op)
    BY <2>2 DEF Squash
  <2> QED BY <2>1, <2>2
<1>5. OwnersApart'
  <2>1. \A r \in Regs : retireMap'[r] \notin free'
    BY <1>1, <1>2, <1>3, <1>4 DEF OwnersApart
  <2>2. ASSUME NEW i \in 1 .. n, Writes(window'[i].op)
        PROVE  /\ window'[i].given \notin free' /\ \A r \in Regs : window'[i].given # retireMap'[r]
               /\ \A j \in 1 .. n : j # i /\ Writes(window'[j].op) =>
                     window'[i].given # window'[j].given
    <3>1. i # n + 1 /\ window'[i] = window[i] /\ i \in 1 .. n + 1
      BY <1>2, <2>2
    <3> HIDE DEF n, d
    <3> QED BY <1>1, <1>2, <1>3, <1>4, <2>2, <3>1 DEF OwnersApart
  <2> HIDE DEF n, d
  <2> QED BY <1>1, <1>2, <1>3, <2>1, <2>2 DEF OwnersApart
<1>6. EveryOwned'
  <2> SUFFICES ASSUME NEW q \in Phys, q \notin free', \A r \in Regs : retireMap'[r] # q
               PROVE  \E i \in DOMAIN window' : Writes(window'[i].op) /\ window'[i].given = q
    BY DEF EveryOwned
  <2>1. q \notin free /\ \A r \in Regs : retireMap[r] # q
    BY <1>3, <1>4
  <2>2. PICK i \in 1 .. n + 1 : Writes(window[i].op) /\ window[i].given = q
    BY <1>1, <1>2, <2>1 DEF EveryOwned
  <2>3. i # n + 1
    <3>1. ASSUME i = n + 1 PROVE Writes(d.op) /\ d.given = q
      BY <1>2, <2>2, <3>1
    <3>2. ASSUME Writes(d.op) PROVE d.given \in free'
      BY <1>4, <3>2
    <3> QED BY <3>1, <3>2
  <2>4. i \in 1 .. n
    <3>1. n \in Nat
      BY <1>2
    <3> HIDE DEF n
    <3> QED BY <2>3, <3>1
  <2> QED BY <1>2, <2>2, <2>4
<1>7. ASSUME NEW k \in 0 .. n, NEW r, NEW q, Names(window, retireMap, k, r, q)
      PROVE  Names(window', retireMap', k, r, q)
  <2> DEFINE w == window
             v == window'
             a == retireMap
  <2>1. /\ \A j \in 1 .. k : w[j].op = v[j].op /\ w[j].reg = v[j].reg /\ w[j].given = v[j].given
        /\ k \in Nat /\ Names(w, a, k, r, q)
    BY <1>2, <1>7
  <2> HIDE DEF w, v, a
  <2>2. Names(v, a, k, r, q)
    BY <2>1, NamesAgree
  <2> QED BY <1>3, <2>2 DEF v, a
<1>8. ASSUME NEW i \in 1 .. n, Writes(window'[i].op)
      PROVE  Names(window', retireMap', i - 1, window'[i].reg, window'[i].displaced)
  <2>1. i - 1 \in 0 .. n /\ window'[i] = window[i] /\ i \in DOMAIN window
    BY <1>2
  <2> QED BY <1>1, <1>7, <1>8, <2>1 DEF InProgramOrder
<1>9. ASSUME NEW r \in Regs
      PROVE  Names(window', retireMap', n, r, decodeMap'[r])
  <2>1. Names(window, retireMap, n, r, decodeMap'[r])
    <3>1. CASE Writes(d.op) /\ d.reg = r
      <4>1. decodeMap'[r] = d.displaced
        BY <1>1, <1>4, <3>1 DEF TypeOK
      <4>2. Names(window, retireMap, (n + 1) - 1, d.reg, d.displaced)
        BY <1>1, <1>2, <3>1 DEF InProgramOrder
      <4>3. (n + 1) - 1 = n
        BY <1>2
      <4> QED BY <3>1, <4>1, <4>2, <4>3
    <3>2. CASE ~(Writes(d.op) /\ d.reg = r)
      <4>1. decodeMap'[r] = decodeMap[r]
        BY <1>1, <1>4, <3>2 DEF TypeOK
      <4>2. Names(window, retireMap, n + 1, r, decodeMap[r])
        BY <1>1, <1>2 DEF InProgramOrder
      <4> DEFINE w == window
                 a == retireMap
                 q == decodeMap[r]
      <4>3. n \in Nat /\ Names(w, a, n + 1, r, q) /\ ~(Writes(w[n + 1].op) /\ w[n + 1].reg = r)
        BY <1>2, <3>2, <4>2
      <4> HIDE DEF w, a, q, n
      <4>4. Names(w, a, n, r, q)
        BY <4>3, NamesPast
      <4> QED BY <4>1, <4>4 DEF w, a, q
    <3> QED BY <3>1, <3>2
  <2>2. n \in 0 .. n
    BY <1>2
  <2> QED BY <1>7, <2>1, <2>2
<1>10. InProgramOrder'
  <2> HIDE DEF n
  <2> QED BY <1>2, <1>8, <1>9 DEF InProgramOrder
<1> QED BY <1>5, <1>6, <1>10 DEF Trusted

LEMMA InitParts == Init => PartsInv
<1> SUFFICES ASSUME Init PROVE PartsInv
  OBVIOUS
<1>1. TypeOK /\ DOMAIN window = {} /\ Len(window) = 0
  BY InitType, EmptySeq DEF Init
<1>2. PICK start \in [Regs -> Phys] :
         /\ \A r, s \in Regs : r # s => start[r] # start[s]
         /\ decodeMap = start /\ retireMap = start
         /\ free = Phys \ {start[r] : r \in Regs}
  BY DEF Init
<1>3. OwnersApart /\ EveryOwned
  BY <1>1, <1>2 DEF OwnersApart, EveryOwned
<1>4. InProgramOrder
  <2>1. \A r : NoWriter(window, r, 1, 0)
    BY DEF NoWriter
  <2> QED BY <1>1, <1>2, <2>1 DEF InProgramOrder, Names
<1> QED BY <1>1, <1>3, <1>4 DEF PartsInv, SlotsInv, Trusted

LEMMA NextParts == PartsInv /\ [Next]_vars => PartsInv'
<1> SUFFICES ASSUME PartsInv, [Next]_vars PROVE PartsInv'
  OBVIOUS
<1>1. SlotsInv /\ SlotsInv'
  BY NextSlots DEF PartsInv
<1>2. misled => misled'
  BY DEF Next, Decode, Retire, Squash, vars
<1>3. ASSUME ~misled' PROVE Trusted'
  <2>1. Trusted
    BY <1>2, <1>3 DEF PartsInv
  <2>2. CASE UNCHANGED vars
    BY <2>1, <2>2 DEF vars, Trusted, OwnersApart, EveryOwned, InProgramOrder
  <2> QED BY <1>1, <1>3, <2>1, <2>2, DecodeParts, RetireKeepsParts, SquashKeepsParts DEF Next
<1> QED BY <1>1, <1>3 DEF PartsInv

\* One owner in each sense is one in the sum.
LEMMA OwnersCount == PartsInv => PartsConsistent
<1> SUFFICES ASSUME PartsInv, ~misled, NEW p \in Phys
             PROVE  Cardinality({1 : x \in free \intersect {p}})
                    + Cardinality({r \in Regs : retireMap[r] = p})
                    + Cardinality({i \in DOMAIN window : Writes(window[i].op) /\ window[i].given = p}) = 1
  BY DEF PartsConsistent, PartsNeverLeak, PartsInv, SlotsInv
<1> DEFINE F == {1 : x \in free \intersect {p}}
           R == {r \in Regs : retireMap[r] = p}
           G == {i \in DOMAIN window : Writes(window[i].op) /\ window[i].given = p}
<1>1. OwnersApart /\ EveryOwned
  BY DEF PartsInv, Trusted
<1>2. CASE p \in free
  <2>1. F = {1} /\ R = {} /\ G = {}
    BY <1>1, <1>2 DEF OwnersApart
  <2>3. Cardinality(F) = 1 /\ Cardinality(R) = 0 /\ Cardinality(G) = 0
    <3> HIDE DEF F, R, G
    <3> QED BY <2>1, FS_EmptySet, FS_Singleton
  <2> QED BY <2>3
<1>3. CASE \E r \in Regs : retireMap[r] = p
  <2>1. PICK r \in Regs : retireMap[r] = p
    BY <1>3
  <2>2. F = {} /\ R = {r} /\ G = {}
    BY <1>1, <2>1 DEF OwnersApart
  <2>3. Cardinality(F) = 0 /\ Cardinality(R) = 1 /\ Cardinality(G) = 0
    <3> HIDE DEF F, R, G
    <3> QED BY <2>2, FS_EmptySet, FS_Singleton
  <2> QED BY <2>3
<1>4. CASE \E i \in DOMAIN window : Writes(window[i].op) /\ window[i].given = p
  <2>1. PICK i \in DOMAIN window : Writes(window[i].op) /\ window[i].given = p
    BY <1>4
  <2>2. F = {} /\ R = {} /\ G = {i}
    BY <1>1, <2>1 DEF OwnersApart
  <2>3. Cardinality(F) = 0 /\ Cardinality(R) = 0 /\ Cardinality(G) = 1
    <3> HIDE DEF F, R, G
    <3> QED BY <2>2, FS_EmptySet, FS_Singleton
  <2> QED BY <2>3
<1> QED BY <1>1, <1>2, <1>3, <1>4 DEF EveryOwned

\* Retirement and squashes, which know registers only through the slots, free each
\* register exactly once and lose none (arf.C:3223), until one of them has used the
\* slots of an instruction that writes and behind which the ring was lapped.
THEOREM PartsStayConsistent == Spec => []PartsConsistent
<1>1. PartsInv /\ [Next]_vars => PartsInv'
  BY NextParts
<1> QED BY <1>1, InitParts, OwnersCount, PTL DEF Spec

-----------------------------------------------------------------------------
(***************************************************************************)
(* The readers-writer lock.  The inductive invariant says that the counts  *)
(* are the cardinalities of the sets of holders and that one of them is    *)
(* zero; exclusion and the absence of refused releases follow from it.     *)
(***************************************************************************)

OneSide == writerCount = 0 \/ readerCount = 0

LockInv == LockTypeOK /\ CountsMatchHolders /\ OneSide /\ SleepingReaderHasCause

-----------------------------------------------------------------------------
\* Where the threads are after one of them has moved.
LEMMA MovesOne ==
  ASSUME LockTypeOK, NEW t \in Threads, NEW p \in Places, Goes(t, p)
  PROVE  /\ pc' \in [Threads -> Places]
         /\ \A q \in Places : At(q)' = IF q = p THEN At(q) \cup {t} ELSE At(q) \ {t}
BY DEF LockTypeOK, Goes, At

\* How many threads are at a place after one has moved: the mover leaves a place
\* and joins another, everybody else stays.
LEMMA CountsMove ==
  ASSUME LockTypeOK, NEW t \in Threads, NEW p \in Places, Goes(t, p), NEW q \in Places
  PROVE  /\ Cardinality(At(q)) \in Nat
         /\ Cardinality(At(q)') = IF q = p /\ pc[t] # q THEN Cardinality(At(q)) + 1
                                  ELSE IF q # p /\ pc[t] = q THEN Cardinality(At(q)) - 1
                                  ELSE Cardinality(At(q))
<1>1. IsFiniteSet(At(q))
  BY FS_Subset, ThreadsAssumption DEF At
<1>2. Cardinality(At(q)) \in Nat
  BY <1>1, FS_CardinalityType
<1>3. t \in At(q) <=> pc[t] = q
  BY DEF At
<1>4. At(q)' = IF q = p THEN At(q) \cup {t} ELSE At(q) \ {t}
  BY MovesOne
<1>5. CASE q = p
  BY <1>1, <1>2, <1>3, <1>4, <1>5, FS_AddElement
<1>6. CASE q # p
  BY <1>1, <1>2, <1>3, <1>4, <1>6, FS_RemoveElement
<1> QED
  BY <1>5, <1>6

\* A thread at a place is counted there.
LEMMA Occupied ==
  ASSUME LockTypeOK, NEW t \in Threads, NEW q \in Places, pc[t] = q
  PROVE  Cardinality(At(q)) > 0
<1>1. IsFiniteSet(At(q)) /\ At(q) # {}
  BY FS_Subset, ThreadsAssumption DEF At
<1> QED
  BY <1>1, FS_EmptySet, FS_CardinalityType

-----------------------------------------------------------------------------
LEMMA LockInitOK == LockInit => LockInv
<1> SUFFICES ASSUME LockInit PROVE LockInv
  OBVIOUS
<1>1. LockTypeOK
  BY DEF LockInit, LockTypeOK, Places, At
<1>2. At("reading") = {} /\ At("writing") = {}
  BY DEF LockInit, At
<1>3. CountsMatchHolders
  BY <1>2, FS_EmptySet DEF LockInit, CountsMatchHolders
<1> QED
  BY <1>1, <1>3 DEF LockInit, LockInv, OneSide, SleepingReaderHasCause, At

LEMMA TryReadStep ==
  ASSUME LockInv, NEW t \in Threads, pc[t] \in {"idle", "toRead"}, TryRead(t), UNCHANGED calls
  PROVE  LockInv'
<1> USE DEF LockInv
<1>1. CASE (writerWaiting \/ writerCount > 0) /\ Goes(t, "toRead") /\ Wait(t) /\ UNCHANGED readerCount
  <2>1. LockTypeOK'
    BY <1>1, MovesOne DEF LockTypeOK, TryRead, Places, Wait
  <2>2. CountsMatchHolders'
    BY <1>1, CountsMove DEF CountsMatchHolders, TryRead, Places
  <2> QED
    BY <1>1, <2>1, <2>2 DEF OneSide, SleepingReaderHasCause, TryRead
<1>2. CASE ~ writerWaiting /\ writerCount = 0 /\ Goes(t, "reading") /\ readerCount' = readerCount + 1 /\ UNCHANGED asleep
  <2>1. LockTypeOK'
    <3>1. t \notin asleep
      BY <1>2 DEF SleepingReaderHasCause, At, LockTypeOK
    <3> QED
      BY <1>2, <3>1, MovesOne DEF LockTypeOK, TryRead, Places
  <2>2. CountsMatchHolders'
    BY <1>2, CountsMove DEF CountsMatchHolders, TryRead, Places, LockTypeOK
  <2>3. SleepingReaderHasCause'
    BY <1>2, MovesOne DEF SleepingReaderHasCause, TryRead, Places
  <2> QED
    BY <1>2, <2>1, <2>2, <2>3 DEF OneSide, TryRead
<1> QED
  BY <1>1, <1>2 DEF TryRead

LEMMA TryWriteStep ==
  ASSUME LockInv, NEW t \in Threads, NEW flag \in BOOLEAN, NEW readersLeft \in Nat,
         pc[t] \in {"idle", "toWrite", "reading"}, t \notin asleep,
         readersLeft = IF pc[t] = "reading" THEN readerCount - 1 ELSE readerCount,
         writerWaiting => flag,
         TryWrite(t, flag, readersLeft), UNCHANGED calls
  PROVE  LockInv'
<1> USE DEF LockInv
<1>1. CASE (writerCount > 0 \/ readersLeft > 0) /\ Goes(t, "toWrite") /\ Wait(t)
           /\ writerWaiting' = flag /\ UNCHANGED writerCount
  <2>1. LockTypeOK'
    BY <1>1, MovesOne DEF LockTypeOK, TryWrite, Places, Wait
  <2>2. CountsMatchHolders'
    BY <1>1, CountsMove DEF CountsMatchHolders, TryWrite, Places
  <2>3. SleepingReaderHasCause'
    BY <1>1, MovesOne DEF SleepingReaderHasCause, TryWrite, Places, Wait
  <2> QED
    BY <1>1, <2>1, <2>2, <2>3 DEF OneSide, TryWrite, LockTypeOK
<1>2. CASE writerCount = 0 /\ readersLeft = 0 /\ Goes(t, "writing")
           /\ writerWaiting' = FALSE /\ writerCount' = 1 /\ UNCHANGED asleep
  <2>1. LockTypeOK'
    BY <1>2, MovesOne DEF LockTypeOK, TryWrite, Places
  <2>2. CountsMatchHolders'
    BY <1>2, CountsMove DEF CountsMatchHolders, TryWrite, Places
  <2> QED
    BY <1>2, <2>1, <2>2 DEF OneSide, SleepingReaderHasCause, TryWrite
<1> QED
  BY <1>1, <1>2 DEF TryWrite

LEMMA ReadUnlockStep ==
  ASSUME LockInv, NEW t \in Threads, ReadUnlock(t), UNCHANGED calls
  PROVE  LockInv'
<1> USE DEF LockInv
<1>1. asleep' \subseteq asleep
  BY DEF ReadUnlock, Signal
<1>2. LockTypeOK'
  <2>1. t \notin asleep
    BY DEF ReadUnlock, LockTypeOK, At
  <2> QED
    BY <1>1, <2>1, MovesOne DEF ReadUnlock, LockTypeOK, Places
<1>3. CountsMatchHolders'
  BY CountsMove DEF ReadUnlock, CountsMatchHolders, Places
<1>4. SleepingReaderHasCause'
  BY <1>1, MovesOne DEF ReadUnlock, SleepingReaderHasCause, Places
<1> QED
  BY <1>2, <1>3, <1>4 DEF ReadUnlock, OneSide, LockTypeOK

LEMMA WriteReleaseStep ==
  ASSUME LockInv, NEW t \in Threads, WriteUnlock(t) \/ Downgrade(t), UNCHANGED calls
  PROVE  LockInv'
<1> USE DEF LockInv
<1>1. asleep' = {}
  BY DEF WriteUnlock, Downgrade, Broadcast
<1>2. LockTypeOK'
  BY <1>1, MovesOne DEF WriteUnlock, Downgrade, LockTypeOK, Places
<1>3. CountsMatchHolders'
  <2>1. writerCount = 1
    BY DEF WriteUnlock, Downgrade, LockTypeOK
  <2> QED
    BY <2>1, CountsMove DEF WriteUnlock, Downgrade, CountsMatchHolders, Places
<1> QED
  BY <1>1, <1>2, <1>3 DEF WriteUnlock, Downgrade, OneSide, SleepingReaderHasCause

\* A thread asleep is in one of the two loops.
LEMMA AwakeElsewhere ==
  ASSUME LockInv, NEW t \in Threads, pc[t] \notin {"toRead", "toWrite"}
  PROVE  t \notin asleep
BY DEF LockInv, LockTypeOK, At

LEMMA LockNextOK == LockInv /\ [LockNext]_lockVars => LockInv'
<1> SUFFICES ASSUME LockInv, [LockNext]_lockVars PROVE LockInv'
  OBVIOUS
<1>1. CASE UNCHANGED lockVars
  BY <1>1 DEF lockVars, LockInv, LockTypeOK, CountsMatchHolders, OneSide, SleepingReaderHasCause, At
<1>2. CASE LockNext
  <2> UNCHANGED calls
    BY <1>2 DEF LockNext
  <2>1. PICK t \in Threads : Step(t)
    BY <1>2 DEF LockNext
  <2>2. CASE ReadLock(t) \/ ResumeRead(t)
    BY <2>2, TryReadStep DEF ReadLock, ResumeRead
  <2>3. CASE WriteLock(t)
    BY <2>3, TryWriteStep, AwakeElsewhere DEF WriteLock, LockInv, LockTypeOK
  <2>4. CASE ResumeWrite(t)
    BY <2>4, TryWriteStep DEF ResumeWrite, LockInv, LockTypeOK
  <2>5. CASE Upgrade(t)
    <3>1. readerCount - 1 \in Nat
      BY <2>5 DEF Upgrade, LockInv, LockTypeOK
    <3> QED
      BY <2>5, <3>1, TryWriteStep, AwakeElsewhere DEF Upgrade
  <2>6. CASE Release(t)
    BY <2>6, ReadUnlockStep, WriteReleaseStep DEF Release
  <2>7. CASE SpuriousWakeup(t)
    BY <2>7 DEF SpuriousWakeup, LockInv, LockTypeOK, CountsMatchHolders, OneSide, SleepingReaderHasCause, At
  <2> QED
    BY <2>1, <2>2, <2>3, <2>4, <2>5, <2>6, <2>7 DEF Step, Reenter
<1> QED
  BY <1>1, <1>2 DEF LockNext

LEMMA LockInductive == LockSpec => []LockInv
<1>1. LockInit => LockInv
  BY LockInitOK
<1>2. LockInv /\ [LockNext]_lockVars => LockInv'
  BY LockNextOK
<1> QED
  BY <1>1, <1>2, PTL DEF LockSpec

-----------------------------------------------------------------------------
\* The counts are those of the threads that hold the lock.
THEOREM LockCounts == LockSpec => [](LockTypeOK /\ CountsMatchHolders)
<1>1. LockInv => LockTypeOK /\ CountsMatchHolders
  BY DEF LockInv
<1> QED
  BY <1>1, LockInductive, PTL

\* Whoever writes is alone, for any number of readers, writers and upgrades.
THEOREM LockExcludes == LockSpec => []Exclusion
<1>1. LockInv => Exclusion
  <2> SUFFICES ASSUME LockInv, NEW t \in Threads, NEW u \in Threads, pc[t] = "writing", u # t
               PROVE  pc[u] \notin {"reading", "writing"}
    BY DEF Exclusion
  <2> USE DEF LockInv
  <2>1. Cardinality(At("writing")) = 1 /\ Cardinality(At("reading")) = 0
    BY Occupied DEF Places, CountsMatchHolders, OneSide, LockTypeOK
  <2>2. IsFiniteSet(At("writing")) /\ t \in At("writing")
    BY FS_Subset, ThreadsAssumption DEF At
  <2>3. PICK w : At("writing") = {w}
    BY <2>1, <2>2, FS_Singleton
  <2>4. pc[u] # "writing"
    BY <2>2, <2>3 DEF At
  <2>5. pc[u] # "reading"
    BY <2>1, Occupied DEF Places
  <2> QED
    BY <2>4, <2>5
<1> QED
  BY <1>1, LockInductive, PTL

\* What is held can be released: the early returns of the release methods are
\* not reached by callers that keep to the rules.
THEOREM LockNeverRefuses == LockSpec => []NeverRefused
<1>1. LockInv => NeverRefused
  <2> SUFFICES ASSUME LockInv, NEW t \in Threads PROVE ~ Refused(t)
    BY DEF NeverRefused
  <2> USE DEF LockInv
  <2>1. pc[t] = "reading" => readerCount > 0
    BY Occupied DEF Places, CountsMatchHolders
  <2>2. pc[t] = "writing" => writerCount > 0
    BY Occupied DEF Places, CountsMatchHolders
  <2> QED
    BY <2>1, <2>2 DEF Refused, OneSide, LockTypeOK
<1> QED
  BY <1>1, LockInductive, PTL

\* A reader that sleeps has a writer to wait for.
THEOREM LockSleepersHaveCause == LockSpec => []SleepingReaderHasCause
<1>1. LockInv => SleepingReaderHasCause
  BY DEF LockInv
<1> QED
  BY <1>1, LockInductive, PTL

\* The lock keeps its promise for any number of threads and any programs.
THEOREM LockIsSafe == LockSpec => []LockSafe
<1>1. LockSpec => [](LockTypeOK /\ CountsMatchHolders) BY LockCounts
<1>2. LockSpec => []Exclusion BY LockExcludes
<1>3. LockSpec => []NeverRefused BY LockNeverRefuses
<1>4. (LockTypeOK /\ CountsMatchHolders) /\ Exclusion /\ NeverRefused => LockSafe BY DEF LockSafe
<1> QED BY <1>1, <1>2, <1>3, <1>4, PTL

-----------------------------------------------------------------------------
\* Who can be in the loop of a writer or hold the lock as one.
Writers == Calling("write") \cup Calling("upgrade")

\* With one writer nobody else lowers the flag it has raised, so the flag is up as
\* long as it is in the loop.
FlagFitsWriter ==
    /\ At("toWrite") \cup At("writing") \subseteq Writers
    /\ (\A t, u \in Writers : t = u) /\ At("toWrite") # {} => writerWaiting

LEMMA WritersKept == UNCHANGED calls => Writers' = Writers
BY DEF Writers, Calling

LEMMA AtMostOne ==
  ASSUME Cardinality(Writers) <= 1, NEW t \in Writers, NEW u \in Writers
  PROVE  t = u
<1> SUFFICES ASSUME t # u PROVE FALSE
  OBVIOUS
<1>1. IsFiniteSet(Writers)
  BY FS_Subset, ThreadsAssumption DEF Writers, Calling
<1>2. {t} \cup {u} \subseteq Writers /\ u \notin {t}
  OBVIOUS
<1>3. IsFiniteSet({t}) /\ Cardinality({t}) = 1
  BY FS_Singleton
<1>4. Cardinality({t} \cup {u}) = 2
  BY <1>2, <1>3, FS_AddElement
<1>5. Cardinality({t} \cup {u}) <= Cardinality(Writers) /\ Cardinality(Writers) \in Nat
  BY <1>1, <1>2, FS_Subset, FS_CardinalityType
<1> QED
  BY <1>4, <1>5

LEMMA InitFlag == LockInit => FlagFitsWriter
BY DEF LockInit, FlagFitsWriter, At

LEMMA NextFlag == LockInv /\ FlagFitsWriter /\ [LockNext]_lockVars => FlagFitsWriter'
<1> SUFFICES ASSUME LockInv, FlagFitsWriter, [LockNext]_lockVars PROVE FlagFitsWriter'
  OBVIOUS
<1>0. Writers' = Writers
  BY WritersKept DEF LockNext, lockVars
<1> USE DEF LockInv
<1>1. ASSUME UNCHANGED <<pc, writerWaiting>> PROVE FlagFitsWriter'
  BY <1>0, <1>1 DEF FlagFitsWriter, At
<1>2. ASSUME NEW t \in Threads, NEW p \in {"idle", "toRead", "reading"}, Goes(t, p),
             UNCHANGED writerWaiting
      PROVE  FlagFitsWriter'
  <2>1. At("toWrite")' \subseteq At("toWrite") /\ At("writing")' \subseteq At("writing")
    BY <1>2, MovesOne DEF Places
  <2> QED
    BY <1>0, <1>2, <2>1 DEF FlagFitsWriter
<1>3. ASSUME NEW t \in Writers, Goes(t, "toWrite"), (\A v, u \in Writers : v = u) => writerWaiting'
      PROVE  FlagFitsWriter'
  <2>0. t \in Threads
    BY DEF Writers, Calling
  <2>1. At("toWrite")' = At("toWrite") \cup {t} /\ At("writing")' = At("writing") \ {t}
    BY <1>3, <2>0, MovesOne DEF Places
  <2> QED
    BY <1>0, <1>3, <2>1 DEF FlagFitsWriter
<1>6. ASSUME NEW t \in Writers, Goes(t, "writing")
      PROVE  FlagFitsWriter'
  <2>0. t \in Threads
    BY DEF Writers, Calling
  <2>1. At("toWrite")' = At("toWrite") \ {t} /\ At("writing")' = At("writing") \cup {t}
    BY <1>6, <2>0, MovesOne DEF Places
  <2>2. (\A v, u \in Writers : v = u) => At("toWrite")' = {}
    BY <2>1 DEF FlagFitsWriter
  <2> QED
    BY <1>0, <2>1, <2>2 DEF FlagFitsWriter
<1>4. CASE UNCHANGED lockVars
  BY <1>1, <1>4 DEF lockVars
<1>5. CASE LockNext
  <2>1. PICK t \in Threads : Step(t)
    BY <1>5 DEF LockNext
  <2>2. CASE ReadLock(t) \/ ResumeRead(t)
    BY <1>2, <2>2 DEF ReadLock, ResumeRead, TryRead
  <2>3. CASE WriteLock(t)
    <3>1. t \in Writers
      BY <2>3 DEF WriteLock, Writers
    <3> QED
      BY <1>3, <1>6, <2>3, <3>1 DEF WriteLock, TryWrite
  <2>4. CASE ResumeWrite(t)
    <3>1. t \in Writers
      BY <2>4 DEF ResumeWrite, FlagFitsWriter, At
    <3>2. (\A v, u \in Writers : v = u) => writerWaiting
      BY <2>4 DEF ResumeWrite, FlagFitsWriter, At
    <3> QED
      BY <1>3, <1>6, <2>4, <3>1, <3>2 DEF ResumeWrite, TryWrite
  <2>5. CASE Upgrade(t)
    <3>1. t \in Writers
      BY <2>5 DEF Upgrade, Writers
    <3> QED
      BY <1>3, <1>6, <2>5, <3>1 DEF Upgrade, TryWrite
  <2>6. CASE Release(t)
    BY <1>2, <2>6 DEF Release, ReadUnlock, WriteUnlock, Downgrade
  <2>7. CASE SpuriousWakeup(t)
    BY <1>1, <2>7 DEF SpuriousWakeup
  <2> QED
    BY <2>1, <2>2, <2>3, <2>4, <2>5, <2>6, <2>7 DEF Step, Reenter
<1> QED
  BY <1>4, <1>5

\* A step that lets no reader in past a writer.
PriorityKept ==
    Cardinality(Calling("write") \cup Calling("upgrade")) <= 1 =>
        \A t \in Threads : pc[t] \in {"idle", "toRead"} /\ pc'[t] = "reading" => At("toWrite") = {}

LEMMA NextPriority == LockInv /\ FlagFitsWriter /\ LockNext => PriorityKept
<1> SUFFICES ASSUME LockInv, FlagFitsWriter, LockNext, Cardinality(Writers) <= 1, NEW t \in Threads,
                    pc[t] \in {"idle", "toRead"}, pc'[t] = "reading"
             PROVE  At("toWrite") = {}
  BY DEF PriorityKept, Writers
<1>1. At("toWrite") # {} => writerWaiting
  BY AtMostOne DEF FlagFitsWriter
<1>2. PICK s \in Threads : Step(s)
  BY DEF LockNext
<1>3. \A p \in Places : Goes(s, p) => s = t /\ p = "reading"
  <2> SUFFICES ASSUME NEW p \in Places, Goes(s, p) PROVE s = t /\ p = "reading"
    OBVIOUS
  <2>1. \A u \in Threads : pc'[u] = IF u = s THEN p ELSE pc[u]
    BY DEF Goes, LockInv, LockTypeOK
  <2> QED
    BY <2>1
<1>4. pc' # pc
  OBVIOUS
<1>5. ~ writerWaiting
  BY <1>2, <1>3, <1>4
     DEF Step, Release, Reenter, ReadLock, ResumeRead, TryRead, ReadUnlock, WriteLock, ResumeWrite,
         TryWrite, WriteUnlock, Upgrade, Downgrade, SpuriousWakeup, Places
<1> QED
  BY <1>1, <1>5

\* WritersFirst: with one writer in the program, no reader is let in while it waits,
\* for any number of readers and through upgrades and wakeups without a signal.
THEOREM LockPrefersWriter == LockSpec => WritersFirst
<1>1. LockInit => FlagFitsWriter
  BY InitFlag
<1>2. LockInv /\ FlagFitsWriter /\ [LockNext]_lockVars => FlagFitsWriter' /\ [PriorityKept]_lockVars
  BY NextFlag, NextPriority
<1>3. [][PriorityKept]_lockVars => WritersFirst
  BY PTL DEF WritersFirst, PriorityKept
<1> QED
  BY <1>1, <1>2, <1>3, LockInductive, PTL DEF LockSpec

-----------------------------------------------------------------------------
(***************************************************************************)
(* Scheduler: numbers, and functions defined by recursion on them.         *)
(*                                                                         *)
(* What a loop of the code builds is a function in the model, whose value  *)
(* for n is made from that for n - 1.  Its definition is only a choice of  *)
(* such a function: that there is one is what Recursion says, and UpTo is  *)
(* the induction over the loop.                                            *)
(***************************************************************************)

\* A set of numbers has a least element.
LEMMA LeastExists ==
  ASSUME NEW S, S \subseteq Nat, S # {}
  PROVE  \E x \in S : \A y \in S : x <= y
<1> DEFINE R == OpToRel(<, Nat)
<1>1. IsWellFoundedOn(R, Nat)
  BY NatLessThanWellFounded
<1>2. \A x, y \in Nat : x < y => <<x, y>> \in R
  BY DEF OpToRel
<1>3. PICK x \in S : \A y \in S : ~ (<<y, x>> \in R)
  <2> HIDE DEF R
  <2> QED BY <1>1, WFMin
<1>4. ASSUME NEW y \in S PROVE x <= y
  <2>1. x \in Nat /\ y \in Nat
    OBVIOUS
  <2>2. ~ (y < x)
    BY <1>2, <1>3, <2>1
  <2> QED
    BY <2>1, <2>2
<1> QED
  BY <1>4

\* A set of numbers up to n has a greatest.
LEMMA MaxExists ==
  ASSUME NEW S, NEW n \in Nat, S \subseteq 1 .. n, S # {}
  PROVE  /\ Max(S) \in S
         /\ \A y \in S : y <= Max(S)
<1> DEFINE R == {n - x : x \in S}
<1>1. R \subseteq Nat /\ R # {}
  OBVIOUS
<1>2. PICK z \in R : \A y \in R : z <= y
  <2> HIDE DEF R
  <2> QED BY <1>1, LeastExists
<1>3. PICK x \in S : z = n - x
  OBVIOUS
<1>4. ASSUME NEW y \in S PROVE y <= x
  <2>1. n - y \in R
    OBVIOUS
  <2> QED
    BY <1>2, <1>3, <2>1
<1>5. \E m \in S : \A y \in S : y <= m
  BY <1>4
<1> QED
  BY <1>5 DEF Max

\* Induction on the numbers up to n.
Inductive(P, n) == 0 \in P /\ \A m \in 0 .. n - 1 : m \in P => m + 1 \in P

LEMMA UpTo ==
  ASSUME NEW n \in Nat, NEW P, Inductive(P, n)
  PROVE  n \in P
<1> USE DEF Inductive
<1> DEFINE S == {m \in 0 .. n : m \notin P}
<1> SUFFICES ASSUME n \notin P PROVE FALSE
  OBVIOUS
<1>1. PICK x \in S : \A y \in S : x <= y
  <2>1. S \subseteq Nat /\ S # {}
    OBVIOUS
  <2> HIDE DEF S
  <2> QED BY <2>1, LeastExists
<1>2. x # 0
  OBVIOUS
<1>3. x - 1 \in 0 .. n - 1 /\ x - 1 \notin S
  BY <1>1, <1>2
<1> QED
  BY <1>3

\* f begins with base, and step says what comes after what.
Follows(f, n, base, step) ==
    f = [m \in 0 .. n |-> IF m = 0 THEN base ELSE step[m][f[m - 1]]]

LEMMA OneMore ==
  ASSUME NEW n \in Nat, NEW m \in 0 .. n - 1, NEW D, NEW base \in D, NEW step \in [1 .. n -> [D -> D]],
         NEW f \in [0 .. m -> D], Follows(f, m, base, step)
  PROVE  \E g \in [0 .. m + 1 -> D] : Follows(g, m + 1, base, step)
<1>1. m \in Nat /\ m + 1 \in 1 .. n
  OBVIOUS
<1>2. PICK x : x = step[m + 1][f[m]]
  OBVIOUS
<1>3. x \in D
  <2>1. f[m] \in D
    BY <1>1
  <2>2. step[m + 1] \in [D -> D]
    BY <1>1
  <2> QED BY <1>2, <2>1, <2>2
<1> DEFINE g == [k \in 0 .. m + 1 |-> IF k = m + 1 THEN x ELSE f[k]]
<1>4. g \in [0 .. m + 1 -> D]
  BY <1>1, <1>3
<1>5. ASSUME NEW k \in 0 .. m + 1
      PROVE  g[k] = IF k = 0 THEN base ELSE step[k][g[k - 1]]
  <2>1. CASE k = m + 1
    <3>1. g[k] = x /\ g[k - 1] = f[m]
      BY <1>1, <2>1
    <3> QED BY <1>1, <1>2, <2>1, <3>1
  <2>2. CASE k \in 0 .. m
    <3>1. g[k] = f[k] /\ (k # 0 => g[k - 1] = f[k - 1])
      BY <1>1, <2>2
    <3>2. f[k] = IF k = 0 THEN base ELSE step[k][f[k - 1]]
      BY <2>2 DEF Follows
    <3> QED BY <3>1, <3>2
  <2> QED BY <1>1, <2>1, <2>2
<1>6. Follows(g, m + 1, base, step)
  BY <1>5 DEF Follows
<1> QED
  BY <1>4, <1>6

\* What is defined by recursion exists.
LEMMA Recursion ==
  ASSUME NEW n \in Nat, NEW D, NEW base \in D, NEW step \in [1 .. n -> [D -> D]]
  PROVE  \E f \in [0 .. n -> D] : Follows(f, n, base, step)
<1> DEFINE P == {m \in 0 .. n : \E f \in [0 .. m -> D] : Follows(f, m, base, step)}
<1>1. 0 \in P
  <2> DEFINE f == [m \in 0 .. 0 |-> base]
  <2>1. f \in [0 .. 0 -> D] /\ Follows(f, 0, base, step)
    BY DEF Follows
  <2> HIDE DEF f
  <2> QED BY <2>1
<1>2. ASSUME NEW m \in 0 .. n - 1, m \in P PROVE m + 1 \in P
  BY <1>2, OneMore
<1>3. Inductive(P, n)
  BY <1>1, <1>2 DEF Inductive
<1>4. n \in P
  <2> HIDE DEF P
  <2> QED BY <1>3, UpTo
<1> QED
  BY <1>4

-----------------------------------------------------------------------------
(***************************************************************************)
(* Lists.                                                                  *)
(***************************************************************************)

\* What is true of an entry and each later one: that they differ, or that they are
\* in order.
Pairwise(list, R) == \A m, n \in DOMAIN list : m < n => <<list[m], list[n]>> \in R

\* t is s and e behind it.
LEMMA Longer ==
  ASSUME NEW S, NEW s \in Seq(S), NEW e \in S
  PROVE  /\ s \o <<e>> \in Seq(S)
         /\ ToSet(s \o <<e>>) = ToSet(s) \cup {e}
         /\ \A R : Pairwise(s, R) /\ (\A a \in ToSet(s) : <<a, e>> \in R) => Pairwise(s \o <<e>>, R)
<1>1. PICK t : t = s \o <<e>>
  OBVIOUS
<1>2. Len(s) \in Nat /\ DOMAIN s = 1 .. Len(s)
  BY LenProperties
<1>3. /\ <<e>> \in Seq(S) /\ Len(<<e>>) = 1 /\ <<e>>[1] = e
  OBVIOUS
<1>4. /\ t \in Seq(S) /\ Len(t) = Len(s) + 1
      /\ \A n \in 1 .. Len(s) : t[n] = s[n]
      /\ t[Len(s) + 1] = e
  BY <1>1, <1>2, <1>3, ConcatProperties
<1>5. DOMAIN t = 1 .. Len(s) + 1
  BY <1>4, LenProperties
<1>6. ToSet(t) = ToSet(s) \cup {e}
  BY <1>2, <1>4, <1>5 DEF ToSet
<1>7. ASSUME NEW R, Pairwise(s, R), \A a \in ToSet(s) : <<a, e>> \in R,
             NEW m \in DOMAIN t, NEW n \in DOMAIN t, m < n
      PROVE  <<t[m], t[n]>> \in R
  <2>1. m \in DOMAIN s /\ t[m] = s[m] /\ s[m] \in ToSet(s)
    BY <1>2, <1>4, <1>5, <1>7 DEF ToSet
  <2>2. CASE n = Len(s) + 1
    BY <1>4, <1>7, <2>1, <2>2
  <2>3. CASE n \in DOMAIN s
    BY <1>2, <1>4, <1>7, <2>1, <2>3 DEF Pairwise
  <2> QED BY <1>2, <1>5, <2>2, <2>3
<1> QED
  BY <1>1, <1>4, <1>6, <1>7 DEF Pairwise

\* The instructions that are not in gone, in the order of the list.
LEMMA WithoutKeeps ==
  ASSUME NEW S, NEW list \in Seq(S), NEW gone
  PROVE  /\ Without(list, gone) \in Seq(S)
         /\ ToSet(Without(list, gone)) = ToSet(list) \ gone
         /\ \A R : Pairwise(list, R) => Pairwise(Without(list, gone), R)
<1> DEFINE n == Len(list)
           Entry(m) == IF list[m] \in gone THEN <<>> ELSE <<list[m]>>
           Remains(f) == f = [m \in 0 .. n |-> IF m = 0 THEN <<>> ELSE f[m - 1] \o Entry(m)]
           step == [m \in 1 .. n |-> [k \in Seq(S) |-> k \o Entry(m)]]
<1>1. n \in Nat /\ DOMAIN list = 1 .. n /\ \A m \in 1 .. n : list[m] \in S
  BY LenProperties, ElementOfSeq
<1>2. \E f : Remains(f)
  <2>1. ASSUME NEW m \in 1 .. n, NEW k \in Seq(S) PROVE k \o Entry(m) \in Seq(S)
    <3>1. Entry(m) \in Seq(S)
      BY <1>1
    <3> QED BY <3>1, ConcatProperties
  <2>2. step \in [1 .. n -> [Seq(S) -> Seq(S)]]
    BY <2>1
  <2>3. <<>> \in Seq(S)
    OBVIOUS
  <2>4. PICK f \in [0 .. n -> Seq(S)] : Follows(f, n, <<>>, step)
    <3> HIDE DEF step
    <3> QED BY <1>1, <2>2, <2>3, Recursion
  <2>5. ASSUME NEW m \in 1 .. n PROVE step[m][f[m - 1]] = f[m - 1] \o Entry(m)
    <3>1. m - 1 \in 0 .. n
      BY <1>1
    <3>2. PICK x : x = f[m - 1]
      OBVIOUS
    <3>3. x \in Seq(S)
      BY <3>1, <3>2
    <3> HIDE DEF Entry
    <3>4. step[m][x] = x \o Entry(m)
      BY <3>3
    <3> QED BY <3>2, <3>4
  <2> HIDE DEF step, Entry
  <2>6. ASSUME NEW m \in 0 .. n
        PROVE  (IF m = 0 THEN <<>> ELSE step[m][f[m - 1]]) = (IF m = 0 THEN <<>> ELSE f[m - 1] \o Entry(m))
    <3>1. m # 0 => m \in 1 .. n
      BY <1>1
    <3> QED BY <2>5, <3>1
  <2>7. Remains(f)
    BY <2>4, <2>6 DEF Follows
  <2> QED BY <2>7
<1>3. PICK k : k = CHOOSE f : Remains(f)
  OBVIOUS
<1>4. Remains(k)
  <2> HIDE DEF Remains
  <2> QED BY <1>2, <1>3
<1>5. Without(list, gone) = k[n]
  BY <1>3 DEF Without
<1>6. k[0] = <<>> /\ \A m \in 1 .. n : k[m] = k[m - 1] \o Entry(m)
  <2> HIDE DEF Entry
  <2>1. 0 \in 0 .. n /\ \A m \in 1 .. n : m \in 0 .. n /\ m # 0
    BY <1>1
  <2>2. \A m \in 0 .. n : k[m] = IF m = 0 THEN <<>> ELSE k[m - 1] \o Entry(m)
    BY <1>4
  <2> HIDE DEF Remains
  <2> QED BY <2>1, <2>2
<1> DEFINE Upto(m) == {list[j] : j \in 1 .. m}
           Right(m) == /\ k[m] \in Seq(S)
                       /\ ToSet(k[m]) = Upto(m) \ gone
                       /\ \A R : Pairwise(list, R) => Pairwise(k[m], R)
           P == {m \in 0 .. n : Right(m)}
<1> HIDE DEF Remains
<1>7. 0 \in P
  <2>1. Upto(0) = {} /\ ToSet(<<>>) = {} /\ DOMAIN <<>> = {} /\ <<>> \in Seq(S)
    BY DEF ToSet
  <2>2. \A R : Pairwise(<<>>, R)
    BY <2>1 DEF Pairwise
  <2>3. Right(0)
    <3> HIDE DEF Upto
    <3> QED BY <1>6, <2>1, <2>2
  <2> HIDE DEF Right
  <2> QED BY <1>1, <2>3
<1>8. ASSUME NEW m \in 0 .. n - 1, m \in P PROVE m + 1 \in P
  <2>1. m + 1 \in 1 .. n /\ (m + 1) - 1 = m /\ list[m + 1] \in S
    BY <1>1
  <2>2. Right(m)
    BY <1>8
  <2>3. k[m + 1] = k[m] \o Entry(m + 1)
    BY <1>6, <2>1
  <2>4. Upto(m + 1) = Upto(m) \cup {list[m + 1]}
    BY <2>1
  <2>5. CASE list[m + 1] \in gone
    <3>1. k[m + 1] = k[m]
      BY <2>2, <2>3, <2>5, ConcatEmptySeq
    <3>2. Upto(m + 1) \ gone = Upto(m) \ gone
      BY <2>4, <2>5
    <3> QED BY <1>1, <2>1, <2>2, <3>1, <3>2
  <2>6. CASE list[m + 1] \notin gone
    <3>1. k[m + 1] = k[m] \o <<list[m + 1]>>
      BY <2>3, <2>6
    <3>2. Upto(m + 1) \ gone = (Upto(m) \ gone) \cup {list[m + 1]}
      BY <2>4, <2>6
    <3>3. PICK e : e = list[m + 1]
      OBVIOUS
    <3>4. e \in S /\ k[m + 1] = k[m] \o <<e>>
      BY <2>1, <3>1, <3>3
    <3>5. ASSUME NEW R, Pairwise(list, R), NEW a \in ToSet(k[m]) PROVE <<a, e>> \in R
      <4>1. PICK j \in 1 .. m : a = list[j]
        BY <2>2, <3>5
      <4>2. j \in DOMAIN list /\ m + 1 \in DOMAIN list /\ j < m + 1
        BY <1>1, <2>1
      <4> QED BY <3>3, <3>5, <4>1, <4>2 DEF Pairwise
    <3>6. /\ k[m + 1] \in Seq(S) /\ ToSet(k[m + 1]) = ToSet(k[m]) \cup {e}
          /\ \A R : Pairwise(list, R) => Pairwise(k[m + 1], R)
      BY <2>2, <3>4, <3>5, Longer
    <3> QED BY <1>1, <2>1, <2>2, <3>2, <3>3, <3>6
  <2> QED BY <2>5, <2>6
<1>9. Inductive(P, n)
  BY <1>7, <1>8 DEF Inductive
<1>10. Right(n)
  <2>1. n \in P
    <3> HIDE DEF P
    <3> QED BY <1>1, <1>9, UpTo
  <2> QED BY <2>1
<1>11. Upto(n) = ToSet(list)
  BY <1>1 DEF ToSet
<1> QED
  BY <1>5, <1>10, <1>11

\* e stands at i, and those of s from i on are behind it.
Pushed(S, s, i, e, u) ==
    /\ u \in Seq(S) /\ Len(u) = Len(s) + 1
    /\ u[i] = e
    /\ \A k \in 1 .. i - 1 : u[k] = s[k]
    /\ \A k \in i .. Len(s) : u[k + 1] = s[k]

LEMMA InsertPlaces ==
  ASSUME NEW S, NEW s \in Seq(S), NEW i \in 1 .. Len(s) + 1, NEW e \in S, NEW u, u = InsertAt(s, i, e)
  PROVE  Pushed(S, s, i, e, u)
<1> DEFINE n == Len(s)
           a == SubSeq(s, 1, i - 1)
           b == SubSeq(s, i, n)
           t == a \o <<e>>
<1>1. n \in Nat /\ i \in 1 .. n + 1 /\ \A k \in 1 .. n : s[k] \in S
  BY LenProperties, ElementOfSeq
<1>2. a \in Seq(S) /\ Len(a) = i - 1 /\ \A k \in 1 .. i - 1 : a[k] = s[k]
  <2>1. 1 \in Int /\ i - 1 \in Int /\ \A k \in 1 .. i - 1 : s[k] \in S
    BY <1>1
  <2>2. /\ a \in Seq(S) /\ Len(a) = IF 1 <= i - 1 THEN (i - 1) - 1 + 1 ELSE 0
        /\ \A k \in 1 .. (i - 1) - 1 + 1 : a[k] = s[1 + k - 1]
    BY <2>1, SubSeqProperties
  <2> HIDE DEF a
  <2>3. Len(a) = i - 1
    BY <1>1, <2>2
  <2>4. ASSUME NEW k \in 1 .. i - 1 PROVE a[k] = s[k]
    <3>1. k \in 1 .. (i - 1) - 1 + 1 /\ 1 + k - 1 = k
      BY <1>1
    <3> QED
      BY <2>2, <3>1
  <2> QED
    BY <2>2, <2>3, <2>4
<1>3. b \in Seq(S) /\ Len(b) = n - i + 1 /\ \A k \in 1 .. n - i + 1 : b[k] = s[i + k - 1]
  <2>1. i \in Int /\ n \in Int /\ \A k \in i .. n : s[k] \in S
    BY <1>1
  <2>2. /\ b \in Seq(S) /\ Len(b) = IF i <= n THEN n - i + 1 ELSE 0
        /\ \A k \in 1 .. n - i + 1 : b[k] = s[i + k - 1]
    BY <2>1, SubSeqProperties
  <2> HIDE DEF b
  <2> QED
    BY <1>1, <2>2
<1>4. <<e>> \in Seq(S) /\ Len(<<e>>) = 1 /\ <<e>>[1] = e
  OBVIOUS
<1>5. u = t \o b
  BY DEF InsertAt
<1> HIDE DEF a, b
<1>6. t \in Seq(S) /\ Len(t) = i /\ (\A k \in 1 .. i - 1 : t[k] = s[k]) /\ t[i] = e
  BY <1>1, <1>2, <1>4, ConcatProperties
<1> HIDE DEF t
<1>7. u \in Seq(S) /\ Len(u) = n + 1
  <2>1. u \in Seq(S) /\ Len(u) = Len(t) + Len(b)
    <3>1. t \in Seq(S) /\ b \in Seq(S)
      BY <1>3, <1>6
    <3> QED
      BY ONLY <1>5, <3>1, ConcatProperties
  <2> QED
    BY <1>1, <1>3, <1>6, <2>1
<1>8. \A k \in 1 .. n + 1 : u[k] = IF k <= i THEN t[k] ELSE b[k - i]
  BY <1>1, <1>3, <1>5, <1>6, ConcatProperties
<1>9. u[i] = e /\ \A k \in 1 .. i - 1 : u[k] = s[k]
  BY <1>1, <1>6, <1>8
<1>10. ASSUME NEW k \in i .. n PROVE u[k + 1] = s[k]
  <2>1. k + 1 \in 1 .. n + 1 /\ ~ (k + 1 <= i) /\ (k + 1) - i \in 1 .. n - i + 1 /\ i + ((k + 1) - i) - 1 = k
    BY <1>1
  <2>2. u[k + 1] = b[(k + 1) - i]
    BY <1>8, <2>1
  <2>3. b[(k + 1) - i] = s[k]
    BY <1>3, <2>1
  <2> QED
    BY <2>2, <2>3
<1> QED
  BY <1>7, <1>9, <1>10 DEF Pushed

\* u is s with e at i.
With(S, s, i, e, u) ==
    /\ u \in Seq(S)
    /\ ToSet(u) = ToSet(s) \cup {e}
    /\ \A R : /\ Pairwise(s, R)
              /\ \A k \in 1 .. i - 1 : <<s[k], e>> \in R
              /\ \A k \in i .. Len(s) : <<e, s[k]>> \in R
              => Pairwise(u, R)

LEMMA Inserted ==
  ASSUME NEW S, NEW s \in Seq(S), NEW i \in 1 .. Len(s) + 1, NEW e \in S, NEW u, u = InsertAt(s, i, e)
  PROVE  With(S, s, i, e, u)
<1>1. Len(s) \in Nat /\ DOMAIN s = 1 .. Len(s)
  BY LenProperties
<1>2. /\ u \in Seq(S) /\ Len(u) = Len(s) + 1
      /\ u[i] = e
      /\ \A k \in 1 .. i - 1 : u[k] = s[k]
      /\ \A k \in i .. Len(s) : u[k + 1] = s[k]
  <2>1. Pushed(S, s, i, e, u)
    BY InsertPlaces
  <2> QED BY <2>1 DEF Pushed
<1>3. DOMAIN u = 1 .. Len(s) + 1
  BY <1>2, LenProperties
<1> DEFINE Old(k) == IF k < i THEN k ELSE k - 1
<1>4. ASSUME NEW k \in 1 .. Len(s) + 1, k # i
      PROVE  Old(k) \in 1 .. Len(s) /\ u[k] = s[Old(k)] /\ (k < i => Old(k) \in 1 .. i - 1) /\ (k > i => Old(k) \in i .. Len(s))
  <2>1. CASE k < i
    BY <1>1, <1>2, <2>1
  <2>2. CASE k > i
    <3>1. k - 1 \in i .. Len(s) /\ (k - 1) + 1 = k
      BY <1>1, <2>2
    <3>2. u[(k - 1) + 1] = s[k - 1]
      BY <1>2, <3>1
    <3> QED
      BY <1>1, <2>2, <3>1, <3>2
  <2> QED
    BY <1>1, <1>4, <2>1, <2>2
<1>5. ASSUME NEW k \in 1 .. Len(s)
      PROVE  s[k] \in ToSet(u)
  <2>1. CASE k < i
    BY <1>1, <1>2, <1>3, <2>1 DEF ToSet
  <2>2. CASE k >= i
    <3>1. k \in i .. Len(s) /\ k + 1 \in 1 .. Len(s) + 1
      BY <1>1, <2>2
    <3> QED
      BY <1>2, <1>3, <3>1 DEF ToSet
  <2> QED
    BY <1>1, <2>1, <2>2
<1>6. ToSet(u) = ToSet(s) \cup {e}
  <2>1. e \in ToSet(u)
    BY <1>1, <1>2, <1>3 DEF ToSet
  <2>2. ASSUME NEW x \in ToSet(s) PROVE x \in ToSet(u)
    BY <1>1, <1>5 DEF ToSet
  <2>3. ASSUME NEW x \in ToSet(u) PROVE x \in ToSet(s) \cup {e}
    <3>1. PICK k \in 1 .. Len(s) + 1 : x = u[k]
      BY <1>3 DEF ToSet
    <3>2. CASE k = i
      BY <1>2, <3>1, <3>2
    <3>3. CASE k # i
      <4>1. Old(k) \in 1 .. Len(s) /\ u[k] = s[Old(k)]
        BY <1>4, <3>3
      <4> HIDE DEF Old
      <4> QED
        BY <1>1, <3>1, <4>1 DEF ToSet
    <3> QED
      BY <3>2, <3>3
  <2> QED
    BY <2>1, <2>2, <2>3
<1>7. ASSUME NEW R, Pairwise(s, R),
             \A k \in 1 .. i - 1 : <<s[k], e>> \in R,
             \A k \in i .. Len(s) : <<e, s[k]>> \in R,
             NEW m \in DOMAIN u, NEW n \in DOMAIN u, m < n
      PROVE  <<u[m], u[n]>> \in R
  <2>1. CASE m = i
    <3>1. n # i /\ n > i
      BY <1>3, <1>7, <2>1
    <3>2. PICK k : k = Old(n)
      OBVIOUS
    <3>3. k \in i .. Len(s) /\ u[n] = s[k]
      BY <1>3, <1>4, <3>1, <3>2
    <3> QED
      BY <1>2, <1>7, <2>1, <3>3
  <2>2. CASE n = i
    <3>1. m # i /\ m < i
      BY <1>3, <1>7, <2>2
    <3>2. PICK k : k = Old(m)
      OBVIOUS
    <3>3. k \in 1 .. i - 1 /\ u[m] = s[k]
      BY <1>3, <1>4, <3>1, <3>2
    <3> QED
      BY <1>2, <1>7, <2>2, <3>3
  <2>3. CASE m # i /\ n # i
    <3>1. PICK k, l : k = Old(m) /\ l = Old(n)
      OBVIOUS
    <3>2. k < l
      BY <1>1, <1>3, <1>7, <2>3, <3>1
    <3>3. k \in DOMAIN s /\ u[m] = s[k] /\ l \in DOMAIN s /\ u[n] = s[l]
      BY <1>1, <1>3, <1>4, <2>3, <3>1
    <3> QED
      BY <1>7, <3>2, <3>3 DEF Pairwise
  <2> QED
    BY <2>1, <2>2, <2>3
<1> QED
  BY <1>2, <1>6, <1>7 DEF Pairwise, With

-----------------------------------------------------------------------------
(***************************************************************************)
(* The ready list.                                                         *)
(***************************************************************************)
Different(S) == {p \in S \X S : p[1] # p[2]}
ByPriority(S) == {p \in S \X S : inst[p[1]].priority <= inst[p[2]].priority}

\* Nobody is in the list twice, and it is in the order of the priorities.
Arranged(list, S) == Pairwise(list, Different(S)) /\ Pairwise(list, ByPriority(S))

NotAfter(list, i) == SelectLastInSeq(list, LAMBDA j : inst[j].priority <= inst[i].priority)

LEMMA OrderedAt ==
  ASSUME NEW S, NEW list \in Seq(S), NEW i \in S, NEW p, p = NotAfter(list, i)
  PROVE  /\ p \in 0 .. Len(list) /\ p + 1 \in 1 .. Len(list) + 1 /\ (p + 1) - 1 = p
         /\ Ordered(list, i) = InsertAt(list, p + 1, i)
         /\ p # 0 => inst[list[p]].priority <= inst[i].priority
         /\ \A k \in p + 1 .. Len(list) : ~ (inst[list[k]].priority <= inst[i].priority)
<1> DEFINE n == Len(list)
           I == {k \in 1 .. n : inst[list[k]].priority <= inst[i].priority}
<1>1. n \in Nat
  BY LenProperties
<1>2. p = IF I # {} THEN Max(I) ELSE 0
  BY DEF NotAfter, SelectLastInSeq
<1>3. p \in 0 .. n /\ (p # 0 => p \in I) /\ \A k \in I : k <= p
  <2>1. CASE I = {}
    BY <1>1, <1>2, <2>1
  <2>2. CASE I # {}
    <3>1. I \subseteq 1 .. n
      OBVIOUS
    <3>2. Max(I) \in I /\ \A k \in I : k <= Max(I)
      <4> HIDE DEF I
      <4> QED
        BY <1>1, <2>2, <3>1, MaxExists
    <3>3. p = Max(I)
      BY <1>2, <2>2
    <3> HIDE DEF I
    <3>4. p \in I /\ \A k \in I : k <= p
      BY <3>2, <3>3
    <3>5. p \in 1 .. n
      BY <3>1, <3>4
    <3> HIDE DEF n
    <3>6. p \in 0 .. n
      BY <1>1, <3>5
    <3> QED
      BY <3>4, <3>6
  <2> QED
    BY <2>1, <2>2
<1>4. ASSUME NEW k \in p + 1 .. n PROVE ~ (inst[list[k]].priority <= inst[i].priority)
  <2>1. k \in 1 .. n /\ k \notin I
    BY <1>1, <1>3
  <2> QED
    BY <2>1
<1>5. Ordered(list, i) = InsertAt(list, p + 1, i)
  BY DEF Ordered, NotAfter
<1>6. p \in 0 .. n /\ p + 1 \in 1 .. n + 1 /\ (p + 1) - 1 = p
  BY <1>1, <1>3
<1> QED
  BY <1>3, <1>4, <1>5, <1>6

LEMMA OrderedType ==
  ASSUME NEW S, NEW list \in Seq(S), NEW i \in S
  PROVE  Ordered(list, i) \in Seq(S)
<1>1. PICK p : p = NotAfter(list, i)
  OBVIOUS
<1>2. PICK q : q = p + 1
  OBVIOUS
<1>3. q \in 1 .. Len(list) + 1 /\ Ordered(list, i) = InsertAt(list, q, i)
  BY <1>1, <1>2, OrderedAt
<1>4. With(S, list, q, i, Ordered(list, i))
  BY <1>3, Inserted
<1> QED
  BY <1>4 DEF With

LEMMA OrderedKeeps ==
  ASSUME NEW S, \A j \in S : inst[j].priority \in Nat,
         NEW list \in Seq(S), Arranged(list, S), NEW i \in S, i \notin ToSet(list),
         NEW u, u = Ordered(list, i)
  PROVE  u \in Seq(S) /\ ToSet(u) = ToSet(list) \cup {i} /\ Arranged(u, S)
<1> DEFINE n == Len(list)
<1>1. n \in Nat /\ DOMAIN list = 1 .. n /\ \A k \in 1 .. n : list[k] \in S
  BY LenProperties, ElementOfSeq
<1>2. PICK p : p = NotAfter(list, i)
  OBVIOUS
<1>4. /\ p \in 0 .. n /\ p + 1 \in 1 .. n + 1 /\ (p + 1) - 1 = p
      /\ u = InsertAt(list, p + 1, i)
      /\ p # 0 => inst[list[p]].priority <= inst[i].priority
      /\ \A k \in p + 1 .. n : ~ (inst[list[k]].priority <= inst[i].priority)
  BY <1>2, OrderedAt
<1>6. ASSUME NEW k \in 1 .. p PROVE inst[list[k]].priority <= inst[i].priority
  <2>1. p \in 1 .. n /\ k \in 1 .. n /\ inst[list[p]].priority <= inst[i].priority
    BY <1>1, <1>4
  <2>2. inst[list[k]].priority <= inst[list[p]].priority
    <3>1. CASE k = p
      BY <1>1, <2>1, <3>1
    <3>2. CASE k < p
      <4>1. <<list[k], list[p]>> \in ByPriority(S)
        BY <1>1, <2>1, <3>2 DEF Arranged, Pairwise
      <4> QED
        BY <4>1 DEF ByPriority
    <3> QED
      BY <1>1, <2>1, <3>1, <3>2
  <2>3. inst[list[k]].priority \in Nat /\ inst[list[p]].priority \in Nat /\ inst[i].priority \in Nat
    BY <1>1, <2>1
  <2> QED
    BY <2>1, <2>2, <2>3
<1>7. ASSUME NEW k \in p + 1 .. n PROVE inst[i].priority <= inst[list[k]].priority
  <2>1. k \in 1 .. n
    BY <1>1, <1>4
  <2>2. inst[list[k]].priority \in Nat /\ inst[i].priority \in Nat
    BY <1>1, <2>1
  <2>3. ~ (inst[list[k]].priority <= inst[i].priority)
    BY <1>4
  <2> QED
    BY <2>2, <2>3
<1>8. \A k \in 1 .. n : list[k] # i
  BY <1>1 DEF ToSet
<1>9. /\ \A k \in 1 .. p : <<list[k], i>> \in ByPriority(S) /\ <<list[k], i>> \in Different(S)
      /\ \A k \in p + 1 .. n : <<i, list[k]>> \in ByPriority(S) /\ <<i, list[k]>> \in Different(S)
  <2>1. (\A k \in 1 .. p : list[k] \in S) /\ (\A k \in p + 1 .. n : list[k] \in S)
    BY <1>1, <1>4
  <2>2. (\A k \in 1 .. p : list[k] # i) /\ (\A k \in p + 1 .. n : list[k] # i)
    BY <1>1, <1>4, <1>8
  <2> QED
    BY <1>6, <1>7, <2>1, <2>2 DEF ByPriority, Different
<1>11. PICK q : q = p + 1
  OBVIOUS
<1>12. q \in 1 .. Len(list) + 1 /\ u = InsertAt(list, q, i) /\ q - 1 = p
  BY <1>4, <1>11
<1>13. With(S, list, q, i, u)
  BY <1>12, Inserted
<1>14. Pairwise(u, ByPriority(S)) /\ Pairwise(u, Different(S))
  BY <1>9, <1>11, <1>12, <1>13 DEF Arranged, With
<1> QED
  BY <1>13, <1>14 DEF Arranged, With

\* schedule of some instructions, none of them in the list.
LEMMA ScheduledKeeps ==
  ASSUME NEW S, \A j \in S : inst[j].priority \in Nat,
         NEW list \in Seq(S), Arranged(list, S),
         NEW some \in Seq(S), Pairwise(some, Different(S)), ToSet(some) \cap ToSet(list) = {},
         NEW u, u = Scheduled(list, some)
  PROVE  u \in Seq(S) /\ ToSet(u) = ToSet(list) \cup ToSet(some) /\ Arranged(u, S)
<1> DEFINE n == Len(some)
           Made(f) == f = [m \in 0 .. n |-> IF m = 0 THEN list ELSE Ordered(f[m - 1], some[m])]
           step == [m \in 1 .. n |-> [x \in Seq(S) |-> Ordered(x, some[m])]]
<1>1. n \in Nat /\ DOMAIN some = 1 .. n /\ \A m \in 1 .. n : some[m] \in S
  BY LenProperties, ElementOfSeq
<1>2. \E f : Made(f)
  <2>1. ASSUME NEW m \in 1 .. n, NEW x \in Seq(S) PROVE Ordered(x, some[m]) \in Seq(S)
    BY <1>1, OrderedType
  <2>2. step \in [1 .. n -> [Seq(S) -> Seq(S)]]
    BY <2>1
  <2>4. PICK f \in [0 .. n -> Seq(S)] : Follows(f, n, list, step)
    <3> HIDE DEF step
    <3> QED BY <1>1, <2>2, Recursion
  <2>5. ASSUME NEW m \in 1 .. n PROVE step[m][f[m - 1]] = Ordered(f[m - 1], some[m])
    <3>1. m - 1 \in 0 .. n
      BY <1>1
    <3>2. PICK x : x = f[m - 1]
      OBVIOUS
    <3>3. x \in Seq(S)
      BY <3>1, <3>2
    <3>4. step[m][x] = Ordered(x, some[m])
      BY <3>3
    <3> HIDE DEF step
    <3> QED BY <3>2, <3>4
  <2> HIDE DEF step
  <2>6. ASSUME NEW m \in 0 .. n
        PROVE  (IF m = 0 THEN list ELSE step[m][f[m - 1]]) = (IF m = 0 THEN list ELSE Ordered(f[m - 1], some[m]))
    <3>1. m # 0 => m \in 1 .. n
      BY <1>1
    <3> QED BY <2>5, <3>1
  <2>7. Made(f)
    BY <2>4, <2>6 DEF Follows
  <2> QED BY <2>7
<1>3. PICK k : k = CHOOSE f : Made(f)
  OBVIOUS
<1>4. Made(k)
  <2> HIDE DEF Made
  <2> QED BY <1>2, <1>3
<1>5. u = k[n]
  BY <1>3 DEF Scheduled
<1>6. k[0] = list /\ \A m \in 1 .. n : k[m] = Ordered(k[m - 1], some[m])
  <2>1. 0 \in 0 .. n /\ \A m \in 1 .. n : m \in 0 .. n /\ m # 0
    BY <1>1
  <2>2. \A m \in 0 .. n : k[m] = IF m = 0 THEN list ELSE Ordered(k[m - 1], some[m])
    BY <1>4
  <2> HIDE DEF Made
  <2> QED BY <2>1, <2>2
<1> DEFINE Upto(m) == {some[j] : j \in 1 .. m}
           Right(m) == k[m] \in Seq(S) /\ ToSet(k[m]) = ToSet(list) \cup Upto(m) /\ Arranged(k[m], S)
           P == {m \in 0 .. n : Right(m)}
<1> HIDE DEF Made
<1>7. 0 \in P
  <2>1. Upto(0) = {}
    OBVIOUS
  <2>2. Right(0)
    <3> HIDE DEF Upto
    <3> QED BY <1>6, <2>1
  <2> HIDE DEF Right
  <2> QED BY <1>1, <2>2
<1>8. ASSUME NEW m \in 0 .. n - 1, m \in P PROVE m + 1 \in P
  <2>1. m + 1 \in 1 .. n /\ (m + 1) - 1 = m /\ some[m + 1] \in S
    BY <1>1
  <2>2. Right(m)
    BY <1>8
  <2>3. PICK x, i, y : x = k[m] /\ i = some[m + 1] /\ y = k[m + 1]
    OBVIOUS
  <2>4. y = Ordered(x, i) /\ i \in S
    BY <1>6, <2>1, <2>3
  <2>5. x \in Seq(S) /\ ToSet(x) = ToSet(list) \cup Upto(m) /\ Arranged(x, S)
    BY <2>2, <2>3
  <2>6. i \notin Upto(m)
    <3> SUFFICES ASSUME NEW j \in 1 .. m PROVE some[j] # i
      OBVIOUS
    <3>1. j \in DOMAIN some /\ m + 1 \in DOMAIN some /\ j < m + 1
      BY <1>1, <2>1
    <3>2. <<some[j], some[m + 1]>> \in Different(S)
      BY <3>1 DEF Pairwise
    <3> QED BY <2>3, <3>2 DEF Different
  <2>7. i \notin ToSet(list)
    BY <1>1, <2>1, <2>3 DEF ToSet
  <2>8. Upto(m + 1) = Upto(m) \cup {i}
    BY <2>1, <2>3
  <2> HIDE DEF Upto
  <2>9. y \in Seq(S) /\ ToSet(y) = ToSet(x) \cup {i} /\ Arranged(y, S)
    BY <2>4, <2>5, <2>6, <2>7, OrderedKeeps
  <2>10. Right(m + 1)
    BY <2>3, <2>5, <2>8, <2>9
  <2> HIDE DEF Right
  <2> QED BY <1>1, <2>1, <2>10
<1>9. Inductive(P, n)
  BY <1>7, <1>8 DEF Inductive
<1>10. Right(n)
  <2>1. n \in P
    <3> HIDE DEF P
    <3> QED BY <1>1, <1>9, UpTo
  <2> QED BY <2>1
<1>11. Upto(n) = ToSet(some)
  BY <1>1 DEF ToSet
<1> HIDE DEF Upto
<1> QED
  BY <1>5, <1>10, <1>11

-----------------------------------------------------------------------------
(***************************************************************************)
(* The events behind the ring.                                             *)
(***************************************************************************)
Event == [cycle : Nat, list : Seq(Nat)]
Earlier == {p \in Event \X Event : p[1].cycle < p[2].cycle}
Apart(list) == Pairwise(list, Different(Nat))

LEMMA MinExists ==
  ASSUME NEW S, S \subseteq Nat, S # {}
  PROVE  Min(S) \in S /\ \A y \in S : Min(S) <= y
BY LeastExists DEF Min

LEMMA HeadAdded ==
  ASSUME NEW S, NEW s \in Seq(S), NEW e \in S
  PROVE  With(S, s, 1, e, <<e>> \o s)
<1>1. Len(s) \in Nat
  BY LenProperties
<1>2. SubSeq(s, 1, 0) = <<>> /\ SubSeq(s, 1, Len(s)) = s
  BY <1>1
<1>3. InsertAt(s, 1, e) = <<>> \o <<e>> \o s
  BY <1>2 DEF InsertAt
<1>4. <<>> \o <<e>> = <<e>>
  OBVIOUS
<1>5. InsertAt(s, 1, e) = <<e>> \o s
  BY <1>3, <1>4
<1>6. 1 \in 1 .. Len(s) + 1
  BY <1>1
<1>7. PICK u : u = InsertAt(s, 1, e)
  OBVIOUS
<1> QED
  BY <1>5, <1>6, <1>7, Inserted

SameCycle(queue, cycle) == SelectInSeq(queue, LAMBDA e : e.cycle = cycle)
LastBefore(queue, cycle) == SelectLastInSeq(queue, LAMBDA e : e.cycle < cycle)

LEMMA SameCycleIs ==
  ASSUME NEW S, NEW queue \in Seq(S), NEW cycle, NEW p, p = SameCycle(queue, cycle)
  PROVE  /\ p \in 0 .. Len(queue)
         /\ p # 0 => queue[p].cycle = cycle
         /\ p = 0 => \A k \in 1 .. Len(queue) : queue[k].cycle # cycle
<1> DEFINE n == Len(queue)
           I == {k \in 1 .. n : queue[k].cycle = cycle}
<1>1. n \in Nat
  BY LenProperties
<1>2. p = IF I # {} THEN Min(I) ELSE 0
  BY DEF SameCycle, SelectInSeq
<1>3. CASE I = {}
  BY <1>1, <1>2, <1>3
<1>4. CASE I # {}
  <2>1. I \subseteq Nat
    BY <1>1
  <2>2. Min(I) \in I
    <3> HIDE DEF I
    <3> QED BY <1>4, <2>1, MinExists
  <2>3. p \in I
    <3> HIDE DEF I
    <3> QED BY <1>2, <1>4, <2>2
  <2>4. p \in 1 .. n /\ queue[p].cycle = cycle
    BY <2>3
  <2>5. p # 0 /\ p \in 0 .. n
    BY <1>1, <2>4
  <2> QED BY <2>4, <2>5
<1> QED
  BY <1>3, <1>4

LEMMA LastBeforeIs ==
  ASSUME NEW S, NEW queue \in Seq(S), NEW cycle, NEW p, p = LastBefore(queue, cycle)
  PROVE  /\ p \in 0 .. Len(queue) /\ p + 1 \in 1 .. Len(queue) + 1 /\ (p + 1) - 1 = p
         /\ p # 0 => queue[p].cycle < cycle
         /\ \A k \in p + 1 .. Len(queue) : ~ (queue[k].cycle < cycle)
<1> DEFINE n == Len(queue)
           I == {k \in 1 .. n : queue[k].cycle < cycle}
<1>1. n \in Nat
  BY LenProperties
<1>2. p = IF I # {} THEN Max(I) ELSE 0
  BY DEF LastBefore, SelectLastInSeq
<1>3. p \in 0 .. n /\ (p # 0 => p \in I) /\ \A k \in I : k <= p
  <2>1. CASE I = {}
    BY <1>1, <1>2, <2>1
  <2>2. CASE I # {}
    <3>1. I \subseteq 1 .. n
      OBVIOUS
    <3>2. Max(I) \in I /\ \A k \in I : k <= Max(I)
      <4> HIDE DEF I
      <4> QED
        BY <1>1, <2>2, <3>1, MaxExists
    <3>3. p = Max(I)
      BY <1>2, <2>2
    <3> HIDE DEF I
    <3>4. p \in I /\ \A k \in I : k <= p
      BY <3>2, <3>3
    <3>5. p \in 1 .. n
      BY <3>1, <3>4
    <3> HIDE DEF n
    <3>6. p \in 0 .. n
      BY <1>1, <3>5
    <3> QED
      BY <3>4, <3>6
  <2> QED
    BY <2>1, <2>2
<1>4. ASSUME NEW k \in p + 1 .. n PROVE ~ (queue[k].cycle < cycle)
  <2>1. k \in 1 .. n /\ k \notin I
    BY <1>1, <1>3
  <2> QED
    BY <2>1
<1>5. p \in 0 .. n /\ p + 1 \in 1 .. n + 1 /\ (p + 1) - 1 = p
  BY <1>1, <1>3
<1> QED
  BY <1>3, <1>4, <1>5

\* Those queued for a cycle.
AtCycle(queue, cycle) == UNION {ToSet(e.list) : e \in {f \in ToSet(queue) : f.cycle = cycle}}

\* u is queue with the event x in the place of those of its cycle, and i in it.
Joined(queue, u, x, i) ==
    /\ x \in Event
    /\ ToSet(u) = {e \in ToSet(queue) : e.cycle # x.cycle} \cup {x}
    /\ ToSet(x.list) = {i} \cup AtCycle(queue, x.cycle)
    /\ (\A e \in ToSet(queue) : Apart(e.list) /\ i \notin ToSet(e.list)) => Apart(x.list)

LEMMA OneApart ==
  ASSUME NEW i \in Nat
  PROVE  <<i>> \in Seq(Nat) /\ Apart(<<i>>) /\ ToSet(<<i>>) = {i}
<1>1. <<i>> \in Seq(Nat) /\ DOMAIN <<i>> = {1} /\ <<i>>[1] = i
  OBVIOUS
<1>2. Apart(<<i>>)
  BY <1>1 DEF Apart, Pairwise
<1>3. ToSet(<<i>>) = {i}
  BY <1>1 DEF ToSet
<1> QED
  BY <1>1, <1>2, <1>3

LEMMA JoinApart ==
  ASSUME NEW list \in Seq(Nat), NEW i \in Nat
  PROVE  /\ <<i>> \o list \in Seq(Nat)
         /\ ToSet(<<i>> \o list) = {i} \cup ToSet(list)
         /\ Apart(list) /\ i \notin ToSet(list) => Apart(<<i>> \o list)
<1>1. PICK u : u = <<i>> \o list
  OBVIOUS
<1>2. With(Nat, list, 1, i, u)
  BY <1>1, HeadAdded
<1>3. Len(list) \in Nat /\ DOMAIN list = 1 .. Len(list) /\ \A k \in 1 .. Len(list) : list[k] \in Nat
  BY LenProperties, ElementOfSeq
<1>4. ASSUME Apart(list), i \notin ToSet(list) PROVE Apart(u)
  <2>1. \A k \in 1 .. Len(list) : list[k] # i
    BY <1>3, <1>4 DEF ToSet
  <2>2. \A k \in 1 .. Len(list) : <<i, list[k]>> \in Different(Nat)
    BY <1>3, <2>1 DEF Different
  <2>3. \A k \in 1 .. 1 - 1 : <<list[k], i>> \in Different(Nat)
    OBVIOUS
  <2> QED
    BY <1>2, <1>4, <2>2, <2>3 DEF With, Apart
<1> QED
  BY <1>1, <1>2, <1>4 DEF With

\* queueInsert makes an event ...
LEMMA EventAddedNew ==
  ASSUME NEW queue \in Seq(Event), NEW i \in Nat, NEW cycle \in Nat, SameCycle(queue, cycle) = 0,
         NEW x, x = [cycle |-> cycle, list |-> <<i>>],
         NEW u, u = EventAdded(queue, i, cycle)
  PROVE  /\ u \in Seq(Event)
         /\ x.cycle = cycle /\ Joined(queue, u, x, i)
         /\ Pairwise(queue, Earlier) => Pairwise(u, Earlier)
<1> DEFINE n == Len(queue)
<1>1. n \in Nat /\ DOMAIN queue = 1 .. n /\ \A k \in 1 .. n : queue[k] \in Event
  BY LenProperties, ElementOfSeq
<1>2. PICK p, q : p = LastBefore(queue, cycle) /\ q = p + 1
  OBVIOUS
<1>3. /\ p \in 0 .. n /\ q \in 1 .. n + 1 /\ q - 1 = p
      /\ p # 0 => queue[p].cycle < cycle
      /\ \A k \in p + 1 .. n : ~ (queue[k].cycle < cycle)
  BY <1>2, LastBeforeIs
<1>4. u = InsertAt(queue, q, x)
  BY <1>2 DEF EventAdded, SameCycle, LastBefore
<1>5. x \in Event /\ x.cycle = cycle /\ x.list = <<i>>
  BY OneApart DEF Event
<1>6. With(Event, queue, q, x, u)
  BY <1>3, <1>4, <1>5, Inserted
<1>7. \A k \in 1 .. n : queue[k].cycle # cycle
  <2>1. PICK s : s = SameCycle(queue, cycle)
    OBVIOUS
  <2> QED BY <2>1, SameCycleIs
<1>8. \A e \in ToSet(queue) : e.cycle # cycle
  BY <1>1, <1>7 DEF ToSet
<1>9. AtCycle(queue, cycle) = {}
  BY <1>8 DEF AtCycle
<1>10. Joined(queue, u, x, i)
  <2>1. ToSet(u) = {e \in ToSet(queue) : e.cycle # x.cycle} \cup {x}
    BY <1>5, <1>6, <1>8 DEF With
  <2>2. ToSet(x.list) = {i} \cup AtCycle(queue, x.cycle) /\ Apart(x.list)
    BY <1>5, <1>9, OneApart
  <2> QED BY <1>5, <2>1, <2>2 DEF Joined
<1>11. ASSUME Pairwise(queue, Earlier) PROVE Pairwise(u, Earlier)
  <2>1. ASSUME NEW k \in 1 .. q - 1 PROVE <<queue[k], x>> \in Earlier
    <3>1. k \in 1 .. n /\ p \in 1 .. n /\ k <= p /\ queue[p].cycle < cycle
      BY <1>1, <1>3
    <3>2. queue[k].cycle \in Nat /\ queue[p].cycle \in Nat
      BY <1>1, <3>1 DEF Event
    <3>3. queue[k].cycle < cycle
      <4>1. CASE k = p
        BY <3>1, <4>1
      <4>2. CASE k < p
        <5>1. <<queue[k], queue[p]>> \in Earlier
          BY <1>1, <1>11, <3>1, <4>2 DEF Pairwise
        <5>2. queue[k].cycle < queue[p].cycle
          BY <5>1 DEF Earlier
        <5> QED BY <3>1, <3>2, <5>2
      <4> QED BY <1>3, <3>1, <4>1, <4>2
    <3> QED BY <1>1, <1>5, <3>1, <3>3 DEF Earlier
  <2>2. ASSUME NEW k \in q .. n PROVE <<x, queue[k]>> \in Earlier
    <3>1. k \in 1 .. n /\ ~ (queue[k].cycle < cycle) /\ queue[k].cycle # cycle
      BY <1>1, <1>2, <1>3, <1>7
    <3>2. queue[k].cycle \in Nat /\ queue[k] \in Event
      BY <1>1, <3>1 DEF Event
    <3> QED BY <1>5, <3>1, <3>2 DEF Earlier
  <2> QED BY <1>6, <1>11, <2>1, <2>2 DEF With
<1> QED
  BY <1>5, <1>6, <1>10, <1>11 DEF With

\* ... or puts the instruction into the one there is.
WithHead(e, i) == [e EXCEPT !.list = <<i>> \o e.list]

LEMMA EventAddedSame ==
  ASSUME NEW queue \in Seq(Event), NEW i \in Nat, NEW cycle \in Nat,
         NEW p, p = SameCycle(queue, cycle), p # 0,
         NEW x, x = WithHead(queue[p], i),
         NEW u, u = EventAdded(queue, i, cycle)
  PROVE  /\ u \in Seq(Event)
         /\ x.cycle = cycle
         /\ Pairwise(queue, Earlier) => Joined(queue, u, x, i) /\ Pairwise(u, Earlier)
<1> DEFINE n == Len(queue)
<1>1. n \in Nat /\ DOMAIN queue = 1 .. n /\ \A k \in 1 .. n : queue[k] \in Event
  BY LenProperties, ElementOfSeq
<1>2. p \in 1 .. n /\ queue[p].cycle = cycle /\ queue[p] \in Event
  <2>1. p \in 0 .. n /\ queue[p].cycle = cycle
    BY SameCycleIs
  <2>2. p \in 1 .. n
    BY <1>1, <2>1
  <2> QED BY <1>1, <2>1, <2>2
<1>3. PICK f, l : f = queue[p].list /\ l = <<i>> \o f
  OBVIOUS
<1>4. /\ f \in Seq(Nat) /\ l \in Seq(Nat) /\ ToSet(l) = {i} \cup ToSet(f)
      /\ Apart(f) /\ i \notin ToSet(f) => Apart(l)
  <2>1. f \in Seq(Nat)
    BY <1>2, <1>3 DEF Event
  <2> QED BY <1>3, <2>1, JoinApart
<1>5. x \in Event /\ x.cycle = cycle /\ x.list = l
  BY <1>2, <1>3, <1>4 DEF Event, WithHead
<1>6. u = [queue EXCEPT ![p] = x]
  BY <1>1, <1>2 DEF EventAdded, SameCycle, WithHead
<1>7. u \in Seq(Event) /\ DOMAIN u = 1 .. n /\ u[p] = x /\ \A k \in 1 .. n : k # p => u[k] = queue[k]
  <2>1. DOMAIN u = 1 .. n /\ u[p] = x /\ \A k \in 1 .. n : k # p => u[k] = queue[k]
    BY <1>1, <1>2, <1>6
  <2>2. u \in [1 .. n -> Event]
    BY <1>1, <1>2, <1>5, <1>6
  <2>3. u \in Seq(Event)
    BY <1>1, <2>2, SeqDef
  <2> QED BY <2>1, <2>3
<1>8. ASSUME Pairwise(queue, Earlier) PROVE Joined(queue, u, x, i) /\ Pairwise(u, Earlier)
  <2>1. ASSUME NEW k \in 1 .. n, k # p PROVE queue[k].cycle # cycle
    <3>1. <<queue[k], queue[p]>> \in Earlier \/ <<queue[p], queue[k]>> \in Earlier
      <4>1. k \in DOMAIN queue /\ p \in DOMAIN queue /\ (k < p \/ p < k)
        BY <1>1, <1>2, <2>1
      <4> QED BY <1>8, <4>1 DEF Pairwise
    <3>2. queue[k].cycle \in Nat
      BY <1>1 DEF Event
    <3> QED BY <1>2, <3>1, <3>2 DEF Earlier
  <2>2. ToSet(u) = {e \in ToSet(queue) : e.cycle # x.cycle} \cup {x}
    <3>1. ToSet(u) = {u[k] : k \in 1 .. n} /\ ToSet(queue) = {queue[k] : k \in 1 .. n}
      BY <1>1, <1>7 DEF ToSet
    <3>2. \A k \in 1 .. n : k # p => u[k] \in {e \in ToSet(queue) : e.cycle # x.cycle}
      BY <1>5, <1>7, <2>1, <3>1
    <3>3. \A e \in ToSet(queue) : e.cycle # x.cycle => e \in ToSet(u)
      <4> SUFFICES ASSUME NEW k \in 1 .. n, queue[k].cycle # x.cycle PROVE queue[k] \in ToSet(u)
        BY <3>1
      <4>1. k # p
        BY <1>2, <1>5
      <4> QED BY <1>7, <3>1, <4>1
    <3>4. x \in ToSet(u)
      BY <1>2, <1>7, <3>1
    <3>5. \A y \in ToSet(u) : y = x \/ y \in {e \in ToSet(queue) : e.cycle # x.cycle}
      <4> SUFFICES ASSUME NEW k \in 1 .. n PROVE u[k] = x \/ u[k] \in {e \in ToSet(queue) : e.cycle # x.cycle}
        BY <3>1
      <4> QED BY <1>7, <3>2
    <3> QED BY <3>3, <3>4, <3>5
  <2>3. {e \in ToSet(queue) : e.cycle = cycle} = {queue[p]}
    BY <1>1, <1>2, <2>1 DEF ToSet
  <2>4. AtCycle(queue, x.cycle) = ToSet(f)
    BY <1>3, <1>5, <2>3 DEF AtCycle
  <2>5. queue[p] \in ToSet(queue)
    BY <1>1, <1>2 DEF ToSet
  <2>6. Joined(queue, u, x, i)
    BY <1>3, <1>4, <1>5, <2>2, <2>4, <2>5 DEF Joined
  <2>7. ASSUME NEW a \in 1 .. n, NEW b \in 1 .. n, a < b PROVE <<u[a], u[b]>> \in Earlier
    <3>1. \A k \in 1 .. n : u[k] \in Event /\ u[k].cycle = queue[k].cycle
      BY <1>1, <1>2, <1>5, <1>7
    <3>2. <<queue[a], queue[b]>> \in Earlier
      BY <1>1, <1>8, <2>7 DEF Pairwise
    <3> QED BY <3>1, <3>2 DEF Earlier
  <2>8. Pairwise(u, Earlier)
    BY <1>7, <2>7 DEF Pairwise
  <2> QED BY <2>6, <2>8
<1> QED
  BY <1>5, <1>7, <1>8

-----------------------------------------------------------------------------
(***************************************************************************)
(* The two queues.                                                         *)
(***************************************************************************)
RingSlots == 0 .. QueueSize - 1

LEMMA QueueFacts ==
  /\ QueueSize \in Nat /\ QueueSize >= 1
  /\ MaxExecute \in Nat /\ LastCycle \in Nat /\ LastSeq \in Nat
BY SchedulerAssumption

QueueTypes == [ring : [RingSlots -> Seq(Nat)], events : Seq(Event)]

RingHolds(q, i) == \E s \in RingSlots : i \in ToSet(q.ring[s])
EventHolds(q, i) == \E e \in ToSet(q.events) : i \in ToSet(e.list)

Shape(q, t) ==
    /\ q \in QueueTypes
    /\ \A s \in RingSlots : Apart(q.ring[s])
    /\ \A e \in ToSet(q.events) : Apart(e.list) /\ e.cycle >= t
    /\ Pairwise(q.events, Earlier)

InRing(q, X, at, t) ==
    \A s \in RingSlots : \A i \in ToSet(q.ring[s]) : i \in X /\ at[i] % QueueSize = s /\ t <= at[i] /\ at[i] < t + QueueSize

InEvents(q, X, at) ==
    \A e \in ToSet(q.events) : \A i \in ToSet(e.list) : i \in X /\ at[i] = e.cycle

Each(q, X) ==
    \A i \in X : (RingHolds(q, i) \/ EventHolds(q, i)) /\ ~ (RingHolds(q, i) /\ EventHolds(q, i))

\* From cycle t on, those of X are each in one queue, for the cycle at.
Located(q, X, at, t) ==
    /\ Shape(q, t) /\ InRing(q, X, at, t) /\ InEvents(q, X, at) /\ Each(q, X)
    /\ X \subseteq Nat /\ \A i \in X : at[i] \in Nat

LEMMA AppendKeeps ==
  ASSUME NEW list \in Seq(Nat), NEW i \in Nat
  PROVE  /\ Append(list, i) \in Seq(Nat)
         /\ ToSet(Append(list, i)) = ToSet(list) \cup {i}
         /\ Apart(list) /\ i \notin ToSet(list) => Apart(Append(list, i))
<1>1. Append(list, i) = list \o <<i>>
  BY AppendIsConcat
<1>2. PICK u : u = list \o <<i>>
  OBVIOUS
<1>3. /\ u \in Seq(Nat) /\ ToSet(u) = ToSet(list) \cup {i}
      /\ \A R : Pairwise(list, R) /\ (\A a \in ToSet(list) : <<a, i>> \in R) => Pairwise(u, R)
  BY <1>2, Longer
<1>4. ASSUME Apart(list), i \notin ToSet(list) PROVE Apart(u)
  <2>1. \A a \in ToSet(list) : a \in Nat
    BY ElementOfSeq DEF ToSet
  <2>2. \A a \in ToSet(list) : <<a, i>> \in Different(Nat)
    BY <1>4, <2>1 DEF Different
  <2> QED BY <1>3, <1>4, <2>2 DEF Apart
<1> QED
  BY <1>1, <1>2, <1>3, <1>4

\* The list of a slot becomes another.
SlotSet(q, u, s, l) ==
    /\ u \in QueueTypes /\ u.events = q.events
    /\ u.ring[s] = l /\ \A r \in RingSlots : r # s => u.ring[r] = q.ring[r]

LEMMA SlotChanges ==
  ASSUME NEW q \in QueueTypes, NEW s \in RingSlots, NEW l \in Seq(Nat), NEW u, u = [q EXCEPT !.ring[s] = l]
  PROVE  SlotSet(q, u, s, l)
<1>1. q.ring \in [RingSlots -> Seq(Nat)] /\ q.events \in Seq(Event)
  BY DEF QueueTypes
<1>2. u = [q EXCEPT !.ring = [q.ring EXCEPT ![s] = l]]
  OBVIOUS
<1>3. PICK r : r = [q.ring EXCEPT ![s] = l]
  OBVIOUS
<1>4. r \in [RingSlots -> Seq(Nat)] /\ r[s] = l /\ \A k \in RingSlots : k # s => r[k] = q.ring[k]
  BY <1>1, <1>3
<1>5. u = [q EXCEPT !.ring = r]
  BY <1>2, <1>3
<1>6. u \in QueueTypes /\ u.ring = r /\ u.events = q.events
  BY <1>4, <1>5 DEF QueueTypes
<1> QED
  BY <1>4, <1>6 DEF SlotSet

LEMMA SlotOf ==
  ASSUME NEW t \in Nat
  PROVE  t % QueueSize \in RingSlots
BY QueueFacts DEF RingSlots

\* A cycle ahead is known by its slot.
LEMMA SlotsDiffer ==
  ASSUME NEW t \in Nat, NEW a \in Nat, NEW b \in Nat, a % QueueSize = b % QueueSize,
         t <= a, a < t + QueueSize, t <= b, b < t + QueueSize
  PROVE  a = b
<1>1. PICK n : n = QueueSize
  OBVIOUS
<1>2. n \in Nat /\ n >= 1
  BY <1>1, QueueFacts
<1>3. /\ a = n * (a \div n) + (a % n) /\ b = n * (b \div n) + (b % n)
      /\ a \div n \in Int /\ b \div n \in Int
  BY <1>2
<1>4. PICK x, y : x = a \div n /\ y = b \div n
  OBVIOUS
<1>5. x \in Int /\ y \in Int /\ a - b = n * x - n * y /\ n * x \in Int /\ n * y \in Int
  BY <1>1, <1>2, <1>3, <1>4
<1>6. a - b = n * (x - y)
  BY <1>2, <1>5
<1>7. a - b < n /\ b - a < n
  BY <1>1, <1>2
<1>8. x - y < 1 /\ y - x < 1
  BY <1>2, <1>5, <1>6, <1>7
<1>9. x = y
  BY <1>5, <1>8
<1> QED
  BY <1>2, <1>5, <1>9

\* u is q with i in the slot s, or in the event of a cycle.
SlotGrows(q, u, s, i) ==
    /\ s \in RingSlots /\ q.ring[s] \in Seq(Nat)
    /\ u \in QueueTypes /\ u.events = q.events
    /\ u.ring[s] = Append(q.ring[s], i) /\ \A r \in RingSlots : r # s => u.ring[r] = q.ring[r]

EventGrows(q, u, cycle, i) ==
    /\ u \in QueueTypes /\ u.ring = q.ring
    /\ \E x : /\ x.cycle = cycle
              /\ Pairwise(q.events, Earlier) => Joined(q.events, u.events, x, i) /\ Pairwise(u.events, Earlier)

\* queueInsert into the ring, or into the events.
LEMMA QueuedShort ==
  ASSUME now \in Nat, NEW q \in QueueTypes, NEW i \in Nat, NEW latency \in Nat, latency < QueueSize,
         NEW u, u = Queued(q, i, latency),
         NEW s, s = (now + latency) % QueueSize
  PROVE  SlotGrows(q, u, s, i)
<1>1. s \in RingSlots
  BY SlotOf
<1>2. q.ring[s] \in Seq(Nat)
  BY <1>1 DEF QueueTypes
<1>3. PICK l : l = Append(q.ring[s], i)
  OBVIOUS
<1>4. l \in Seq(Nat)
  BY <1>2, <1>3, AppendKeeps
<1>5. u = [q EXCEPT !.ring[s] = l]
  BY <1>3 DEF Queued
<1>6. SlotSet(q, u, s, l)
  BY <1>1, <1>4, <1>5, SlotChanges
<1> QED
  BY <1>1, <1>2, <1>3, <1>6 DEF SlotGrows, SlotSet

LEMMA QueuedLong ==
  ASSUME now \in Nat, NEW q \in QueueTypes, NEW i \in Nat, NEW latency \in Nat, ~ (latency < QueueSize),
         NEW u, u = Queued(q, i, latency)
  PROVE  EventGrows(q, u, now + latency, i)
<1>1. PICK c, old, new : c = now + latency /\ old = q.events /\ new = EventAdded(old, i, c)
  OBVIOUS
<1>2. c \in Nat /\ old \in Seq(Event)
  BY <1>1 DEF QueueTypes
<1>3. u = [q EXCEPT !.events = new]
  BY <1>1 DEF Queued
<1>4. \E x : /\ new \in Seq(Event) /\ x.cycle = c
             /\ Pairwise(old, Earlier) => Joined(old, new, x, i) /\ Pairwise(new, Earlier)
  <2>1. CASE SameCycle(old, c) = 0
    <3>1. PICK x : x = [cycle |-> c, list |-> <<i>>]
      OBVIOUS
    <3>2. /\ new \in Seq(Event) /\ x.cycle = c /\ Joined(old, new, x, i)
          /\ Pairwise(old, Earlier) => Pairwise(new, Earlier)
      BY <1>1, <1>2, <2>1, <3>1, EventAddedNew
    <3> QED BY <3>2
  <2>2. CASE SameCycle(old, c) # 0
    <3>1. PICK p, x : p = SameCycle(old, c) /\ x = WithHead(old[p], i)
      OBVIOUS
    <3>2. /\ new \in Seq(Event) /\ x.cycle = c
          /\ Pairwise(old, Earlier) => Joined(old, new, x, i) /\ Pairwise(new, Earlier)
      <4>1. p # 0
        BY <2>2, <3>1
      <4> QED BY <1>1, <1>2, <3>1, <4>1, EventAddedSame
    <3> QED BY <3>2
  <2> QED BY <2>1, <2>2
<1>5. u \in QueueTypes /\ u.ring = q.ring /\ u.events = new
  BY <1>3, <1>4 DEF QueueTypes
<1> QED
  BY <1>1, <1>4, <1>5 DEF EventGrows

LEMMA QueuedType ==
  ASSUME now \in Nat, NEW q \in QueueTypes, NEW i \in Nat, NEW latency \in Nat
  PROVE  Queued(q, i, latency) \in QueueTypes
<1>1. PICK u, s : u = Queued(q, i, latency) /\ s = (now + latency) % QueueSize
  OBVIOUS
<1>2. CASE latency < QueueSize
  <2>1. SlotGrows(q, u, s, i)
    BY <1>1, <1>2, QueuedShort
  <2> QED BY <1>1, <2>1 DEF SlotGrows
<1>3. CASE ~ (latency < QueueSize)
  <2>1. EventGrows(q, u, now + latency, i)
    BY <1>1, <1>3, QueuedLong
  <2> QED BY <1>1, <2>1 DEF EventGrows
<1> QED
  BY <1>2, <1>3

LEMMA QueuedKeeps ==
  ASSUME now \in Nat, NEW q, NEW X, NEW at, Located(q, X, at, now),
         NEW i \in Nat, i \notin X, NEW latency \in Nat, at[i] = now + latency,
         NEW u, u = Queued(q, i, latency)
  PROVE  Located(u, X \cup {i}, at, now)
<1>1. /\ Shape(q, now) /\ InRing(q, X, at, now) /\ InEvents(q, X, at) /\ Each(q, X)
      /\ X \subseteq Nat /\ \A j \in X : at[j] \in Nat
  BY DEF Located
<1>2. q \in QueueTypes
  BY <1>1 DEF Shape
<1>3. X \cup {i} \subseteq Nat /\ \A j \in X \cup {i} : at[j] \in Nat
  BY <1>1
<1>4. ~ RingHolds(q, i) /\ ~ EventHolds(q, i)
  BY <1>1 DEF RingHolds, EventHolds, InRing, InEvents
<1>5. CASE latency < QueueSize
  <2>1. PICK s : s = (now + latency) % QueueSize
    OBVIOUS
  <2>2. /\ s \in RingSlots /\ q.ring[s] \in Seq(Nat)
        /\ u \in QueueTypes /\ u.events = q.events
        /\ u.ring[s] = Append(q.ring[s], i) /\ \A r \in RingSlots : r # s => u.ring[r] = q.ring[r]
    <3>1. SlotGrows(q, u, s, i)
      BY <1>2, <1>5, <2>1, QueuedShort
    <3> QED BY <3>1 DEF SlotGrows
  <2>3. i \notin ToSet(q.ring[s])
    BY <1>4, <2>2 DEF RingHolds
  <2>4. ToSet(u.ring[s]) = ToSet(q.ring[s]) \cup {i} /\ (Apart(q.ring[s]) => Apart(u.ring[s]))
    BY <2>2, <2>3, AppendKeeps
  <2>5. Shape(u, now)
    <3>1. \A r \in RingSlots : Apart(u.ring[r])
      BY <1>1, <2>2, <2>4 DEF Shape
    <3> QED BY <1>1, <2>2, <3>1 DEF Shape
  <2>6. InRing(u, X \cup {i}, at, now)
    <3> SUFFICES ASSUME NEW r \in RingSlots, NEW j \in ToSet(u.ring[r])
                 PROVE  j \in X \cup {i} /\ at[j] % QueueSize = r /\ now <= at[j] /\ at[j] < now + QueueSize
      BY DEF InRing
    <3>1. CASE j \in ToSet(q.ring[r])
      BY <1>1, <3>1 DEF InRing
    <3>2. CASE j \notin ToSet(q.ring[r])
      <4>1. r = s /\ j = i
        BY <2>2, <2>4, <3>2
      <4>2. now <= now + latency /\ now + latency < now + QueueSize
        BY <1>5, QueueFacts
      <4> QED BY <2>1, <4>1, <4>2
    <3> QED BY <3>1, <3>2
  <2>7. InEvents(u, X \cup {i}, at)
    BY <1>1, <2>2 DEF InEvents
  <2>8. \A j \in X \cup {i} : (RingHolds(u, j) <=> RingHolds(q, j) \/ j = i) /\ (EventHolds(u, j) <=> EventHolds(q, j))
    <3>1. \A j \in X \cup {i} : EventHolds(u, j) <=> EventHolds(q, j)
      BY <2>2 DEF EventHolds
    <3>2. \A j, r : r \in RingSlots => (j \in ToSet(u.ring[r]) <=> j \in ToSet(q.ring[r]) \/ (r = s /\ j = i))
      BY <2>2, <2>4
    <3>3. \A j \in X \cup {i} : RingHolds(u, j) <=> RingHolds(q, j) \/ j = i
      BY <2>2, <3>2 DEF RingHolds
    <3> QED BY <3>1, <3>3
  <2>9. Each(u, X \cup {i})
    BY <1>1, <1>4, <2>8 DEF Each
  <2> QED BY <1>3, <2>5, <2>6, <2>7, <2>9 DEF Located
<1>6. CASE ~ (latency < QueueSize)
  <2>1. /\ u \in QueueTypes /\ u.ring = q.ring
        /\ \E x : /\ x.cycle = now + latency
                  /\ Pairwise(q.events, Earlier) => Joined(q.events, u.events, x, i) /\ Pairwise(u.events, Earlier)
    <3>1. EventGrows(q, u, now + latency, i)
      BY <1>2, <1>6, QueuedLong
    <3> QED BY <3>1 DEF EventGrows
  <2>2. PICK x : x.cycle = now + latency /\ Joined(q.events, u.events, x, i) /\ Pairwise(u.events, Earlier)
    BY <1>1, <2>1 DEF Shape
  <2>3. /\ x \in Event
        /\ ToSet(u.events) = {e \in ToSet(q.events) : e.cycle # x.cycle} \cup {x}
        /\ ToSet(x.list) = {i} \cup AtCycle(q.events, x.cycle)
    BY <2>2 DEF Joined
  <2>4. Apart(x.list)
    <3>1. \A e \in ToSet(q.events) : Apart(e.list) /\ i \notin ToSet(e.list)
      BY <1>1, <1>4 DEF Shape, EventHolds
    <3> QED BY <2>2, <3>1 DEF Joined
  <2>5. Shape(u, now)
    <3>1. x.cycle >= now
      BY <2>2
    <3>2. \A e \in ToSet(u.events) : Apart(e.list) /\ e.cycle >= now
      BY <1>1, <2>3, <2>4, <3>1 DEF Shape
    <3> QED BY <1>1, <2>1, <2>2, <3>2 DEF Shape
  <2>6. InRing(u, X \cup {i}, at, now)
    BY <1>1, <2>1 DEF InRing
  <2>7. \A j : j \in AtCycle(q.events, x.cycle) <=> \E e \in ToSet(q.events) : e.cycle = x.cycle /\ j \in ToSet(e.list)
    BY DEF AtCycle
  <2>8. InEvents(u, X \cup {i}, at)
    <3> SUFFICES ASSUME NEW e \in ToSet(u.events), NEW j \in ToSet(e.list)
                 PROVE  j \in X \cup {i} /\ at[j] = e.cycle
      BY DEF InEvents
    <3>1. CASE e = x
      <4>1. CASE j = i
        BY <2>2, <3>1, <4>1
      <4>2. CASE j # i
        <5>1. PICK f \in ToSet(q.events) : f.cycle = x.cycle /\ j \in ToSet(f.list)
          BY <2>3, <2>7, <3>1, <4>2
        <5> QED BY <1>1, <3>1, <5>1 DEF InEvents
      <4> QED BY <4>1, <4>2
    <3>2. CASE e \in ToSet(q.events)
      BY <1>1, <3>2 DEF InEvents
    <3> QED BY <2>3, <3>1, <3>2
  <2>9. \A j \in X \cup {i} : (RingHolds(u, j) <=> RingHolds(q, j)) /\ (EventHolds(u, j) <=> EventHolds(q, j) \/ j = i)
    <3>1. \A j \in X \cup {i} : RingHolds(u, j) <=> RingHolds(q, j)
      BY <2>1 DEF RingHolds
    <3>2. ASSUME NEW j, EventHolds(u, j) PROVE EventHolds(q, j) \/ j = i
      <4>1. PICK e \in ToSet(u.events) : j \in ToSet(e.list)
        BY <3>2 DEF EventHolds
      <4> QED BY <2>3, <2>7, <4>1 DEF EventHolds
    <3>3. ASSUME NEW j, EventHolds(q, j) PROVE EventHolds(u, j)
      <4>1. PICK e \in ToSet(q.events) : j \in ToSet(e.list)
        BY <3>3 DEF EventHolds
      <4> QED BY <2>3, <2>7, <4>1 DEF EventHolds
    <3>4. EventHolds(u, i)
      BY <2>3 DEF EventHolds
    <3> QED BY <3>1, <3>2, <3>3, <3>4
  <2>10. Each(u, X \cup {i})
    BY <1>1, <1>4, <2>9 DEF Each
  <2> QED BY <1>3, <2>5, <2>6, <2>8, <2>10 DEF Located
<1> QED
  BY <1>5, <1>6

Delay(i) == Latency[inst[i].type]

LEMMA QueuedAllKeeps ==
  ASSUME now \in Nat, NEW q, NEW X, NEW at, Located(q, X, at, now),
         NEW some \in Seq(Nat), Apart(some), ToSet(some) \cap X = {},
         \A i \in ToSet(some) : Delay(i) \in Nat /\ at[i] = now + Delay(i),
         NEW u, u = QueuedAll(q, some)
  PROVE  Located(u, X \cup ToSet(some), at, now)
<1> DEFINE n == Len(some)
           Made(f) == f = [m \in 0 .. n |-> IF m = 0 THEN q ELSE Queued(f[m - 1], some[m], Latency[inst[some[m]].type])]
           step == [m \in 1 .. n |-> [x \in QueueTypes |-> Queued(x, some[m], Delay(some[m]))]]
<1>1. n \in Nat /\ DOMAIN some = 1 .. n /\ \A m \in 1 .. n : some[m] \in Nat /\ some[m] \in ToSet(some)
  <2>1. n \in Nat /\ DOMAIN some = 1 .. n /\ \A m \in 1 .. n : some[m] \in Nat
    BY LenProperties, ElementOfSeq
  <2>2. \A m \in 1 .. n : some[m] \in ToSet(some)
    BY <2>1 DEF ToSet
  <2> QED BY <2>1, <2>2
<1>2. q \in QueueTypes
  BY DEF Located, Shape
<1>3. \E f : Made(f)
  <2>1. ASSUME NEW m \in 1 .. n, NEW x \in QueueTypes PROVE Queued(x, some[m], Delay(some[m])) \in QueueTypes
    <3>1. PICK i, d : i = some[m] /\ d = Delay(some[m])
      OBVIOUS
    <3>2. i \in Nat /\ d \in Nat
      BY <1>1, <3>1
    <3>3. Queued(x, i, d) \in QueueTypes
      BY <3>2, QueuedType
    <3> QED BY <3>1, <3>3
  <2>2. step \in [1 .. n -> [QueueTypes -> QueueTypes]]
    BY <2>1
  <2>4. PICK f \in [0 .. n -> QueueTypes] : Follows(f, n, q, step)
    <3> HIDE DEF step
    <3> QED BY <1>1, <1>2, <2>2, Recursion
  <2>5. ASSUME NEW m \in 1 .. n PROVE step[m][f[m - 1]] = Queued(f[m - 1], some[m], Delay(some[m]))
    <3>1. m - 1 \in 0 .. n
      BY <1>1
    <3>2. PICK x : x = f[m - 1]
      OBVIOUS
    <3>3. x \in QueueTypes
      BY <3>1, <3>2
    <3>4. step[m][x] = Queued(x, some[m], Delay(some[m]))
      BY <3>3
    <3> HIDE DEF step
    <3> QED BY <3>2, <3>4
  <2> HIDE DEF step
  <2>6. ASSUME NEW m \in 0 .. n
        PROVE  (IF m = 0 THEN q ELSE step[m][f[m - 1]])
               = (IF m = 0 THEN q ELSE Queued(f[m - 1], some[m], Latency[inst[some[m]].type]))
    <3>1. m # 0 => m \in 1 .. n
      BY <1>1
    <3> QED BY <2>5, <3>1 DEF Delay
  <2>7. Made(f)
    BY <2>4, <2>6 DEF Follows
  <2> QED BY <2>7
<1>4. PICK k : k = CHOOSE f : Made(f)
  OBVIOUS
<1>5. Made(k)
  <2> HIDE DEF Made
  <2> QED BY <1>3, <1>4
<1>6. u = k[n]
  BY <1>4 DEF QueuedAll
<1>7. k[0] = q /\ \A m \in 1 .. n : k[m] = Queued(k[m - 1], some[m], Delay(some[m]))
  <2>1. 0 \in 0 .. n /\ \A m \in 1 .. n : m \in 0 .. n /\ m # 0
    BY <1>1
  <2>2. \A m \in 0 .. n : k[m] = IF m = 0 THEN q ELSE Queued(k[m - 1], some[m], Latency[inst[some[m]].type])
    BY <1>5
  <2> HIDE DEF Made
  <2> QED BY <2>1, <2>2 DEF Delay
<1> DEFINE Upto(m) == {some[j] : j \in 1 .. m}
           Right(m) == Located(k[m], X \cup Upto(m), at, now)
           P == {m \in 0 .. n : Right(m)}
<1> HIDE DEF Made
<1>8. 0 \in P
  <2>1. X \cup Upto(0) = X
    OBVIOUS
  <2> HIDE DEF Upto
  <2>2. Right(0)
    BY <1>7, <2>1
  <2> HIDE DEF Right
  <2> QED BY <1>1, <2>2
<1>9. ASSUME NEW m \in 0 .. n - 1, m \in P PROVE m + 1 \in P
  <2>1. m + 1 \in 1 .. n /\ (m + 1) - 1 = m
    BY <1>1
  <2>2. PICK x, i, y, Y, d : x = k[m] /\ i = some[m + 1] /\ y = k[m + 1] /\ Y = X \cup Upto(m) /\ d = Delay(some[m + 1])
    OBVIOUS
  <2>3. y = Queued(x, i, d) /\ i \in Nat /\ i \in ToSet(some) /\ Located(x, Y, at, now)
    BY <1>1, <1>7, <1>9, <2>1, <2>2
  <2>4. d \in Nat /\ at[i] = now + d
    BY <2>2, <2>3
  <2>5. i \notin Upto(m)
    <3> SUFFICES ASSUME NEW j \in 1 .. m PROVE some[j] # i
      OBVIOUS
    <3>1. j \in DOMAIN some /\ m + 1 \in DOMAIN some /\ j < m + 1
      BY <1>1, <2>1
    <3>2. <<some[j], some[m + 1]>> \in Different(Nat)
      BY <3>1 DEF Apart, Pairwise
    <3> QED BY <2>2, <3>2 DEF Different
  <2>6. i \notin Y
    BY <2>2, <2>3, <2>5
  <2>7. Upto(m + 1) = Upto(m) \cup {i}
    BY <2>1, <2>2
  <2> HIDE DEF Upto
  <2>8. Located(y, Y \cup {i}, at, now)
    BY <2>3, <2>4, <2>6, QueuedKeeps
  <2>9. Y \cup {i} = X \cup Upto(m + 1)
    BY <2>2, <2>7
  <2>10. Right(m + 1)
    BY <2>2, <2>8, <2>9
  <2> HIDE DEF Right
  <2> QED BY <1>1, <2>1, <2>10
<1>10. Inductive(P, n)
  BY <1>8, <1>9 DEF Inductive
<1>11. Located(k[n], X \cup Upto(n), at, now)
  <2>1. n \in P
    <3> HIDE DEF P
    <3> QED BY <1>1, <1>10, UpTo
  <2> HIDE DEF Upto
  <2> QED BY <2>1
<1>12. Upto(n) = ToSet(some)
  BY <1>1 DEF ToSet
<1> HIDE DEF Upto
<1> QED
  BY <1>6, <1>11, <1>12

-----------------------------------------------------------------------------
(***************************************************************************)
(* What is woken, and what stays.                                          *)
(***************************************************************************)
\* h begins the events, and tail are the others.
Beginning(queue, h, tail) ==
    /\ h \in Event /\ h \in ToSet(queue)
    /\ \A e \in ToSet(queue) : e = h \/ h.cycle < e.cycle
    /\ tail \in Seq(Event) /\ ToSet(tail) = ToSet(queue) \ {h} /\ Pairwise(tail, Earlier)

LEMMA BeginningIs ==
  ASSUME NEW queue \in Seq(Event), queue # <<>>, Pairwise(queue, Earlier)
  PROVE  Beginning(queue, Head(queue), Tail(queue))
<1> DEFINE n == Len(queue)
<1>1. PICK h, tail : h = Head(queue) /\ tail = Tail(queue)
  OBVIOUS
<1>2. /\ n \in Nat /\ n >= 1 /\ DOMAIN queue = 1 .. n /\ (\A k \in 1 .. n : queue[k] \in Event)
      /\ h = queue[1]
  BY <1>1, LenProperties, ElementOfSeq, EmptySeq
<1>3. tail \in Seq(Event) /\ Len(tail) = n - 1 /\ \A k \in 1 .. n - 1 : tail[k] = queue[k + 1]
  <2>1. /\ Tail(queue) \in Seq(Event) /\ Len(Tail(queue)) = Len(queue) - 1
        /\ \A k \in 1 .. Len(Tail(queue)) : Tail(queue)[k] = queue[k + 1]
    BY HeadTailProperties
  <2> QED BY <1>1, <2>1
<1>4. DOMAIN tail = 1 .. n - 1
  BY <1>3, LenProperties
<1>5. ASSUME NEW k \in 2 .. n PROVE queue[k] # h /\ h.cycle < queue[k].cycle
  <2>1. 1 \in DOMAIN queue /\ k \in DOMAIN queue /\ 1 < k
    BY <1>2
  <2>2. <<queue[1], queue[k]>> \in Earlier
    BY <2>1 DEF Pairwise
  <2>3. h.cycle < queue[k].cycle /\ h.cycle \in Nat
    BY <1>2, <2>2 DEF Earlier, Event
  <2> QED BY <2>3
<1>6. h \in Event /\ h \in ToSet(queue)
  BY <1>2 DEF ToSet
<1>7. ASSUME NEW e \in ToSet(queue) PROVE e = h \/ h.cycle < e.cycle
  <2>1. PICK k \in 1 .. n : e = queue[k]
    BY <1>2 DEF ToSet
  <2>2. k = 1 \/ k \in 2 .. n
    BY <1>2
  <2> QED BY <1>2, <1>5, <2>1, <2>2
<1>8. ToSet(tail) = ToSet(queue) \ {h}
  <2>1. ASSUME NEW e \in ToSet(tail) PROVE e \in ToSet(queue) \ {h}
    <3>1. PICK k \in 1 .. n - 1 : e = tail[k]
      BY <1>4 DEF ToSet
    <3>2. k + 1 \in 2 .. n /\ k + 1 \in 1 .. n /\ e = queue[k + 1]
      BY <1>2, <1>3, <3>1
    <3> QED BY <1>2, <1>5, <3>2 DEF ToSet
  <2>2. ASSUME NEW e \in ToSet(queue), e # h PROVE e \in ToSet(tail)
    <3>1. PICK k \in 1 .. n : e = queue[k]
      BY <1>2 DEF ToSet
    <3>2. k - 1 \in 1 .. n - 1 /\ (k - 1) + 1 = k
      BY <1>2, <2>2, <3>1
    <3>3. tail[k - 1] = queue[(k - 1) + 1]
      BY <1>3, <3>2
    <3> QED BY <1>4, <3>1, <3>2, <3>3 DEF ToSet
  <2> QED BY <2>1, <2>2
<1>9. Pairwise(tail, Earlier)
  <2> SUFFICES ASSUME NEW a \in 1 .. n - 1, NEW b \in 1 .. n - 1, a < b PROVE <<tail[a], tail[b]>> \in Earlier
    BY <1>4 DEF Pairwise
  <2>1. a + 1 \in DOMAIN queue /\ b + 1 \in DOMAIN queue /\ a + 1 < b + 1
    BY <1>2
  <2>2. <<queue[a + 1], queue[b + 1]>> \in Earlier
    BY <2>1 DEF Pairwise
  <2> QED BY <1>3, <2>2
<1> QED
  BY <1>1, <1>3, <1>6, <1>7, <1>8, <1>9 DEF Beginning

LEMMA Joining ==
  ASSUME NEW a \in Seq(Nat), NEW b \in Seq(Nat)
  PROVE  /\ a \o b \in Seq(Nat)
         /\ ToSet(a \o b) = ToSet(a) \cup ToSet(b)
         /\ Apart(a) /\ Apart(b) /\ ToSet(a) \cap ToSet(b) = {} => Apart(a \o b)
<1>1. PICK u, m, n : u = a \o b /\ m = Len(a) /\ n = Len(b)
  OBVIOUS
<1>2. /\ m \in Nat /\ n \in Nat /\ DOMAIN a = 1 .. m /\ DOMAIN b = 1 .. n
      /\ (\A k \in 1 .. m : a[k] \in Nat /\ a[k] \in ToSet(a))
      /\ (\A k \in 1 .. n : b[k] \in Nat /\ b[k] \in ToSet(b))
  <2>1. m \in Nat /\ n \in Nat /\ DOMAIN a = 1 .. m /\ DOMAIN b = 1 .. n
    BY <1>1, LenProperties
  <2>2. (\A k \in 1 .. m : a[k] \in Nat) /\ (\A k \in 1 .. n : b[k] \in Nat)
    BY <1>1, ElementOfSeq
  <2>3. (\A k \in 1 .. m : a[k] \in ToSet(a)) /\ (\A k \in 1 .. n : b[k] \in ToSet(b))
    BY <2>1 DEF ToSet
  <2> QED BY <2>1, <2>2, <2>3
<1>3. u \in Seq(Nat) /\ Len(u) = m + n /\ \A k \in 1 .. m + n : u[k] = IF k <= m THEN a[k] ELSE b[k - m]
  BY <1>1, ConcatProperties
<1>4. DOMAIN u = 1 .. m + n
  BY <1>3, LenProperties
<1>5. ASSUME NEW k \in 1 .. m + n
      PROVE  (k \in 1 .. m /\ u[k] = a[k]) \/ (k - m \in 1 .. n /\ k > m /\ u[k] = b[k - m])
  <2>1. u[k] = IF k <= m THEN a[k] ELSE b[k - m]
    BY <1>3
  <2>2. CASE k <= m
    BY <1>2, <2>1, <2>2
  <2>3. CASE ~ (k <= m)
    BY <1>2, <2>1, <2>3
  <2> QED BY <2>2, <2>3
<1>6. ToSet(u) = ToSet(a) \cup ToSet(b)
  <2>1. ASSUME NEW x \in ToSet(u) PROVE x \in ToSet(a) \cup ToSet(b)
    <3>1. PICK k \in 1 .. m + n : x = u[k]
      BY <1>4 DEF ToSet
    <3> QED BY <1>2, <1>5, <3>1
  <2>2. ASSUME NEW x \in ToSet(a) PROVE x \in ToSet(u)
    <3>1. PICK k \in 1 .. m : x = a[k]
      BY <1>2 DEF ToSet
    <3>2. k \in 1 .. m + n /\ k <= m
      BY <1>2
    <3>3. u[k] = a[k]
      BY <1>3, <3>2
    <3> QED BY <1>4, <3>1, <3>2, <3>3 DEF ToSet
  <2>3. ASSUME NEW x \in ToSet(b) PROVE x \in ToSet(u)
    <3>1. PICK k \in 1 .. n : x = b[k]
      BY <1>2 DEF ToSet
    <3>2. k + m \in 1 .. m + n /\ ~ (k + m <= m) /\ (k + m) - m = k
      BY <1>2
    <3>3. u[k + m] = b[(k + m) - m]
      BY <1>3, <3>2
    <3> QED BY <1>4, <3>1, <3>2, <3>3 DEF ToSet
  <2> QED BY <2>1, <2>2, <2>3
<1>7. ASSUME Apart(a), Apart(b), ToSet(a) \cap ToSet(b) = {}, NEW x \in 1 .. m + n, NEW y \in 1 .. m + n, x < y
      PROVE  <<u[x], u[y]>> \in Different(Nat)
  <2>1. CASE x \in 1 .. m /\ u[x] = a[x] /\ y \in 1 .. m /\ u[y] = a[y]
    BY <1>2, <1>7, <2>1 DEF Apart, Pairwise
  <2>2. CASE x \in 1 .. m /\ u[x] = a[x] /\ y - m \in 1 .. n /\ u[y] = b[y - m]
    <3>1. u[x] \in ToSet(a) /\ u[x] \in Nat /\ u[y] \in ToSet(b) /\ u[y] \in Nat
      BY <1>2, <2>2
    <3> QED BY <1>7, <3>1 DEF Different
  <2>3. CASE x - m \in 1 .. n /\ x > m /\ u[x] = b[x - m] /\ y - m \in 1 .. n /\ u[y] = b[y - m]
    <3>1. PICK c, d : c = x - m /\ d = y - m
      OBVIOUS
    <3>2. c < d /\ c \in DOMAIN b /\ d \in DOMAIN b /\ u[x] = b[c] /\ u[y] = b[d]
      BY <1>2, <1>7, <2>3, <3>1
    <3> QED BY <1>7, <3>2 DEF Apart, Pairwise
  <2>4. CASE x - m \in 1 .. n /\ x > m /\ y \in 1 .. m
    BY <1>2, <1>7, <2>4
  <2> QED BY <1>5, <2>1, <2>2, <2>3, <2>4
<1>8. ASSUME Apart(a), Apart(b), ToSet(a) \cap ToSet(b) = {} PROVE Apart(u)
  BY <1>4, <1>7, <1>8 DEF Apart, Pairwise
<1> QED
  BY <1>1, <1>3, <1>6, <1>8

\* The event of this cycle is the first.
DueNow(q) == q.events # <<>> /\ Head(q.events).cycle = now

LEMMA WokenAre ==
  ASSUME now \in Nat, NEW q, NEW X, NEW at, Located(q, X, at, now), NEW w, w = Woken(q)
  PROVE  w \in Seq(Nat) /\ Apart(w) /\ ToSet(w) = {i \in X : at[i] = now}
<1>1. /\ Shape(q, now) /\ InRing(q, X, at, now) /\ InEvents(q, X, at) /\ Each(q, X)
      /\ X \subseteq Nat /\ \A j \in X : at[j] \in Nat
  BY DEF Located
<1>2. PICK s, a, b, h : /\ s = now % QueueSize /\ a = q.ring[s] /\ h = Head(q.events)
                        /\ b = IF DueNow(q) THEN h.list ELSE <<>>
  OBVIOUS
<1>3. s \in RingSlots
  BY <1>2, SlotOf
<1>4. /\ q.events \in Seq(Event) /\ a \in Seq(Nat) /\ Apart(a)
      /\ Pairwise(q.events, Earlier)
  BY <1>1, <1>2, <1>3 DEF Shape, QueueTypes
<1>5. w = a \o b
  BY <1>2 DEF Woken, DueNow
<1>6. DueNow(q) => Beginning(q.events, h, Tail(q.events)) /\ h.cycle = now
  BY <1>2, <1>4, BeginningIs DEF DueNow
<1>7. b \in Seq(Nat) /\ Apart(b)
  <2>1. CASE DueNow(q)
    <3>1. h \in Event /\ h \in ToSet(q.events)
      BY <1>6, <2>1 DEF Beginning
    <3> QED BY <1>1, <1>2, <2>1, <3>1 DEF Event, Shape
  <2>2. CASE ~ DueNow(q)
    <3>1. b = <<>> /\ b \in Seq(Nat) /\ DOMAIN b = {}
      BY <1>2, <2>2
    <3> QED BY <3>1 DEF Apart, Pairwise
  <2> QED BY <2>1, <2>2
<1>8. ASSUME NEW i \in ToSet(a) PROVE i \in X /\ at[i] = now /\ RingHolds(q, i)
  <2>1. i \in X /\ at[i] % QueueSize = s /\ now <= at[i] /\ at[i] < now + QueueSize
    BY <1>1, <1>2, <1>3 DEF InRing
  <2>2. at[i] \in Nat
    BY <1>1, <2>1
  <2>3. PICK c : c = at[i]
    OBVIOUS
  <2>4. now < now + QueueSize /\ now <= now
    BY QueueFacts
  <2>5. c = now
    BY <1>2, <2>1, <2>2, <2>3, <2>4, SlotsDiffer
  <2> QED BY <1>2, <1>3, <2>1, <2>3, <2>5 DEF RingHolds
<1>9. ASSUME NEW i \in ToSet(b) PROVE i \in X /\ at[i] = now /\ EventHolds(q, i)
  <2>1. CASE DueNow(q)
    <3>1. h \in ToSet(q.events) /\ h.cycle = now /\ i \in ToSet(h.list)
      BY <1>2, <1>6, <2>1 DEF Beginning
    <3> QED BY <1>1, <3>1 DEF InEvents, EventHolds
  <2>2. CASE ~ DueNow(q)
    <3>1. ToSet(b) = {}
      BY <1>2, <2>2 DEF ToSet
    <3> QED BY <3>1
  <2> QED BY <2>1, <2>2
<1>10. ToSet(a) \cap ToSet(b) = {}
  BY <1>1, <1>8, <1>9 DEF Each
<1>11. w \in Seq(Nat) /\ Apart(w) /\ ToSet(w) = ToSet(a) \cup ToSet(b)
  BY <1>4, <1>5, <1>7, <1>10, Joining
<1>12. ASSUME NEW i \in X, at[i] = now PROVE i \in ToSet(a) \cup ToSet(b)
  <2>1. CASE RingHolds(q, i)
    <3>1. PICK r \in RingSlots : i \in ToSet(q.ring[r])
      BY <2>1 DEF RingHolds
    <3>2. r = s
      BY <1>1, <1>2, <1>12, <3>1 DEF InRing
    <3> QED BY <1>2, <3>1, <3>2
  <2>2. CASE EventHolds(q, i)
    <3>1. PICK e \in ToSet(q.events) : i \in ToSet(e.list)
      BY <2>2 DEF EventHolds
    <3>2. e.cycle = now
      BY <1>1, <1>12, <3>1 DEF InEvents
    <3>3. q.events # <<>>
      BY <3>1 DEF ToSet
    <3>4. Beginning(q.events, h, Tail(q.events))
      BY <1>2, <1>4, <3>3, BeginningIs
    <3>5. h \in Event /\ h.cycle >= now /\ (e = h \/ h.cycle < e.cycle)
      BY <1>1, <3>1, <3>4 DEF Beginning, Shape
    <3>6. e = h
      BY <3>2, <3>5 DEF Event
    <3>7. DueNow(q)
      BY <1>2, <3>2, <3>3, <3>6 DEF DueNow
    <3> QED BY <1>2, <3>1, <3>6, <3>7
  <2> QED BY <1>1, <2>1, <2>2 DEF Each
<1> QED
  BY <1>8, <1>9, <1>11, <1>12

LEMMA DetachedKeeps ==
  ASSUME now \in Nat, NEW q, NEW X, NEW at, Located(q, X, at, now), NEW d, d = Detached(q)
  PROVE  /\ Located(d, {i \in X : at[i] # now}, at, now + 1)
         /\ d.ring[now % QueueSize] = <<>>
<1>1. /\ Shape(q, now) /\ InRing(q, X, at, now) /\ InEvents(q, X, at) /\ Each(q, X)
      /\ X \subseteq Nat /\ \A j \in X : at[j] \in Nat
  BY DEF Located
<1>2. PICK s, h, Y : s = now % QueueSize /\ h = Head(q.events) /\ Y = {i \in X : at[i] # now}
  OBVIOUS
<1>3. s \in RingSlots
  BY <1>2, SlotOf
<1>4. q.ring \in [RingSlots -> Seq(Nat)] /\ q.events \in Seq(Event) /\ Pairwise(q.events, Earlier)
  BY <1>1 DEF Shape, QueueTypes
<1>5. d.ring = [q.ring EXCEPT ![s] = <<>>] /\ d.events = (IF DueNow(q) THEN Tail(q.events) ELSE q.events)
      /\ d = [ring |-> d.ring, events |-> d.events]
  BY <1>2 DEF Detached, DueNow
<1>6. /\ d.ring \in [RingSlots -> Seq(Nat)] /\ d.ring[s] = <<>>
      /\ \A r \in RingSlots : r # s => d.ring[r] = q.ring[r]
  <2>1. <<>> \in Seq(Nat)
    OBVIOUS
  <2> QED BY <1>3, <1>4, <1>5, <2>1
<1>7. q.events # <<>> => Beginning(q.events, h, Tail(q.events)) /\ h.cycle >= now
  <2>1. ASSUME q.events # <<>> PROVE Beginning(q.events, h, Tail(q.events))
    BY <1>2, <1>4, <2>1, BeginningIs
  <2> QED BY <1>1, <2>1 DEF Beginning, Shape
<1>8. /\ d.events \in Seq(Event) /\ Pairwise(d.events, Earlier)
      /\ ToSet(d.events) = {e \in ToSet(q.events) : e.cycle # now}
  <2>1. CASE DueNow(q)
    <3>1. Beginning(q.events, h, Tail(q.events)) /\ h.cycle = now
      BY <1>2, <1>7, <2>1 DEF DueNow
    <3>2. d.events = Tail(q.events)
      BY <1>5, <2>1
    <3>3. \A e \in ToSet(q.events) : e # h <=> e.cycle # now
      BY <3>1 DEF Beginning
    <3> QED BY <3>1, <3>2, <3>3 DEF Beginning
  <2>2. CASE ~ DueNow(q)
    <3>1. d.events = q.events
      BY <1>5, <2>2
    <3>2. ASSUME NEW e \in ToSet(q.events) PROVE e.cycle # now
      <4>1. q.events # <<>>
        BY <3>2 DEF ToSet
      <4>2. h.cycle # now /\ h.cycle >= now /\ h \in Event /\ (e = h \/ h.cycle < e.cycle)
        BY <1>2, <1>7, <2>2, <3>2, <4>1 DEF DueNow, Beginning
      <4> QED BY <4>2 DEF Event
    <3> QED BY <1>4, <3>1, <3>2
  <2> QED BY <2>1, <2>2
<1>9. Shape(d, now + 1)
  <2>1. d \in QueueTypes
    BY <1>5, <1>6, <1>8 DEF QueueTypes
  <2>2. ASSUME NEW r \in RingSlots PROVE Apart(d.ring[r])
    <3>1. Apart(<<>>)
      BY DEF Apart, Pairwise
    <3> QED BY <1>1, <1>6, <3>1 DEF Shape
  <2>3. ASSUME NEW e \in ToSet(d.events) PROVE Apart(e.list) /\ e.cycle >= now + 1
    <3>1. e \in ToSet(q.events) /\ e.cycle # now
      BY <1>8
    <3>2. e \in Event
      BY <1>4, <3>1, ElementOfSeq, LenProperties DEF ToSet
    <3> QED BY <1>1, <3>1, <3>2 DEF Shape, Event
  <2> QED BY <1>8, <2>1, <2>2, <2>3 DEF Shape
<1>10. ASSUME NEW r \in RingSlots, NEW i \in ToSet(q.ring[r])
       PROVE  i \in X /\ at[i] \in Nat /\ at[i] % QueueSize = r /\ now <= at[i] /\ at[i] < now + QueueSize /\ (r = s <=> at[i] = now)
  <2>1. i \in X /\ at[i] % QueueSize = r /\ now <= at[i] /\ at[i] < now + QueueSize
    BY <1>1 DEF InRing
  <2>2. at[i] \in Nat
    BY <1>1, <2>1
  <2>3. PICK c : c = at[i]
    OBVIOUS
  <2>4. now < now + QueueSize /\ now <= now
    BY QueueFacts
  <2>5. r = s => c = now
    BY <1>2, <2>1, <2>2, <2>3, <2>4, SlotsDiffer
  <2> QED BY <1>2, <2>1, <2>2, <2>3, <2>5
<1>11. InRing(d, Y, at, now + 1)
  <2> SUFFICES ASSUME NEW r \in RingSlots, NEW i \in ToSet(d.ring[r])
               PROVE  i \in Y /\ at[i] % QueueSize = r /\ now + 1 <= at[i] /\ at[i] < now + 1 + QueueSize
    BY DEF InRing
  <2>1. r # s
    BY <1>6 DEF ToSet
  <2>2. i \in ToSet(q.ring[r])
    BY <1>6, <2>1
  <2>3. i \in X /\ at[i] \in Nat /\ at[i] % QueueSize = r /\ now <= at[i] /\ at[i] < now + QueueSize /\ at[i] # now
    BY <1>10, <2>1, <2>2
  <2> QED BY <1>2, <2>3, QueueFacts
<1>12. InEvents(d, Y, at)
  BY <1>1, <1>2, <1>8 DEF InEvents
<1>13. Each(d, Y)
  <2> SUFFICES ASSUME NEW i \in Y
               PROVE  (RingHolds(d, i) <=> RingHolds(q, i)) /\ (EventHolds(d, i) <=> EventHolds(q, i))
    BY <1>1, <1>2 DEF Each
  <2>1. i \in X /\ at[i] # now
    BY <1>2
  <2>2. \A r \in RingSlots : i \in ToSet(d.ring[r]) <=> i \in ToSet(q.ring[r])
    <3>1. ToSet(<<>>) = {}
      BY DEF ToSet
    <3> QED BY <1>6, <1>10, <2>1, <3>1
  <2>3. \A e \in ToSet(q.events) : i \in ToSet(e.list) => e.cycle # now
    BY <1>1, <2>1 DEF InEvents
  <2> QED BY <1>8, <2>2, <2>3 DEF RingHolds, EventHolds
<1>14. Y \subseteq Nat /\ \A i \in Y : at[i] \in Nat
  BY <1>1, <1>2
<1> QED
  BY <1>2, <1>6, <1>9, <1>11, <1>12, <1>13, <1>14 DEF Located

\* What posts itself goes back to an empty slot.
LEMMA PutBack ==
  ASSUME NEW d, NEW Y, NEW at, NEW t \in Nat, Located(d, Y, at, t),
         NEW s \in RingSlots, d.ring[s] = <<>>,
         NEW l \in Seq(Nat), Apart(l), ToSet(l) \cap Y = {},
         \A i \in ToSet(l) : at[i] \in Nat /\ at[i] % QueueSize = s /\ t <= at[i] /\ at[i] < t + QueueSize,
         NEW u, u = [d EXCEPT !.ring[s] = l]
  PROVE  Located(u, Y \cup ToSet(l), at, t)
<1>1. /\ Shape(d, t) /\ InRing(d, Y, at, t) /\ InEvents(d, Y, at) /\ Each(d, Y)
      /\ Y \subseteq Nat /\ \A j \in Y : at[j] \in Nat
  BY DEF Located
<1>2. SlotSet(d, u, s, l)
  BY <1>1, SlotChanges DEF Shape
<1>3. /\ u \in QueueTypes /\ u.events = d.events
      /\ u.ring[s] = l /\ \A r \in RingSlots : r # s => u.ring[r] = d.ring[r]
  BY <1>2 DEF SlotSet
<1>4. ToSet(d.ring[s]) = {}
  BY DEF ToSet
<1>5. Shape(u, t)
  BY <1>1, <1>3 DEF Shape
<1>6. \A r \in RingSlots : \A i : i \in ToSet(u.ring[r]) <=> i \in ToSet(d.ring[r]) \/ (r = s /\ i \in ToSet(l))
  BY <1>3, <1>4
<1>7. InRing(u, Y \cup ToSet(l), at, t)
  BY <1>1, <1>6 DEF InRing
<1>8. InEvents(u, Y \cup ToSet(l), at)
  BY <1>1, <1>3 DEF InEvents
<1>9. Each(u, Y \cup ToSet(l))
  <2> SUFFICES ASSUME NEW i \in Y \cup ToSet(l)
               PROVE  (RingHolds(u, i) \/ EventHolds(u, i)) /\ ~ (RingHolds(u, i) /\ EventHolds(u, i))
    BY DEF Each
  <2>1. EventHolds(u, i) <=> EventHolds(d, i)
    BY <1>3 DEF EventHolds
  <2>2. RingHolds(u, i) <=> RingHolds(d, i) \/ i \in ToSet(l)
    BY <1>6 DEF RingHolds
  <2>3. i \in ToSet(l) => ~ RingHolds(d, i) /\ ~ EventHolds(d, i)
    BY <1>1 DEF RingHolds, EventHolds, InRing, InEvents
  <2> QED BY <1>1, <2>1, <2>2, <2>3 DEF Each
<1>10. Y \cup ToSet(l) \subseteq Nat /\ \A i \in Y \cup ToSet(l) : at[i] \in Nat
  <2>1. \A i \in ToSet(l) : i \in Nat
    BY ElementOfSeq, LenProperties DEF ToSet
  <2> QED BY <1>1, <2>1
<1> QED
  BY <1>5, <1>7, <1>8, <1>9, <1>10 DEF Located

LEMMA SameTimes ==
  ASSUME NEW q, NEW X, NEW at, NEW new, NEW t, Located(q, X, at, t), \A i \in X : new[i] = at[i]
  PROVE  Located(q, X, new, t)
BY DEF Located, InRing, InEvents

\* RemoveWaitQueue of those that are squashed.
LEMMA SquashKeeps ==
  ASSUME NEW q, NEW X, NEW at, NEW t, Located(q, X, at, t), NEW gone,
         NEW u, u = [ring |-> [s \in 0 .. QueueSize - 1 |-> Without(q.ring[s], gone)],
                     events |-> [n \in DOMAIN q.events |-> [q.events[n] EXCEPT !.list = Without(q.events[n].list, gone)]]]
  PROVE  Located(u, X \ gone, at, t)
<1>1. /\ Shape(q, t) /\ InRing(q, X, at, t) /\ InEvents(q, X, at) /\ Each(q, X)
      /\ X \subseteq Nat /\ \A j \in X : at[j] \in Nat
  BY DEF Located
<1>2. q.ring \in [RingSlots -> Seq(Nat)] /\ q.events \in Seq(Event)
  BY <1>1 DEF Shape, QueueTypes
<1>3. PICK n, E : n = Len(q.events) /\ E = q.events
  OBVIOUS
<1>4. n \in Nat /\ DOMAIN E = 1 .. n /\ (\A m \in 1 .. n : E[m] \in Event) /\ ToSet(E) = {E[m] : m \in 1 .. n}
  BY <1>2, <1>3, LenProperties, ElementOfSeq DEF ToSet
<1>5. ASSUME NEW list \in Seq(Nat)
      PROVE  /\ Without(list, gone) \in Seq(Nat)
             /\ ToSet(Without(list, gone)) = ToSet(list) \ gone
             /\ Apart(list) => Apart(Without(list, gone))
  BY WithoutKeeps DEF Apart
<1> DEFINE Less(e) == [e EXCEPT !.list = Without(e.list, gone)]
<1>6. ASSUME NEW e \in Event
      PROVE  /\ Less(e) \in Event /\ Less(e).cycle = e.cycle
             /\ ToSet(Less(e).list) = ToSet(e.list) \ gone
             /\ Apart(e.list) => Apart(Less(e).list)
  <2>1. e.list \in Seq(Nat)
    BY DEF Event
  <2>2. PICK l : l = Without(e.list, gone)
    OBVIOUS
  <2>3. l \in Seq(Nat) /\ ToSet(l) = ToSet(e.list) \ gone /\ (Apart(e.list) => Apart(l))
    BY <1>5, <2>1, <2>2
  <2>4. Less(e) \in Event /\ Less(e).cycle = e.cycle /\ Less(e).list = l
    BY <2>2, <2>3 DEF Event
  <2> HIDE DEF Less
  <2> QED BY <2>3, <2>4
<1>7. u.ring = [s \in RingSlots |-> Without(q.ring[s], gone)] /\ u.events = [m \in 1 .. n |-> Less(E[m])]
      /\ u = [ring |-> u.ring, events |-> u.events]
  BY <1>3, <1>4 DEF RingSlots
<1> HIDE DEF Less
<1>8. ASSUME NEW s \in RingSlots
      PROVE  /\ u.ring[s] \in Seq(Nat) /\ Apart(u.ring[s])
             /\ ToSet(u.ring[s]) = ToSet(q.ring[s]) \ gone
  <2>1. q.ring[s] \in Seq(Nat) /\ Apart(q.ring[s])
    BY <1>1, <1>2 DEF Shape
  <2>2. u.ring[s] = Without(q.ring[s], gone)
    BY <1>7
  <2>3. PICK list : list = q.ring[s]
    OBVIOUS
  <2> QED BY <1>5, <2>1, <2>2, <2>3
<1>9. u.events \in Seq(Event) /\ DOMAIN u.events = 1 .. n /\ \A m \in 1 .. n : u.events[m] = Less(E[m])
  <2>1. PICK v : v = u.events
    OBVIOUS
  <2>2. v = [m \in 1 .. n |-> Less(E[m])]
    BY <1>7, <2>1
  <2>3. DOMAIN v = 1 .. n /\ \A m \in 1 .. n : v[m] = Less(E[m])
    BY <2>2
  <2>4. v \in [1 .. n -> Event]
    BY <1>4, <1>6, <2>2
  <2>5. v \in Seq(Event)
    BY <1>4, <2>4, SeqDef
  <2> QED BY <2>1, <2>3, <2>5
<1>10. ToSet(u.events) = {Less(e) : e \in ToSet(E)}
  <2>1. ToSet(u.events) = {u.events[m] : m \in 1 .. n}
    BY <1>9 DEF ToSet
  <2>2. ASSUME NEW x \in ToSet(u.events) PROVE x \in {Less(e) : e \in ToSet(E)}
    <3>1. PICK m \in 1 .. n : x = u.events[m]
      BY <2>1
    <3>2. x = Less(E[m]) /\ E[m] \in ToSet(E)
      BY <1>4, <1>9, <3>1
    <3> QED BY <3>2
  <2>3. ASSUME NEW e \in ToSet(E) PROVE Less(e) \in ToSet(u.events)
    <3>1. PICK m \in 1 .. n : e = E[m]
      BY <1>4
    <3> QED BY <1>9, <2>1, <3>1
  <2> QED BY <2>2, <2>3
<1>11. \A e \in ToSet(E) : e \in Event
  BY <1>4
<1>12. Shape(u, t)
  <2>1. u \in QueueTypes
    <3>1. u.ring \in [RingSlots -> Seq(Nat)]
      BY <1>7, <1>8
    <3> QED BY <1>7, <1>9, <3>1 DEF QueueTypes
  <2>2. \A e \in ToSet(u.events) : Apart(e.list) /\ e.cycle >= t
    BY <1>1, <1>3, <1>6, <1>10, <1>11 DEF Shape
  <2>3. Pairwise(u.events, Earlier)
    <3> SUFFICES ASSUME NEW a \in 1 .. n, NEW b \in 1 .. n, a < b PROVE <<u.events[a], u.events[b]>> \in Earlier
      BY <1>9 DEF Pairwise
    <3>1. <<E[a], E[b]>> \in Earlier
      BY <1>1, <1>3, <1>4 DEF Shape, Pairwise
    <3>2. E[a].cycle < E[b].cycle
      BY <3>1 DEF Earlier
    <3>3. PICK x, y : x = Less(E[a]) /\ y = Less(E[b])
      OBVIOUS
    <3>4. x \in Event /\ y \in Event /\ x.cycle = E[a].cycle /\ y.cycle = E[b].cycle
      BY <1>4, <1>6, <3>3
    <3>5. <<x, y>> \in Earlier
      BY <3>2, <3>4 DEF Earlier
    <3> QED BY <1>9, <3>3, <3>5
  <2> QED BY <1>8, <2>1, <2>2, <2>3 DEF Shape
<1>13. InRing(u, X \ gone, at, t)
  BY <1>1, <1>8 DEF InRing
<1>14. InEvents(u, X \ gone, at)
  <2> SUFFICES ASSUME NEW e \in ToSet(E), NEW i \in ToSet(Less(e).list) PROVE i \in X \ gone /\ at[i] = Less(e).cycle
    BY <1>10 DEF InEvents
  <2>1. i \in ToSet(e.list) /\ i \notin gone /\ Less(e).cycle = e.cycle
    BY <1>6, <1>11
  <2> QED BY <1>1, <1>3, <2>1 DEF InEvents
<1>15. Each(u, X \ gone)
  <2> SUFFICES ASSUME NEW i \in X \ gone
               PROVE  (RingHolds(u, i) <=> RingHolds(q, i)) /\ (EventHolds(u, i) <=> EventHolds(q, i))
    BY <1>1 DEF Each
  <2>1. \A s \in RingSlots : i \in ToSet(u.ring[s]) <=> i \in ToSet(q.ring[s])
    BY <1>8
  <2>2. \A e \in ToSet(E) : i \in ToSet(Less(e).list) <=> i \in ToSet(e.list)
    BY <1>6, <1>11
  <2>3. EventHolds(u, i) <=> EventHolds(q, i)
    <3>1. EventHolds(u, i) <=> \E e \in ToSet(E) : i \in ToSet(Less(e).list)
      BY <1>10 DEF EventHolds
    <3>2. EventHolds(q, i) <=> \E e \in ToSet(E) : i \in ToSet(e.list)
      BY <1>3 DEF EventHolds
    <3> QED BY <2>2, <3>1, <3>2
  <2> QED BY <2>1, <2>3 DEF RingHolds
<1> QED
  BY <1>1, <1>12, <1>13, <1>14, <1>15 DEF Located

-----------------------------------------------------------------------------
(***************************************************************************)
(* The invariant.                                                          *)
(***************************************************************************)
Insts == [type : Types, state : States, priority : 0 .. LastCycle, due : Nat]

Rank(insts) == {p \in (DOMAIN insts) \X (DOMAIN insts) : insts[p[1]].priority <= insts[p[2]].priority}

\* The ready list holds the ready instructions, each once and by priority.
ReadyOK(insts, list) ==
    /\ list \in Seq(DOMAIN insts)
    /\ Pairwise(list, Different(DOMAIN insts)) /\ Pairwise(list, Rank(insts))
    /\ ToSet(list) = {i \in DOMAIN insts : insts[i].state = "ready"}

Pending(insts) == {i \in DOMAIN insts : insts[i].state \in {"issued", "posted"}}

\* When it is woken: an instruction that is posted while its slot is being walked
\* waits for a turn of the ring.
Wakes(d, t) ==
    IF d.state = "posted" THEN IF d.due - 1 >= t THEN d.due - 1 ELSE d.due - 1 + QueueSize
    ELSE d.due
Cycles(insts, t) == [i \in DOMAIN insts |-> Wakes(insts[i], t)]

Both(r, e) == [ring |-> r, events |-> e]

SchedulerIInv ==
    /\ now \in 0 .. LastCycle
    /\ inst \in Seq(Insts)
    /\ ReadyOK(inst, ready)
    /\ Located(Both(ring, events), Pending(inst), Cycles(inst, now), now)

LEMMA SeqInto ==
  ASSUME NEW S, NEW list \in Seq(S), NEW T, ToSet(list) \subseteq T
  PROVE  list \in Seq(T)
<1>1. Len(list) \in Nat /\ list \in [1 .. Len(list) -> S] /\ DOMAIN list = 1 .. Len(list)
  BY LenProperties
<1>2. \A n \in 1 .. Len(list) : list[n] \in T
  BY <1>1 DEF ToSet
<1>3. list \in [1 .. Len(list) -> T]
  BY <1>1, <1>2
<1> QED
  BY <1>1, <1>3, SeqDef

LEMMA MemberOf ==
  ASSUME NEW S, NEW list \in Seq(S)
  PROVE  ToSet(list) \subseteq S /\ \A n \in DOMAIN list : list[n] \in S /\ list[n] \in ToSet(list)
BY ElementOfSeq, LenProperties DEF ToSet

\* The list is in order still when the instructions have changed.
LEMMA StaysReady ==
  ASSUME NEW old, NEW new, NEW list \in Seq(DOMAIN old),
         Pairwise(list, Different(DOMAIN old)), Pairwise(list, Rank(old)),
         ToSet(list) = {i \in DOMAIN new : new[i].state = "ready"},
         \A i \in DOMAIN new : i \in DOMAIN old => new[i].priority = old[i].priority
  PROVE  ReadyOK(new, list)
<1>1. ToSet(list) \subseteq DOMAIN new /\ ToSet(list) \subseteq DOMAIN old
  BY MemberOf
<1>2. list \in Seq(DOMAIN new)
  BY <1>1, SeqInto
<1>3. ASSUME NEW m \in DOMAIN list, NEW n \in DOMAIN list, m < n
      PROVE  <<list[m], list[n]>> \in Different(DOMAIN new) /\ <<list[m], list[n]>> \in Rank(new)
  <2>1. PICK a, b : a = list[m] /\ b = list[n]
    OBVIOUS
  <2>2. a \in DOMAIN new /\ a \in DOMAIN old /\ b \in DOMAIN new /\ b \in DOMAIN old
    BY <1>1, <2>1 DEF ToSet
  <2>3. <<a, b>> \in Different(DOMAIN old) /\ <<a, b>> \in Rank(old)
    BY <1>3, <2>1 DEF Pairwise
  <2>4. a # b
    BY <2>3 DEF Different
  <2>5. old[a].priority <= old[b].priority
    BY <2>3 DEF Rank
  <2>6. new[a].priority <= new[b].priority
    BY <2>2, <2>5
  <2> QED BY <2>1, <2>2, <2>4, <2>6 DEF Different, Rank
<1> QED
  BY <1>2, <1>3 DEF ReadyOK, Pairwise

LEMMA InstFacts ==
  ASSUME inst \in Seq(Insts)
  PROVE  /\ Len(inst) \in Nat /\ InFlight = 1 .. Len(inst) /\ InFlight \subseteq Nat
         /\ \A i \in InFlight : /\ inst[i] \in Insts /\ inst[i].priority \in Nat /\ inst[i].due \in Nat
                                /\ Delay(i) \in Nat /\ Delay(i) >= 1
<1>1. Len(inst) \in Nat /\ InFlight = 1 .. Len(inst) /\ InFlight \subseteq Nat
  BY LenProperties DEF InFlight
<1>2. \A i \in InFlight : inst[i] \in Insts
  BY <1>1, ElementOfSeq
<1>3. \A i \in InFlight : inst[i].priority \in Nat /\ inst[i].due \in Nat /\ inst[i].type \in Types
  BY <1>2, QueueFacts DEF Insts
<1>4. \A x \in Types : Latency[x] \in Nat /\ Latency[x] >= 1
  BY SchedulerAssumption
<1> QED
  BY <1>1, <1>2, <1>3, <1>4 DEF Delay

LEMMA NowFacts == now \in 0 .. LastCycle => now \in Nat
BY QueueFacts

LEMMA InitScheduler == SchedulerInit => SchedulerIInv
<1> SUFFICES ASSUME SchedulerInit PROVE SchedulerIInv
  OBVIOUS
<1>1. now = 0 /\ inst = <<>> /\ ready = <<>> /\ ring = [s \in 0 .. QueueSize - 1 |-> <<>>] /\ events = <<>>
  BY DEF SchedulerInit
<1>2. now \in 0 .. LastCycle
  BY <1>1, QueueFacts
<1>3. inst \in Seq(Insts) /\ DOMAIN inst = {} /\ DOMAIN ready = {} /\ ToSet(ready) = {} /\ ready \in Seq(DOMAIN inst)
  BY <1>1 DEF ToSet
<1>4. ReadyOK(inst, ready)
  BY <1>3 DEF ReadyOK, Pairwise
<1>5. Pending(inst) = {}
  BY <1>3 DEF Pending
<1>6. PICK q : q = Both(ring, events)
  OBVIOUS
<1>7. /\ q.ring = [s \in RingSlots |-> <<>>] /\ q.events = <<>> /\ q = [ring |-> q.ring, events |-> q.events]
  BY <1>1, <1>6 DEF Both, RingSlots
<1>8. \A s \in RingSlots : q.ring[s] = <<>>
  BY <1>7
<1>9. <<>> \in Seq(Nat) /\ <<>> \in Seq(Event) /\ ToSet(<<>>) = {} /\ DOMAIN <<>> = {}
  BY DEF ToSet
<1>10. q \in QueueTypes
  BY <1>7, <1>9 DEF QueueTypes
<1>11. Shape(q, now)
  BY <1>7, <1>8, <1>9, <1>10 DEF Shape, Apart, Pairwise
<1>12. InRing(q, {}, Cycles(inst, now), now) /\ InEvents(q, {}, Cycles(inst, now)) /\ Each(q, {})
  BY <1>7, <1>8, <1>9 DEF InRing, InEvents, Each
<1> QED
  BY <1>1, <1>2, <1>3, <1>4, <1>5, <1>6, <1>11, <1>12 DEF SchedulerIInv, Located

\* The lists of queues stay where they are: whoever waits waits for the same cycle.
LEMMA StaysQueued ==
  ASSUME NEW q, NEW old, NEW new, NEW t, Located(q, Pending(old), Cycles(old, t), t),
         Pending(new) = Pending(old),
         \A i \in Pending(old) : new[i] = old[i]
  PROVE  Located(q, Pending(new), Cycles(new, t), t)
<1>1. \A i \in Pending(old) : Cycles(new, t)[i] = Cycles(old, t)[i]
  BY DEF Cycles, Pending
<1> QED
  BY <1>1, SameTimes

LEMMA DecodeInstKeeps ==
  ASSUME SchedulerIInv, NEW type \in Types, DecodeInst(type)
  PROVE  SchedulerIInv'
<1>1. now \in 0 .. LastCycle /\ inst \in Seq(Insts) /\ ReadyOK(inst, ready)
      /\ Located(Both(ring, events), Pending(inst), Cycles(inst, now), now)
  BY DEF SchedulerIInv
<1>2. /\ now' = now /\ ready' = ready /\ ring' = ring /\ events' = events
      /\ inst' = Append(inst, [type |-> type, state |-> "waiting", priority |-> now, due |-> 0])
  BY DEF DecodeInst
<1>3. PICK d, n, new : /\ d = [type |-> type, state |-> "waiting", priority |-> now, due |-> 0]
                       /\ n = Len(inst) /\ new = inst'
  OBVIOUS
<1>4. d \in Insts /\ d.state = "waiting"
  BY <1>1, <1>3 DEF Insts, States
<1>5. n \in Nat /\ DOMAIN inst = 1 .. n
  BY <1>1, <1>3, InstFacts DEF InFlight
<1>6. /\ new \in Seq(Insts) /\ Len(new) = n + 1 /\ new[n + 1] = d
      /\ \A i \in 1 .. n : new[i] = inst[i]
  BY <1>1, <1>2, <1>3, <1>4, AppendProperties
<1>7. DOMAIN new = 1 .. n + 1
  BY <1>6, LenProperties
<1>8. \A i \in DOMAIN new : (i \in DOMAIN inst /\ new[i] = inst[i]) \/ (i \notin DOMAIN inst /\ new[i] = d)
  <2> SUFFICES ASSUME NEW i \in 1 .. n + 1 PROVE (i \in 1 .. n /\ new[i] = inst[i]) \/ (i \notin 1 .. n /\ new[i] = d)
    BY <1>5, <1>7
  <2> QED BY <1>5, <1>6
<1>9. DOMAIN inst \subseteq DOMAIN new
  BY <1>5, <1>7
<1>10. ReadyOK(new, ready)
  <2>1. {i \in DOMAIN new : new[i].state = "ready"} = {i \in DOMAIN inst : inst[i].state = "ready"}
    BY <1>4, <1>8, <1>9
  <2>2. /\ ready \in Seq(DOMAIN inst) /\ Pairwise(ready, Different(DOMAIN inst)) /\ Pairwise(ready, Rank(inst))
        /\ ToSet(ready) = {i \in DOMAIN new : new[i].state = "ready"}
    BY <1>1, <2>1 DEF ReadyOK
  <2>3. \A i \in DOMAIN new : i \in DOMAIN inst => new[i].priority = inst[i].priority
    BY <1>8
  <2> QED BY <2>2, <2>3, StaysReady
<1>11. Located(Both(ring, events), Pending(new), Cycles(new, now), now)
  <2>1. Pending(new) = Pending(inst)
    BY <1>4, <1>8, <1>9 DEF Pending
  <2>2. \A i \in Pending(inst) : new[i] = inst[i]
    BY <1>8, <1>9 DEF Pending
  <2> QED BY <1>1, <2>1, <2>2, StaysQueued
<1> QED
  BY <1>1, <1>2, <1>3, <1>6, <1>10, <1>11 DEF SchedulerIInv

LEMMA RankIs == Rank(inst) = ByPriority(InFlight)
BY DEF Rank, ByPriority, InFlight

LEMMA ReadyArranged ==
  ASSUME SchedulerIInv
  PROVE  /\ ready \in Seq(InFlight) /\ Arranged(ready, InFlight)
         /\ ToSet(ready) = {i \in InFlight : State(i) = "ready"}
BY RankIs DEF SchedulerIInv, ReadyOK, Arranged, InFlight, State

\* One instruction changes.
Becomes(old, new, i, d) == DOMAIN new = DOMAIN old /\ new[i] = d /\ \A j \in DOMAIN old : j # i => new[j] = old[j]

LEMMA OneBecomes ==
  ASSUME inst \in Seq(Insts), NEW i \in InFlight, NEW d \in Insts, NEW new, new = [inst EXCEPT ![i] = d]
  PROVE  Becomes(inst, new, i, d) /\ new \in Seq(Insts)
<1>1. Len(inst) \in Nat /\ DOMAIN inst = 1 .. Len(inst) /\ inst \in [1 .. Len(inst) -> Insts]
  BY InstFacts, LenProperties DEF InFlight
<1>2. i \in DOMAIN inst
  BY DEF InFlight
<1>3. new \in [1 .. Len(inst) -> Insts] /\ DOMAIN new = DOMAIN inst
  BY <1>1, <1>2
<1>4. new \in Seq(Insts)
  BY <1>1, <1>3, SeqDef
<1> QED
  BY <1>1, <1>2, <1>3, <1>4 DEF Becomes

LEMMA MakeReadyKeeps ==
  ASSUME SchedulerIInv, NEW i \in InFlight, MakeReady(i)
  PROVE  SchedulerIInv'
<1>1. now \in 0 .. LastCycle /\ inst \in Seq(Insts) /\ ReadyOK(inst, ready)
      /\ Located(Both(ring, events), Pending(inst), Cycles(inst, now), now)
  BY DEF SchedulerIInv
<1>2. /\ now' = now /\ ring' = ring /\ events' = events /\ State(i) = "waiting"
      /\ ready' = Ordered(ready, i) /\ inst' = [inst EXCEPT ![i].state = "ready"]
  BY DEF MakeReady
<1>3. PICK d, new, u : d = [inst[i] EXCEPT !.state = "ready"] /\ new = inst' /\ u = ready'
  OBVIOUS
<1>4. inst[i] \in Insts
  BY <1>1, InstFacts
<1>5. d \in Insts /\ d.state = "ready" /\ d.priority = inst[i].priority
  BY <1>3, <1>4 DEF Insts, States
<1>6. new = [inst EXCEPT ![i] = d]
  BY <1>2, <1>3
<1>7. Becomes(inst, new, i, d) /\ new \in Seq(Insts)
  BY <1>1, <1>5, <1>6, OneBecomes
<1>8. ReadyOK(new, ready')
  <2>1. ready \in Seq(InFlight) /\ Arranged(ready, InFlight) /\ ToSet(ready) = {j \in InFlight : State(j) = "ready"}
    BY ReadyArranged
  <2>2. State(i) # "ready"
    BY <1>2
  <2>3. i \notin ToSet(ready)
    BY <2>1, <2>2
  <2>4. \A j \in InFlight : inst[j].priority \in Nat
    BY <1>1, InstFacts
  <2>5. u \in Seq(InFlight) /\ ToSet(u) = ToSet(ready) \cup {i} /\ Arranged(u, InFlight)
    BY <1>2, <1>3, <2>1, <2>3, <2>4, OrderedKeeps
  <2>6. u \in Seq(DOMAIN inst) /\ Pairwise(u, Different(DOMAIN inst)) /\ Pairwise(u, Rank(inst))
    BY <2>5, RankIs DEF Arranged, InFlight
  <2>7. ToSet(u) = {j \in DOMAIN new : new[j].state = "ready"}
    BY <1>5, <1>7, <2>1, <2>5 DEF Becomes, State, InFlight
  <2>8. \A j \in DOMAIN new : j \in DOMAIN inst => new[j].priority = inst[j].priority
    BY <1>5, <1>7 DEF Becomes
  <2> QED BY <1>3, <2>6, <2>7, <2>8, StaysReady
<1>9. Located(Both(ring, events), Pending(new), Cycles(new, now), now)
  <2>1. i \notin Pending(inst) /\ i \notin Pending(new)
    BY <1>2, <1>5, <1>7 DEF Pending, State, Becomes
  <2>2. Pending(new) = Pending(inst)
    BY <1>7, <2>1 DEF Pending, Becomes
  <2>3. \A j \in Pending(inst) : new[j] = inst[j]
    BY <1>7, <2>1 DEF Pending, Becomes
  <2> QED BY <1>1, <2>2, <2>3, StaysQueued
<1> QED
  BY <1>1, <1>2, <1>3, <1>7, <1>8, <1>9 DEF SchedulerIInv

\* postEvent of the next cycle: in the slot of this one.
LEMMA PostedNow ==
  ASSUME now \in Nat, NEW u, NEW i,
         u = [Both(ring, events) EXCEPT !.ring[now % QueueSize] = Append(ring[now % QueueSize], i)]
  PROVE  u = Queued(Both(ring, events), i, 0) /\ u = Both([ring EXCEPT ![now % QueueSize] = Append(ring[now % QueueSize], i)], events)
<1>1. 0 < QueueSize /\ now + 0 = now
  BY QueueFacts
<1> QED
  BY <1>1 DEF Queued, Both

LEMMA SameReady ==
  ASSUME SchedulerIInv, NEW i \in InFlight, State(i) = "elsewhere", NEW d \in Insts, NEW new, new = [inst EXCEPT ![i] = d],
         d.state # "ready", d.priority = inst[i].priority
  PROVE  ReadyOK(new, ready)
<1>1. inst \in Seq(Insts) /\ ReadyOK(inst, ready)
  BY DEF SchedulerIInv
<1>2. Becomes(inst, new, i, d)
  BY <1>1, OneBecomes
<1>3. /\ ready \in Seq(DOMAIN inst) /\ Pairwise(ready, Different(DOMAIN inst)) /\ Pairwise(ready, Rank(inst))
      /\ ToSet(ready) = {j \in DOMAIN inst : inst[j].state = "ready"}
  BY <1>1 DEF ReadyOK
<1>4. inst[i].state # "ready" /\ i \in DOMAIN inst
  BY DEF State, InFlight
<1>5. ToSet(ready) = {j \in DOMAIN new : new[j].state = "ready"}
  BY <1>2, <1>3, <1>4 DEF Becomes
<1>6. \A j \in DOMAIN new : j \in DOMAIN inst => new[j].priority = inst[j].priority
  BY <1>2 DEF Becomes
<1> QED
  BY <1>3, <1>5, <1>6, StaysReady

LEMMA ResumeKeeps ==
  ASSUME SchedulerIInv, NEW i \in InFlight, Resume(i)
  PROVE  SchedulerIInv'
<1>1. now \in 0 .. LastCycle /\ inst \in Seq(Insts) /\ ReadyOK(inst, ready)
      /\ Located(Both(ring, events), Pending(inst), Cycles(inst, now), now)
  BY DEF SchedulerIInv
<1>2. now' = now /\ ready' = ready /\ events' = events /\ State(i) = "elsewhere"
  BY DEF Resume
<1>3. now \in Nat /\ inst[i] \in Insts /\ i \in Nat /\ inst[i].priority \in 0 .. LastCycle /\ inst[i].type \in Types
      /\ inst[i].due \in Nat
  BY <1>1, NowFacts, InstFacts DEF Insts
<1>4. i \notin Pending(inst)
  BY <1>2 DEF Pending, State
<1>5. CASE inst' = [inst EXCEPT ![i].state = "complete"] /\ UNCHANGED ring
  <2>1. PICK d, new : d = [inst[i] EXCEPT !.state = "complete"] /\ new = inst'
    OBVIOUS
  <2>2. d \in Insts /\ d.state = "complete" /\ d.priority = inst[i].priority
    BY <1>3, <2>1 DEF Insts, States
  <2>3. new = [inst EXCEPT ![i] = d]
    BY <1>5, <2>1
  <2>4. Becomes(inst, new, i, d) /\ new \in Seq(Insts)
    BY <1>1, <2>2, <2>3, OneBecomes
  <2>5. d.state # "ready"
    BY <2>2
  <2>6. ReadyOK(new, ready)
    BY <1>2, <2>2, <2>3, <2>5, SameReady
  <2>7. i \notin Pending(new)
    BY <2>2, <2>4 DEF Pending, Becomes
  <2>8. Pending(new) = Pending(inst)
    BY <1>4, <2>4, <2>7 DEF Pending, Becomes
  <2>9. \A j \in Pending(inst) : new[j] = inst[j]
    BY <1>4, <2>4 DEF Pending, Becomes
  <2>10. Located(Both(ring, events), Pending(new), Cycles(new, now), now)
    BY <1>1, <2>8, <2>9, StaysQueued
  <2> QED BY <1>1, <1>2, <1>5, <2>1, <2>4, <2>6, <2>10 DEF SchedulerIInv
<1>6. CASE /\ inst' = [inst EXCEPT ![i].state = "posted", ![i].due = now + 1]
           /\ ring' = [ring EXCEPT ![now % QueueSize] = Append(@, i)]
  <2>1. PICK d, new : d = [inst[i] EXCEPT !.state = "posted", !.due = now + 1] /\ new = inst'
    OBVIOUS
  <2>2. d \in Insts /\ d.state = "posted" /\ d.priority = inst[i].priority /\ d.due = now + 1
    <3>1. PICK e, m : e = inst[i] /\ m = now + 1
      OBVIOUS
    <3>2. e \in Insts /\ m \in Nat /\ "posted" \in States
      BY <1>3, <3>1 DEF States
    <3>3. d = [e EXCEPT !.state = "posted", !.due = m]
      BY <2>1, <3>1
    <3> QED BY <3>1, <3>2, <3>3 DEF Insts
  <2>3. new = [inst EXCEPT ![i] = d]
    BY <1>1, <1>6, <2>1, InstFacts DEF InFlight
  <2>4. Becomes(inst, new, i, d) /\ new \in Seq(Insts)
    BY <1>1, <2>2, <2>3, OneBecomes
  <2>5. d.state # "ready"
    BY <2>2
  <2>6. ReadyOK(new, ready)
    BY <1>2, <2>2, <2>3, <2>5, SameReady
  <2>7. i \in Pending(new)
    BY <2>2, <2>4 DEF Pending, Becomes, InFlight
  <2>8. Pending(new) = Pending(inst) \cup {i}
    BY <2>4, <2>7 DEF Pending, Becomes
  <2>9. PICK u, q, X, at : /\ u = [Both(ring, events) EXCEPT !.ring[now % QueueSize] = Append(ring[now % QueueSize], i)]
                           /\ q = Both(ring, events) /\ X = Pending(inst) /\ at = Cycles(new, now)
    OBVIOUS
  <2>10. u = Queued(q, i, 0) /\ u = Both(ring', events)
    BY <1>3, <1>6, <2>9, PostedNow
  <2>11. \A j \in X : at[j] = Cycles(inst, now)[j]
    BY <1>4, <2>4, <2>9 DEF Pending, Becomes, Cycles
  <2>12. at[i] = now + 0
    <3>1. at[i] = Wakes(d, now)
      BY <2>4, <2>9 DEF Cycles, Becomes, InFlight
    <3>2. d.due - 1 = now
      BY <1>3, <2>2
    <3> QED BY <1>3, <2>2, <3>1, <3>2 DEF Wakes
  <2>13. Located(q, X, at, now)
    BY <1>1, <2>9, <2>11, SameTimes
  <2>14. i \notin X /\ 0 \in Nat
    BY <1>4, <2>9
  <2>15. Located(u, X \cup {i}, at, now)
    BY <1>3, <2>10, <2>12, <2>13, <2>14, QueuedKeeps
  <2>16. Located(Both(ring', events), Pending(new), Cycles(new, now), now)
    BY <2>8, <2>9, <2>10, <2>15
  <2> QED BY <1>1, <1>2, <2>1, <2>4, <2>6, <2>16 DEF SchedulerIInv
<1> QED
  BY <1>5, <1>6 DEF Resume

\* Those before k stay as they are.
Prefix(new, k) == DOMAIN new = 1 .. k - 1 /\ \A j \in 1 .. k - 1 : j \in DOMAIN inst /\ new[j] = inst[j]

LEMMA SquashFromKeeps ==
  ASSUME SchedulerIInv, NEW k \in InFlight, SquashFrom(k)
  PROVE  SchedulerIInv'
<1>1. now \in 0 .. LastCycle /\ inst \in Seq(Insts) /\ ReadyOK(inst, ready)
      /\ Located(Both(ring, events), Pending(inst), Cycles(inst, now), now)
  BY DEF SchedulerIInv
<1>2. PICK gone, n, new : gone = k .. Len(inst) /\ n = Len(inst) /\ new = inst'
  OBVIOUS
<1>3. /\ now' = now /\ new = SubSeq(inst, 1, k - 1) /\ ready' = Without(ready, gone)
      /\ ring' = [s \in 0 .. QueueSize - 1 |-> Without(ring[s], gone)]
      /\ events' = [m \in DOMAIN events |-> [events[m] EXCEPT !.list = Without(events[m].list, gone)]]
  BY <1>2 DEF SquashFrom
<1>4. n \in Nat /\ DOMAIN inst = 1 .. n /\ k \in 1 .. n
  BY <1>1, <1>2, InstFacts DEF InFlight
<1>5. new \in Seq(Insts) /\ Prefix(new, k)
  <2>1. k - 1 \in 0 .. n /\ (k - 1) - 1 + 1 = k - 1 /\ 1 \in 1 .. n + 1 /\ k - 1 \in 1 - 1 .. n
    BY <1>4
  <2>2. /\ new \in Seq(Insts) /\ Len(new) = (k - 1) - 1 + 1
        /\ \A j \in 1 .. (k - 1) - 1 + 1 : new[j] = inst[1 + j - 1]
    BY <1>1, <1>2, <1>3, <2>1, SubSeqProperties
  <2>3. DOMAIN new = 1 .. k - 1
    BY <2>1, <2>2, LenProperties
  <2>4. \A j \in 1 .. k - 1 : 1 + j - 1 = j /\ j \in DOMAIN inst
    BY <1>4
  <2> QED BY <2>1, <2>2, <2>3, <2>4 DEF Prefix
<1>6. \A j \in DOMAIN inst : j \in DOMAIN new <=> j \notin gone
  BY <1>2, <1>4, <1>5 DEF Prefix
<1>7. \A j \in DOMAIN new : j \in DOMAIN inst /\ j \notin gone /\ new[j] = inst[j]
  BY <1>2, <1>4, <1>5 DEF Prefix
<1>8. ReadyOK(new, ready')
  <2>1. PICK u : u = Without(ready, gone)
    OBVIOUS
  <2>2. /\ ready \in Seq(DOMAIN inst) /\ Pairwise(ready, Different(DOMAIN inst)) /\ Pairwise(ready, Rank(inst))
        /\ ToSet(ready) = {j \in DOMAIN inst : inst[j].state = "ready"}
    BY <1>1 DEF ReadyOK
  <2>3. /\ u \in Seq(DOMAIN inst) /\ ToSet(u) = ToSet(ready) \ gone
        /\ Pairwise(u, Different(DOMAIN inst)) /\ Pairwise(u, Rank(inst))
    BY <2>1, <2>2, WithoutKeeps
  <2>4. ToSet(u) = {j \in DOMAIN new : new[j].state = "ready"}
    BY <1>6, <1>7, <2>2, <2>3
  <2>5. \A j \in DOMAIN new : j \in DOMAIN inst => new[j].priority = inst[j].priority
    BY <1>7
  <2> QED BY <1>3, <2>1, <2>3, <2>4, <2>5, StaysReady
<1>9. Located(Both(ring', events'), Pending(new), Cycles(new, now), now)
  <2>1. PICK q, u, X, at : /\ q = Both(ring, events) /\ u = Both(ring', events') /\ X = Pending(inst)
                           /\ at = Cycles(inst, now)
    OBVIOUS
  <2>2. u = [ring |-> [s \in 0 .. QueueSize - 1 |-> Without(q.ring[s], gone)],
             events |-> [m \in DOMAIN q.events |-> [q.events[m] EXCEPT !.list = Without(q.events[m].list, gone)]]]
    BY <1>3, <2>1 DEF Both
  <2>3. Located(q, X, at, now)
    BY <1>1, <2>1
  <2>4. Located(u, X \ gone, at, now)
    BY <2>2, <2>3, SquashKeeps
  <2>5. Pending(new) = X \ gone
    BY <1>6, <1>7, <2>1 DEF Pending
  <2>6. \A j \in X \ gone : Cycles(new, now)[j] = at[j]
    <3>1. \A j \in X \ gone : j \in DOMAIN new /\ j \in DOMAIN inst /\ new[j] = inst[j]
      BY <1>6, <1>7, <2>1 DEF Pending
    <3> QED BY <2>1, <3>1 DEF Cycles
  <2> QED BY <2>1, <2>4, <2>5, <2>6, SameTimes
<1> QED
  BY <1>1, <1>2, <1>3, <1>5, <1>8, <1>9 DEF SchedulerIInv

-----------------------------------------------------------------------------
(***************************************************************************)
(* Execute.                                                                *)
(***************************************************************************)
Waiting == {i \in InFlight : State(i) = "waiting"}

LEMMA InFlightFinite ==
  ASSUME inst \in Seq(Insts), NEW S \in SUBSET InFlight
  PROVE  IsFiniteSet(S) /\ Cardinality(S) \in Nat
<1>1. IsFiniteSet(InFlight)
  BY InstFacts, FS_Interval
<1>2. IsFiniteSet(S)
  BY <1>1, FS_Subset
<1> QED
  BY <1>2, FS_CardinalityType

\* An order of some of them: each once.
LEMMA OneOrder ==
  ASSUME inst \in Seq(Insts), NEW S \in SUBSET InFlight, NEW f \in SetToAllKPermutations(S)
  PROVE  f \in Seq(S) /\ Pairwise(f, Different(S)) /\ ToSet(f) \subseteq S
<1>1. PICK T \in SUBSET S : f \in SetToSeqs(T)
  BY DEF SetToAllKPermutations
<1>2. PICK c : c = Cardinality(T)
  OBVIOUS
<1>3. T \in SUBSET InFlight
  BY <1>1
<1>4. c \in Nat
  BY <1>2, <1>3, InFlightFinite
<1>5. f \in [1 .. c -> T] /\ \A i, j \in 1 .. c : i # j => f[i] # f[j]
  BY <1>1, <1>2 DEF SetToSeqs
<1>6. f \in [1 .. c -> S] /\ DOMAIN f = 1 .. c
  BY <1>1, <1>5
<1>7. f \in Seq(S)
  BY <1>4, <1>6, SeqDef
<1>8. ASSUME NEW i \in 1 .. c, NEW j \in 1 .. c, i < j
      PROVE  <<f[i], f[j]>> \in Different(S)
  <2>1. i # j
    BY <1>4, <1>8
  <2>2. PICK a, b : a = f[i] /\ b = f[j]
    OBVIOUS
  <2>3. a \in S /\ b \in S /\ a # b
    BY <1>5, <1>6, <2>1, <2>2
  <2> QED BY <2>2, <2>3 DEF Different
<1>9. Pairwise(f, Different(S))
  BY <1>6, <1>8 DEF Pairwise
<1> QED
  BY <1>7, <1>9, MemberOf

\* How many Execute looks at.
Looked == IF Len(ready) < MaxExecute THEN Len(ready) ELSE MaxExecute

LEMMA LookedAtIs ==
  ASSUME SchedulerIInv
  PROVE  /\ Looked \in Nat /\ Looked <= Len(ready) /\ Len(ready) \in Nat /\ DOMAIN ready = 1 .. Len(ready)
         /\ LookedAt \in Seq(InFlight) /\ Len(LookedAt) = Looked /\ DOMAIN LookedAt = 1 .. Looked
         /\ \A m \in 1 .. Looked : m \in DOMAIN ready /\ LookedAt[m] = ready[m]
         /\ Pairwise(LookedAt, Different(InFlight))
         /\ ToSet(LookedAt) \subseteq ToSet(ready)
<1>1. ready \in Seq(InFlight) /\ Pairwise(ready, Different(InFlight))
  BY ReadyArranged DEF Arranged
<1>2. PICK n, k, look : n = Len(ready) /\ k = Looked /\ look = LookedAt
  OBVIOUS
<1>3. n \in Nat /\ DOMAIN ready = 1 .. n
  BY <1>1, <1>2, LenProperties
<1>4. k \in Nat /\ k <= n
  BY <1>2, <1>3, QueueFacts DEF Looked
<1>5. look = SubSeq(ready, 1, k)
  BY <1>2 DEF LookedAt, Looked
<1>6. \A m \in 1 .. k : ready[m] \in InFlight /\ m \in 1 .. n
  BY <1>1, <1>3, <1>4, MemberOf
<1>7. /\ look \in Seq(InFlight)
      /\ Len(look) = IF 1 <= k THEN k - 1 + 1 ELSE 0
      /\ \A m \in 1 .. k - 1 + 1 : look[m] = ready[1 + m - 1]
  BY <1>4, <1>5, <1>6, SubSeqProperties
<1>8. Len(look) = k /\ k - 1 + 1 = k /\ \A m \in 1 .. k : 1 + m - 1 = m
  BY <1>4, <1>7
<1>9. \A m \in 1 .. k : look[m] = ready[m]
  BY <1>7, <1>8
<1>10. DOMAIN look = 1 .. k
  BY <1>7, <1>8, LenProperties
<1>11. Pairwise(look, Different(InFlight))
  BY <1>1, <1>3, <1>6, <1>9, <1>10 DEF Pairwise
<1>12. ToSet(look) \subseteq ToSet(ready)
  BY <1>3, <1>6, <1>9, <1>10 DEF ToSet
<1> QED
  BY <1>2, <1>3, <1>4, <1>6, <1>7, <1>8, <1>9, <1>10, <1>11, <1>12

\* Those that are issued are ready, and are queued each once.
LEMMA IssuedAre ==
  ASSUME SchedulerIInv, NEW some, some = Without(LookedAt, InFlight \ Issued)
  PROVE  /\ some \in Seq(Nat) /\ Apart(some) /\ ToSet(some) = Issued
         /\ Issued \subseteq {i \in InFlight : State(i) = "ready"}
<1>1. ToSet(ready) = {i \in InFlight : State(i) = "ready"} /\ ready \in Seq(InFlight)
  BY ReadyArranged
<1>2. LookedAt \in Seq(InFlight) /\ Pairwise(LookedAt, Different(InFlight)) /\ ToSet(LookedAt) \subseteq ToSet(ready)
  BY LookedAtIs
<1>3. Issued \subseteq ToSet(LookedAt)
  BY DEF Issued, ToSet
<1>4. /\ some \in Seq(InFlight) /\ ToSet(some) = ToSet(LookedAt) \ (InFlight \ Issued)
      /\ Pairwise(some, Different(InFlight))
  BY <1>2, WithoutKeeps
<1>5. ToSet(some) = Issued
  BY <1>1, <1>2, <1>3, <1>4
<1>6. InFlight \subseteq Nat
  BY InstFacts DEF SchedulerIInv
<1>7. some \in Seq(Nat)
  BY <1>4, <1>6, SeqInto, MemberOf
<1>8. Different(InFlight) \subseteq Different(Nat)
  BY <1>6 DEF Different
<1>9. Apart(some)
  BY <1>4, <1>8 DEF Apart, Pairwise
<1> QED
  BY <1>1, <1>2, <1>3, <1>5, <1>7, <1>9

\* What becomes of an instruction.
WokenFate(i, outcome) ==
    [inst[i] EXCEPT !.state = outcome[i], !.due = IF outcome[i] = "posted" THEN now + 1 ELSE @]
IssuedFate(i) == [inst[i] EXCEPT !.state = "issued", !.due = now + Latency[inst[i].type]]
FilledFate(i) == [inst[i] EXCEPT !.state = "ready"]

Fate(i, w, outcome, filled) ==
    CASE i \in ToSet(w) -> WokenFate(i, outcome)
      [] i \in Issued -> IssuedFate(i)
      [] i \in ToSet(filled) -> FilledFate(i)
      [] OTHER -> inst[i]

\* Execute, its choices and what it computes named.
Executes(q, w, d, l, outcome, filled) ==
    /\ q = QueuedAll(Both(ring, events), Without(LookedAt, InFlight \ Issued))
    /\ w = Woken(q) /\ d = Detached(q)
    /\ l = Without(w, {i \in ToSet(w) : outcome[i] # "posted"})
    /\ now < LastCycle /\ now' = now + 1
    /\ outcome \in [ToSet(w) -> Outcomes]
    /\ filled \in SetToAllKPermutations(Waiting)
    /\ ready' = Scheduled(Without(ready, Issued), filled)
    /\ ring' = [d.ring EXCEPT ![now % QueueSize] = l]
    /\ events' = d.events
    /\ inst' = [i \in InFlight |-> Fate(i, w, outcome, filled)]

LEMMA ExecuteIs ==
  ASSUME Execute
  PROVE  \E q, w, d, l, outcome, filled : Executes(q, w, d, l, outcome, filled)
<1> DEFINE q == QueuedAll([ring |-> ring, events |-> events], Without(LookedAt, InFlight \ Issued))
           w == Woken(q)
           d == Detached(q)
<1>1. now < LastCycle /\ now' = now + 1
  BY DEF Execute
<1>2. PICK outcome \in [ToSet(w) -> Outcomes], filled \in SetToAllKPermutations({i \in InFlight : State(i) = "waiting"}) :
          /\ ready' = Scheduled(Without(ready, Issued), filled)
          /\ ring' = [d.ring EXCEPT ![now % QueueSize] = Without(w, {i \in ToSet(w) : outcome[i] # "posted"})]
          /\ events' = d.events
          /\ inst' = [i \in InFlight |-> Fate(i, w, outcome, filled)]
  BY DEF Execute, Fate, WokenFate, IssuedFate, FilledFate
<1>3. q = QueuedAll(Both(ring, events), Without(LookedAt, InFlight \ Issued))
  BY DEF Both
<1>4. filled \in SetToAllKPermutations(Waiting)
  BY DEF Waiting
<1>5. \E l : l = Without(w, {i \in ToSet(w) : outcome[i] # "posted"})
  OBVIOUS
<1>6. PICK l : l = Without(w, {i \in ToSet(w) : outcome[i] # "posted"})
  BY <1>5
<1>7. Executes(q, w, d, l, outcome, filled)
  <2>1. w = Woken(q) /\ d = Detached(q)
    OBVIOUS
  <2> HIDE DEF q, w, d
  <2> QED BY <1>1, <1>2, <1>3, <1>4, <1>6, <2>1 DEF Executes
<1> HIDE DEF q, w, d
<1> QED
  BY <1>7

\* For which cycle somebody waits once those of Issued are queued.
Set0(i) == IF i \in Issued THEN now + Delay(i) ELSE Wakes(inst[i], now)
Slots0 == [i \in InFlight |-> Set0(i)]

PostsOf(w, outcome) == {i \in ToSet(w) : outcome[i] = "posted"}

\* What Execute changes.
Fates(new, w, outcome, filled) ==
    /\ new \in Seq(Insts) /\ DOMAIN new = InFlight
    /\ \A i \in InFlight : new[i].priority = inst[i].priority
    /\ \A i \in ToSet(w) : /\ new[i].state = outcome[i] /\ outcome[i] \in Outcomes
                           /\ outcome[i] = "posted" => new[i].due = now + 1
    /\ \A i \in Issued : new[i].state = "issued" /\ new[i].due = now + Delay(i)
    /\ \A i \in ToSet(filled) : new[i].state = "ready"
    /\ \A i \in InFlight : i \notin ToSet(w) /\ i \notin Issued /\ i \notin ToSet(filled) => new[i] = inst[i]

\* Who is woken waits for this cycle.
Moved(w, filled) ==
    /\ w \in Seq(Nat) /\ Apart(w)
    /\ ToSet(w) = {i \in Pending(inst) : Wakes(inst[i], now) = now}
    /\ Issued \subseteq {i \in InFlight : State(i) = "ready"}
    /\ filled \in Seq(InFlight) /\ Pairwise(filled, Different(InFlight))
    /\ ToSet(filled) \subseteq {i \in InFlight : State(i) = "waiting"}

LEMMA QueuedNow ==
  ASSUME SchedulerIInv, NEW q, q = QueuedAll(Both(ring, events), Without(LookedAt, InFlight \ Issued))
  PROVE  Located(q, Pending(inst) \cup Issued, Slots0, now)
<1>1. now \in 0 .. LastCycle /\ inst \in Seq(Insts)
      /\ Located(Both(ring, events), Pending(inst), Cycles(inst, now), now)
  BY DEF SchedulerIInv
<1>2. PICK b, X, at, some : /\ b = Both(ring, events) /\ X = Pending(inst) /\ at = Slots0
                            /\ some = Without(LookedAt, InFlight \ Issued)
  OBVIOUS
<1>3. /\ some \in Seq(Nat) /\ Apart(some) /\ ToSet(some) = Issued
      /\ Issued \subseteq {i \in InFlight : State(i) = "ready"}
  BY <1>2, IssuedAre
<1>4. X \subseteq InFlight /\ X \cap Issued = {}
  BY <1>2, <1>3 DEF Pending, InFlight, State
<1>5. \A i \in X : at[i] = Cycles(inst, now)[i]
  BY <1>2, <1>4 DEF Slots0, Set0, Cycles, InFlight
<1>6. Located(b, X, at, now)
  BY <1>1, <1>2, <1>5, SameTimes
<1>7. \A i \in ToSet(some) : Delay(i) \in Nat /\ at[i] = now + Delay(i)
  BY <1>1, <1>2, <1>3, InstFacts DEF Slots0, Set0
<1>8. now \in Nat /\ q = QueuedAll(b, some) /\ ToSet(some) \cap X = {}
  BY <1>1, <1>2, <1>3, <1>4, NowFacts
<1>9. Located(q, X \cup ToSet(some), at, now)
  BY <1>3, <1>6, <1>7, <1>8, QueuedAllKeeps
<1> QED
  BY <1>2, <1>3, <1>9

LEMMA ExecuteMoves ==
  ASSUME SchedulerIInv, NEW q, NEW w, NEW d, NEW l, NEW outcome, NEW filled, Executes(q, w, d, l, outcome, filled)
  PROVE  Moved(w, filled)
<1>1. now \in 0 .. LastCycle /\ inst \in Seq(Insts) /\ now \in Nat
  BY NowFacts DEF SchedulerIInv
<1>2. /\ q = QueuedAll(Both(ring, events), Without(LookedAt, InFlight \ Issued)) /\ w = Woken(q)
      /\ filled \in SetToAllKPermutations(Waiting)
  BY DEF Executes
<1>3. PICK Y, at : Y = Pending(inst) \cup Issued /\ at = Slots0
  OBVIOUS
<1>4. Located(q, Y, at, now)
  BY <1>2, <1>3, QueuedNow
<1>5. w \in Seq(Nat) /\ Apart(w) /\ ToSet(w) = {i \in Y : at[i] = now}
  BY <1>1, <1>2, <1>4, WokenAre
<1>6. Issued \subseteq {i \in InFlight : State(i) = "ready"}
  BY IssuedAre
<1>7. \A i \in Issued : at[i] # now
  <2> SUFFICES ASSUME NEW i \in Issued PROVE at[i] # now
    OBVIOUS
  <2>1. PICK x : x = Delay(i)
    OBVIOUS
  <2>2. i \in InFlight
    BY <1>6
  <2>3. x \in Nat /\ x >= 1
    BY <1>1, <2>1, <2>2, InstFacts
  <2>4. at[i] = now + x
    BY <1>3, <2>1, <2>2 DEF Slots0, Set0
  <2> QED BY <1>1, <2>3, <2>4
<1>8. \A i \in Pending(inst) : i \in InFlight /\ i \notin Issued /\ at[i] = Wakes(inst[i], now)
  <2>1. \A i \in Pending(inst) : i \in InFlight /\ i \notin Issued
    BY <1>6 DEF Pending, InFlight, State
  <2> QED BY <1>3, <2>1 DEF Slots0, Set0
<1>9. ToSet(w) = {i \in Pending(inst) : Wakes(inst[i], now) = now}
  BY <1>3, <1>5, <1>7, <1>8
<1>10. Waiting \in SUBSET InFlight
  BY DEF Waiting
<1>11. filled \in Seq(Waiting) /\ Pairwise(filled, Different(Waiting)) /\ ToSet(filled) \subseteq Waiting
  BY <1>1, <1>2, <1>10, OneOrder
<1>12. filled \in Seq(InFlight)
  BY <1>10, <1>11, SeqInto
<1>13. Pairwise(filled, Different(InFlight))
  BY <1>10, <1>11 DEF Pairwise, Different
<1> QED
  BY <1>5, <1>6, <1>9, <1>11, <1>12, <1>13 DEF Moved, Waiting

LEMMA ExecuteFates ==
  ASSUME SchedulerIInv, NEW q, NEW w, NEW d, NEW l, NEW outcome, NEW filled, Executes(q, w, d, l, outcome, filled)
  PROVE  Fates(inst', w, outcome, filled)
<1>1. now \in Nat /\ inst \in Seq(Insts)
  BY NowFacts DEF SchedulerIInv
<1>2. Moved(w, filled)
  BY ExecuteMoves
<1>3. outcome \in [ToSet(w) -> Outcomes]
  BY DEF Executes
<1>4. PICK new : new = inst'
  OBVIOUS
<1>5. new = [i \in InFlight |-> Fate(i, w, outcome, filled)]
  BY <1>4 DEF Executes
<1>6. \A i \in InFlight : new[i] = Fate(i, w, outcome, filled)
  BY <1>5
<1>7. ASSUME NEW i \in InFlight
      PROVE  i \notin ToSet(w) \/ (i \notin Issued /\ i \notin ToSet(filled))
  BY <1>2 DEF Moved, Pending, State
<1>8. ASSUME NEW i \in InFlight
      PROVE  i \notin Issued \/ i \notin ToSet(filled)
  <2>1. ~ (State(i) = "ready" /\ State(i) = "waiting")
    OBVIOUS
  <2> QED BY <1>2, <2>1 DEF Moved
<1>9. \A i \in InFlight : i \notin ToSet(w) /\ i \notin Issued /\ i \notin ToSet(filled) => new[i] = inst[i]
  BY <1>6 DEF Fate
<1>10. ASSUME NEW i \in ToSet(w)
       PROVE  /\ i \in InFlight /\ new[i] \in Insts /\ new[i].priority = inst[i].priority
              /\ new[i].state = outcome[i] /\ outcome[i] \in Outcomes
              /\ outcome[i] = "posted" => new[i].due = now + 1
  <2>1. i \in InFlight
    BY <1>2 DEF Moved, Pending, InFlight
  <2>2. PICK e, o, m : e = inst[i] /\ o = outcome[i] /\ m = IF o = "posted" THEN now + 1 ELSE e.due
    OBVIOUS
  <2>3. e \in Insts /\ o \in Outcomes /\ o \in States /\ m \in Nat
    BY <1>1, <1>3, <2>1, <2>2, InstFacts DEF Outcomes, States
  <2>4. new[i] = [e EXCEPT !.state = o, !.due = m]
    <3>1. Fate(i, w, outcome, filled) = WokenFate(i, outcome)
      <4>1. i \notin Issued /\ i \notin ToSet(filled)
        BY <1>7, <2>1
      <4> QED BY <4>1 DEF Fate
    <3>2. WokenFate(i, outcome) = [e EXCEPT !.state = o, !.due = m]
      BY <2>2 DEF WokenFate
    <3> QED BY <1>6, <2>1, <3>1, <3>2
  <2>5. new[i] \in Insts /\ new[i].priority = e.priority /\ new[i].state = o /\ new[i].due = m
    BY <2>3, <2>4 DEF Insts
  <2> QED BY <2>1, <2>2, <2>3, <2>5
<1>11. ASSUME NEW i \in Issued
       PROVE  /\ i \in InFlight /\ new[i] \in Insts /\ new[i].priority = inst[i].priority
              /\ new[i].state = "issued" /\ new[i].due = now + Delay(i)
  <2>1. i \in InFlight /\ i \notin ToSet(w)
    BY <1>2, <1>7 DEF Moved
  <2>2. PICK e, m : e = inst[i] /\ m = now + Delay(i)
    OBVIOUS
  <2>3. e \in Insts /\ "issued" \in States /\ m \in Nat
    BY <1>1, <2>1, <2>2, InstFacts DEF States
  <2>4. new[i] = [e EXCEPT !.state = "issued", !.due = m]
    <3>1. Fate(i, w, outcome, filled) = IssuedFate(i)
      <4>1. i \notin ToSet(filled)
        BY <1>8, <2>1
      <4> QED BY <2>1, <4>1 DEF Fate
    <3>2. IssuedFate(i) = [e EXCEPT !.state = "issued", !.due = m]
      BY <2>2 DEF IssuedFate, Delay
    <3> QED BY <1>6, <2>1, <3>1, <3>2
  <2>5. new[i] \in Insts /\ new[i].priority = e.priority /\ new[i].state = "issued" /\ new[i].due = m
    BY <2>3, <2>4 DEF Insts
  <2> QED BY <2>1, <2>2, <2>5
<1>12. ASSUME NEW i \in ToSet(filled)
       PROVE  i \in InFlight /\ new[i] \in Insts /\ new[i].priority = inst[i].priority /\ new[i].state = "ready"
  <2>1. i \in InFlight
    BY <1>2 DEF Moved
  <2>2. i \notin ToSet(w) /\ i \notin Issued
    BY <1>7, <1>8, <2>1
  <2>3. PICK e : e = inst[i]
    OBVIOUS
  <2>4. e \in Insts /\ "ready" \in States
    BY <1>1, <2>1, <2>3, InstFacts DEF States
  <2>5. new[i] = [e EXCEPT !.state = "ready"]
    BY <1>6, <2>1, <2>2, <2>3 DEF Fate, FilledFate
  <2>6. new[i] \in Insts /\ new[i].priority = e.priority /\ new[i].state = "ready"
    BY <2>4, <2>5 DEF Insts
  <2> QED BY <2>1, <2>3, <2>6
<1>13. \A i \in InFlight : new[i] \in Insts /\ new[i].priority = inst[i].priority
  <2>1. \A i \in InFlight : inst[i] \in Insts
    BY <1>1, InstFacts
  <2> QED BY <1>9, <1>10, <1>11, <1>12, <2>1
<1>14. new \in Seq(Insts) /\ DOMAIN new = InFlight
  <2>1. Len(inst) \in Nat /\ InFlight = 1 .. Len(inst)
    BY <1>1, InstFacts
  <2>2. new \in [1 .. Len(inst) -> Insts]
    BY <1>5, <1>6, <1>13, <2>1
  <2> QED BY <2>1, <2>2, SeqDef
<1> QED
  BY <1>4, <1>9, <1>10, <1>11, <1>12, <1>13, <1>14 DEF Fates

\* For which cycle somebody waits at the end of this one.
Slots1(w) == [i \in InFlight |-> IF i \in ToSet(w) THEN now + QueueSize ELSE Slots0[i]]

LEMMA NextTurn ==
  ASSUME NEW t \in Nat
  PROVE  (t + QueueSize) % QueueSize = t % QueueSize
<1>1. PICK n, a : n = QueueSize /\ a = t + n
  OBVIOUS
<1>2. n \in Nat /\ n >= 1 /\ a \in Nat
  BY <1>1, QueueFacts
<1>3. /\ a = n * (a \div n) + (a % n) /\ t = n * (t \div n) + (t % n)
      /\ a \div n \in Int /\ t \div n \in Int
      /\ a % n \in 0 .. n - 1 /\ t % n \in 0 .. n - 1
  BY <1>2
<1>4. PICK x, y, r, s : x = a \div n /\ y = t \div n /\ r = a % n /\ s = t % n
  OBVIOUS
<1>5. /\ x \in Int /\ y \in Int /\ r \in 0 .. n - 1 /\ s \in 0 .. n - 1
      /\ a = n * x + r /\ t = n * y + s /\ n * x \in Int /\ n * y \in Int
  BY <1>2, <1>3, <1>4
<1>6. n * (y + 1 - x) = n * y + n - n * x
  BY <1>2, <1>5
<1>7. r - s = n * (y + 1 - x)
  BY <1>1, <1>2, <1>5, <1>6
<1>8. r - s < n /\ s - r < n
  BY <1>2, <1>5
<1>9. y + 1 - x < 1 /\ x - (y + 1) < 1
  BY <1>2, <1>5, <1>7, <1>8
<1>10. y + 1 = x
  BY <1>5, <1>9
<1>11. r = s
  BY <1>2, <1>5, <1>7, <1>10
<1> QED
  BY <1>1, <1>4, <1>11

\* Who waits still waits for the same cycle.
LEMMA SameWait ==
  ASSUME NEW d, NEW t \in Nat, d.due \in Nat, Wakes(d, t) # t
  PROVE  Wakes(d, t + 1) = Wakes(d, t)
<1>1. PICK e, u : e = d.due /\ u = QueueSize
  OBVIOUS
<1>2. e \in Nat /\ u \in Nat /\ u >= 1
  BY <1>1, QueueFacts
<1>3. CASE d.state = "posted"
  <2>1. Wakes(d, t) = (IF e - 1 >= t THEN e - 1 ELSE e - 1 + u) /\ Wakes(d, t + 1) = (IF e - 1 >= t + 1 THEN e - 1 ELSE e - 1 + u)
    BY <1>1, <1>3 DEF Wakes
  <2> QED BY <1>2, <2>1
<1>4. CASE d.state # "posted"
  BY <1>4 DEF Wakes
<1> QED
  BY <1>3, <1>4

LEMMA PendingNext ==
  ASSUME SchedulerIInv, NEW w, NEW outcome, NEW filled, NEW new, Moved(w, filled), Fates(new, w, outcome, filled)
  PROVE  /\ Pending(new) = {i \in Pending(inst) \cup Issued : Slots0[i] # now} \cup PostsOf(w, outcome)
         /\ \A i \in Pending(new) : Cycles(new, now + 1)[i] = Slots1(w)[i]
<1>1. now \in Nat /\ inst \in Seq(Insts)
  BY NowFacts DEF SchedulerIInv
<1>2. ToSet(w) = {i \in Pending(inst) : Wakes(inst[i], now) = now} /\ ToSet(w) \subseteq InFlight
  BY DEF Moved, Pending, InFlight
<1>3. \A i \in Issued : i \in InFlight /\ i \notin Pending(inst) /\ i \notin ToSet(w)
  BY <1>2 DEF Moved, Pending, State
<1>4. \A i \in Issued : Slots0[i] = now + Delay(i) /\ Slots0[i] # now
  <2> SUFFICES ASSUME NEW i \in Issued PROVE Slots0[i] = now + Delay(i) /\ Slots0[i] # now
    OBVIOUS
  <2>1. PICK x : x = Delay(i)
    OBVIOUS
  <2>2. x \in Nat /\ x >= 1
    BY <1>1, <1>3, <2>1, InstFacts
  <2>3. Slots0[i] = now + x
    BY <1>3, <2>1 DEF Slots0, Set0
  <2> QED BY <1>1, <2>1, <2>2, <2>3
<1>5. \A i \in Pending(inst) : i \in InFlight /\ i \notin Issued /\ Slots0[i] = Wakes(inst[i], now)
  BY <1>3 DEF Pending, InFlight, Slots0, Set0
<1>6. DOMAIN new = InFlight /\ \A i \in Pending(new) : i \in InFlight
  BY DEF Fates, Pending
<1>7. \A i \in ToSet(w) : i \in Pending(new) <=> outcome[i] = "posted"
  <2> SUFFICES ASSUME NEW i \in ToSet(w) PROVE i \in Pending(new) <=> outcome[i] = "posted"
    OBVIOUS
  <2>1. new[i].state = outcome[i] /\ outcome[i] \in {"complete", "elsewhere", "posted"} /\ i \in DOMAIN new
    BY <1>2, <1>6 DEF Fates, Outcomes
  <2>2. outcome[i] \in {"issued", "posted"} <=> outcome[i] = "posted"
    BY <2>1
  <2> QED BY <2>1, <2>2 DEF Pending
<1>8. \A i \in Issued : i \in Pending(new)
  BY <1>3, <1>6 DEF Fates, Pending
<1>9. \A i \in ToSet(filled) : i \in InFlight /\ i \notin Pending(new) /\ i \notin Pending(inst) /\ i \notin Issued
  BY DEF Fates, Pending, Moved, State
<1>10. \A i \in InFlight : i \notin ToSet(w) /\ i \notin Issued /\ i \notin ToSet(filled) =>
          new[i] = inst[i] /\ (i \in Pending(new) <=> i \in Pending(inst))
  BY <1>6 DEF Fates, Pending, InFlight
<1>11. Pending(new) = {i \in Pending(inst) \cup Issued : Slots0[i] # now} \cup PostsOf(w, outcome)
  <2>1. ASSUME NEW i \in Pending(new) PROVE i \in {j \in Pending(inst) \cup Issued : Slots0[j] # now} \cup PostsOf(w, outcome)
    BY <1>2, <1>4, <1>5, <1>6, <1>7, <1>9, <1>10, <2>1 DEF PostsOf
  <2>2. ASSUME NEW i \in PostsOf(w, outcome) PROVE i \in Pending(new)
    BY <1>7 DEF PostsOf
  <2>3. ASSUME NEW i \in Pending(inst) \cup Issued, Slots0[i] # now PROVE i \in Pending(new)
    BY <1>2, <1>5, <1>8, <1>9, <1>10, <2>3
  <2> QED BY <2>1, <2>2, <2>3
<1>12. ASSUME NEW i \in Pending(new)
       PROVE  Cycles(new, now + 1)[i] = Slots1(w)[i]
  <2>1. PICK e : e = new[i]
    OBVIOUS
  <2>2. Cycles(new, now + 1)[i] = Wakes(e, now + 1) /\ i \in InFlight
    BY <1>6, <2>1 DEF Cycles
  <2>3. CASE i \in ToSet(w)
    <3>1. Slots1(w)[i] = now + QueueSize
      BY <2>2, <2>3 DEF Slots1
    <3>2. outcome[i] = "posted"
      BY <1>7, <2>3
    <3>3. e.state = "posted" /\ e.due = now + 1
      BY <2>1, <2>3, <3>2 DEF Fates
    <3>4. e.due - 1 = now /\ ~ (e.due - 1 >= now + 1)
      BY <1>1, <3>3
    <3> QED BY <2>2, <3>1, <3>3, <3>4 DEF Wakes
  <2>4. CASE i \in Issued
    <3>1. i \notin ToSet(w) /\ Slots1(w)[i] = now + Delay(i)
      BY <1>3, <1>4, <2>2, <2>4 DEF Slots1
    <3>2. e.state = "issued" /\ e.due = now + Delay(i)
      BY <2>1, <2>4 DEF Fates
    <3>3. e.state # "posted"
      BY <3>2
    <3> QED BY <2>2, <3>1, <3>2, <3>3 DEF Wakes
  <2>5. CASE i \notin ToSet(w) /\ i \notin Issued
    <3>1. e = inst[i] /\ i \in Pending(inst)
      BY <1>9, <1>10, <2>1, <2>2, <2>5
    <3>2. Slots1(w)[i] = Wakes(e, now)
      BY <1>5, <2>2, <2>5, <3>1 DEF Slots1
    <3>3. Wakes(e, now) # now
      BY <1>2, <2>5, <3>1
    <3>4. e.due \in Nat
      BY <1>1, <2>2, <3>1, InstFacts
    <3>5. Wakes(e, now + 1) = Wakes(e, now)
      BY <1>1, <3>3, <3>4, SameWait
    <3> QED BY <2>2, <3>2, <3>5
  <2> QED BY <2>3, <2>4, <2>5
<1> QED
  BY <1>11, <1>12

LEMMA ExecuteLocates ==
  ASSUME SchedulerIInv, NEW q, NEW w, NEW d, NEW l, NEW outcome, NEW filled, Executes(q, w, d, l, outcome, filled)
  PROVE  Located(Both(ring', events'), Pending(inst'), Cycles(inst', now + 1), now + 1)
<1>1. now \in Nat /\ inst \in Seq(Insts)
  BY NowFacts DEF SchedulerIInv
<1>2. Moved(w, filled)
  BY ExecuteMoves
<1>3. PICK new : new = inst'
  OBVIOUS
<1>4. Fates(new, w, outcome, filled)
  BY <1>3, ExecuteFates
<1>5. /\ Pending(new) = {i \in Pending(inst) \cup Issued : Slots0[i] # now} \cup PostsOf(w, outcome)
      /\ \A i \in Pending(new) : Cycles(new, now + 1)[i] = Slots1(w)[i]
  BY <1>2, <1>4, PendingNext
<1>6. PICK X, Y, at, at1, s, u : /\ X = Pending(inst) \cup Issued /\ at = Slots0 /\ at1 = Slots1(w)
                                 /\ Y = {i \in X : at[i] # now}
                                 /\ s = now % QueueSize /\ u = Both(ring', events')
  OBVIOUS
<1>7. /\ q = QueuedAll(Both(ring, events), Without(LookedAt, InFlight \ Issued)) /\ d = Detached(q)
      /\ l = Without(w, {i \in ToSet(w) : outcome[i] # "posted"})
      /\ ring' = [d.ring EXCEPT ![s] = l] /\ events' = d.events
  BY <1>6 DEF Executes
<1>8. Located(q, X, at, now)
  BY <1>6, <1>7, QueuedNow
<1>9. Located(d, Y, at, now + 1) /\ d.ring[s] = <<>>
  BY <1>1, <1>6, <1>7, <1>8, DetachedKeeps
<1>10. ToSet(w) = {i \in Pending(inst) : Wakes(inst[i], now) = now} /\ ToSet(w) \subseteq InFlight
  BY <1>2 DEF Moved, Pending, InFlight
<1>11. \A i \in ToSet(w) : i \notin Y
  <2> SUFFICES ASSUME NEW i \in ToSet(w) PROVE at[i] = now
    BY <1>6
  <2>1. i \in InFlight /\ i \notin Issued /\ Wakes(inst[i], now) = now
    BY <1>2, <1>10 DEF Moved, Pending, State
  <2> QED BY <1>6, <2>1 DEF Slots0, Set0
<1>12. \A i \in Y : at1[i] = at[i]
  <2>1. \A i \in X : i \in InFlight
    BY <1>2, <1>6 DEF Pending, InFlight, Moved
  <2>2. \A i \in Y : i \in InFlight /\ i \notin ToSet(w)
    BY <1>6, <1>11, <2>1
  <2> QED BY <1>6, <2>2 DEF Slots1
<1>13. Located(d, Y, at1, now + 1)
  BY <1>9, <1>12, SameTimes
<1>14. l \in Seq(Nat) /\ Apart(l) /\ ToSet(l) = PostsOf(w, outcome)
  <2>1. w \in Seq(Nat) /\ Pairwise(w, Different(Nat))
    BY <1>2 DEF Moved, Apart
  <2>2. PICK gone : gone = {i \in ToSet(w) : outcome[i] # "posted"}
    OBVIOUS
  <2>3. l \in Seq(Nat) /\ ToSet(l) = ToSet(w) \ gone /\ Pairwise(l, Different(Nat))
    BY <1>7, <2>1, <2>2, WithoutKeeps
  <2> QED BY <2>2, <2>3 DEF Apart, PostsOf
<1>15. ToSet(l) \cap Y = {}
  BY <1>11, <1>14 DEF PostsOf
<1>16. \A i \in ToSet(l) : at1[i] \in Nat /\ at1[i] % QueueSize = s /\ now + 1 <= at1[i] /\ at1[i] < now + 1 + QueueSize
  <2> SUFFICES ASSUME NEW i \in ToSet(l)
               PROVE  at1[i] \in Nat /\ at1[i] % QueueSize = s /\ now + 1 <= at1[i] /\ at1[i] < now + 1 + QueueSize
    OBVIOUS
  <2>1. i \in ToSet(w) /\ i \in InFlight
    BY <1>10, <1>14 DEF PostsOf
  <2>2. at1[i] = now + QueueSize
    BY <1>6, <2>1 DEF Slots1
  <2>3. at1[i] % QueueSize = s
    BY <1>1, <1>6, <2>2, NextTurn
  <2> QED BY <1>1, <2>2, <2>3, QueueFacts
<1>17. s \in RingSlots
  BY <1>1, <1>6, SlotOf
<1>18. d = [ring |-> d.ring, events |-> d.events]
  BY <1>7 DEF Detached
<1>19. u = [d EXCEPT !.ring[s] = l]
  <2>1. u = [ring |-> [d.ring EXCEPT ![s] = l], events |-> d.events]
    BY <1>6, <1>7 DEF Both
  <2> QED BY <1>18, <2>1
<1>20. now + 1 \in Nat
  BY <1>1
<1>21. Located(u, Y \cup ToSet(l), at1, now + 1)
  BY <1>9, <1>13, <1>14, <1>15, <1>16, <1>17, <1>19, <1>20, PutBack
<1>22. Pending(new) = Y \cup ToSet(l)
  BY <1>5, <1>6, <1>14
<1>23. Located(u, Pending(new), at1, now + 1)
  BY <1>21, <1>22
<1>24. \A i \in Pending(new) : Cycles(new, now + 1)[i] = at1[i]
  BY <1>5, <1>6
<1>25. Located(u, Pending(new), Cycles(new, now + 1), now + 1)
  BY <1>23, <1>24, SameTimes
<1> QED
  BY <1>3, <1>6, <1>25

LEMMA ExecuteReadies ==
  ASSUME SchedulerIInv, NEW q, NEW w, NEW d, NEW l, NEW outcome, NEW filled, Executes(q, w, d, l, outcome, filled)
  PROVE  ReadyOK(inst', ready')
<1>1. inst \in Seq(Insts) /\ \A i \in InFlight : inst[i].priority \in Nat
  BY InstFacts DEF SchedulerIInv
<1>2. Moved(w, filled)
  BY ExecuteMoves
<1>3. PICK new, u, v : new = inst' /\ u = Without(ready, Issued) /\ v = ready'
  OBVIOUS
<1>4. Fates(new, w, outcome, filled)
  BY <1>3, ExecuteFates
<1>5. /\ ready \in Seq(InFlight) /\ ToSet(ready) = {i \in InFlight : State(i) = "ready"}
      /\ Pairwise(ready, Different(InFlight)) /\ Pairwise(ready, ByPriority(InFlight))
  BY ReadyArranged DEF Arranged
<1>6. /\ u \in Seq(InFlight) /\ ToSet(u) = ToSet(ready) \ Issued
      /\ Pairwise(u, Different(InFlight)) /\ Pairwise(u, ByPriority(InFlight))
  BY <1>3, <1>5, WithoutKeeps
<1>7. /\ filled \in Seq(InFlight) /\ Pairwise(filled, Different(InFlight))
      /\ ToSet(filled) \subseteq {i \in InFlight : State(i) = "waiting"}
  BY <1>2 DEF Moved
<1>8. ToSet(filled) \cap ToSet(u) = {}
  <2>1. \A i : ~ (State(i) = "waiting" /\ State(i) = "ready")
    OBVIOUS
  <2> QED BY <1>5, <1>6, <1>7, <2>1
<1>9. v = Scheduled(u, filled) /\ Arranged(u, InFlight)
  BY <1>3, <1>6 DEF Executes, Arranged
<1>10. v \in Seq(InFlight) /\ ToSet(v) = ToSet(u) \cup ToSet(filled) /\ Arranged(v, InFlight)
  BY <1>1, <1>6, <1>7, <1>8, <1>9, ScheduledKeeps
<1>11. v \in Seq(DOMAIN inst) /\ Pairwise(v, Different(DOMAIN inst)) /\ Pairwise(v, Rank(inst))
  BY <1>10, RankIs DEF Arranged, InFlight
<1>12. DOMAIN new = InFlight /\ \A i \in DOMAIN new : i \in DOMAIN inst => new[i].priority = inst[i].priority
  BY <1>4 DEF Fates
<1>13. ASSUME NEW i \in InFlight
       PROVE  i \in ToSet(v) <=> new[i].state = "ready"
  <2>1. CASE i \in ToSet(w)
    <3>1. new[i].state = outcome[i] /\ outcome[i] \in {"complete", "elsewhere", "posted"}
      BY <1>4, <2>1 DEF Fates, Outcomes
    <3>2. new[i].state # "ready"
      BY <3>1
    <3>3. State(i) \in {"issued", "posted"}
      BY <1>2, <2>1 DEF Moved, Pending, State
    <3>4. State(i) # "ready" /\ State(i) # "waiting"
      BY <3>3
    <3> QED BY <1>5, <1>6, <1>7, <1>10, <3>2, <3>4
  <2>2. CASE i \in Issued
    <3>1. new[i].state = "issued" /\ State(i) = "ready"
      BY <1>2, <1>4, <2>2 DEF Fates, Moved
    <3>2. new[i].state # "ready" /\ State(i) # "waiting"
      BY <3>1
    <3> QED BY <1>6, <1>7, <1>10, <2>2, <3>2
  <2>3. CASE i \in ToSet(filled)
    <3>1. new[i].state = "ready"
      BY <1>4, <2>3 DEF Fates
    <3> QED BY <1>10, <2>3, <3>1
  <2>4. CASE i \notin ToSet(w) /\ i \notin Issued /\ i \notin ToSet(filled)
    <3>1. new[i] = inst[i]
      BY <1>4, <2>4 DEF Fates
    <3> QED BY <1>5, <1>6, <1>10, <2>4, <3>1 DEF State
  <2> QED BY <2>1, <2>2, <2>3, <2>4
<1>14. ToSet(v) = {i \in DOMAIN new : new[i].state = "ready"}
  <2>1. ToSet(v) \subseteq InFlight
    BY <1>10, MemberOf
  <2> QED BY <1>12, <1>13, <2>1
<1> QED
  BY <1>3, <1>11, <1>12, <1>14, StaysReady

LEMMA ExecuteKeeps ==
  ASSUME SchedulerIInv, Execute
  PROVE  SchedulerIInv'
<1>1. PICK q, w, d, l, outcome, filled : Executes(q, w, d, l, outcome, filled)
  BY ExecuteIs
<1>2. now < LastCycle /\ now' = now + 1 /\ now \in 0 .. LastCycle
  BY <1>1 DEF Executes, SchedulerIInv
<1>3. now' \in 0 .. LastCycle
  BY <1>2, QueueFacts
<1>4. inst' \in Seq(Insts)
  BY <1>1, ExecuteFates DEF Fates
<1>5. ReadyOK(inst', ready')
  BY <1>1, ExecuteReadies
<1>6. Located(Both(ring', events'), Pending(inst'), Cycles(inst', now'), now')
  BY <1>1, <1>2, ExecuteLocates
<1> QED
  BY <1>3, <1>4, <1>5, <1>6 DEF SchedulerIInv

-----------------------------------------------------------------------------
(***************************************************************************)
(* The invariant holds.                                                    *)
(***************************************************************************)
LEMMA SchedulerNextKeeps == SchedulerIInv /\ [SchedulerNext]_schedulerVars => SchedulerIInv'
<1> SUFFICES ASSUME SchedulerIInv, [SchedulerNext]_schedulerVars PROVE SchedulerIInv'
  OBVIOUS
<1>1. ASSUME NEW type \in Types, DecodeInst(type) PROVE SchedulerIInv'
  BY <1>1, DecodeInstKeeps
<1>2. ASSUME NEW i \in InFlight, MakeReady(i) PROVE SchedulerIInv'
  BY <1>2, MakeReadyKeeps
<1>3. ASSUME NEW i \in InFlight, Resume(i) PROVE SchedulerIInv'
  BY <1>3, ResumeKeeps
<1>4. ASSUME NEW i \in InFlight, SquashFrom(i) PROVE SchedulerIInv'
  BY <1>4, SquashFromKeeps
<1>5. CASE Execute
  BY <1>5, ExecuteKeeps
<1>6. CASE UNCHANGED schedulerVars
  BY <1>6 DEF schedulerVars, SchedulerIInv
<1> QED
  BY <1>1, <1>2, <1>3, <1>4, <1>5, <1>6 DEF SchedulerNext

\* The list of the ready, the ring and the events hold the instructions that wait,
\* each in its one place: the invariant of the scheduler.
THEOREM SchedulerInvariant == SchedulerSpec => []SchedulerIInv
BY InitScheduler, SchedulerNextKeeps, PTL DEF SchedulerSpec

LEMMA OneIs ==
  ASSUME NEW A, \A a, b \in A : a = b
  PROVE  Cardinality(A) = IF A = {} THEN 0 ELSE 1
<1>1. CASE A = {}
  BY <1>1, FS_EmptySet
<1>2. CASE A # {}
  <2>1. PICK a : a \in A
    BY <1>2
  <2>2. A = {a}
    BY <2>1
  <2>3. Cardinality({a}) = 1
    BY FS_Singleton
  <2> QED BY <1>2, <2>2, <2>3
<1> QED
  BY <1>1, <1>2

LEMMA TimesIs ==
  ASSUME NEW S, NEW list \in Seq(S), Pairwise(list, Different(S)), NEW i
  PROVE  Times(i, list) = IF i \in ToSet(list) THEN 1 ELSE 0
<1>1. PICK A, n : A = {k \in DOMAIN list : list[k] = i} /\ n = Len(list)
  OBVIOUS
<1>2. n \in Nat /\ DOMAIN list = 1 .. n
  BY <1>1, LenProperties
<1>3. ASSUME NEW a \in A, NEW b \in A PROVE a = b
  <2>1. a \in 1 .. n /\ b \in 1 .. n /\ list[a] = i /\ list[b] = i
    BY <1>1, <1>2
  <2>2. ASSUME NEW k \in 1 .. n, NEW m \in 1 .. n, k < m PROVE list[k] # list[m]
    <3>1. <<list[k], list[m]>> \in Different(S)
      BY <1>2, <2>2 DEF Pairwise
    <3>2. PICK x, y : x = list[k] /\ y = list[m]
      OBVIOUS
    <3>3. <<x, y>> \in Different(S)
      BY <3>1, <3>2
    <3>4. x # y
      BY <3>3 DEF Different
    <3> QED BY <3>2, <3>4
  <2>3. ~ (a < b) /\ ~ (b < a)
    BY <2>1, <2>2
  <2> QED BY <1>2, <2>1, <2>3
<1>4. Cardinality(A) = IF A = {} THEN 0 ELSE 1
  BY <1>3, OneIs
<1>5. A = {} <=> i \notin ToSet(list)
  BY <1>1 DEF ToSet
<1> QED
  BY <1>1, <1>4, <1>5 DEF Times

LEMMA RingFacts ==
  ASSUME SchedulerIInv
  PROVE  /\ ring \in [RingSlots -> Seq(Nat)] /\ DOMAIN ring = RingSlots
         /\ \A s \in RingSlots : ring[s] \in Seq(Nat) /\ Apart(ring[s]) /\ ToSet(ring[s]) \subseteq Pending(inst)
         /\ \A s \in RingSlots : \A i \in ToSet(ring[s]) :
               /\ Cycles(inst, now)[i] % QueueSize = s /\ now <= Cycles(inst, now)[i]
<1>1. PICK q, X, at : q = Both(ring, events) /\ X = Pending(inst) /\ at = Cycles(inst, now)
  OBVIOUS
<1>2. Located(q, X, at, now)
  BY <1>1 DEF SchedulerIInv
<1>3. Shape(q, now) /\ InRing(q, X, at, now)
  BY <1>2 DEF Located
<1>4. q.ring = ring
  BY <1>1 DEF Both
<1>5. ring \in [RingSlots -> Seq(Nat)]
  BY <1>3, <1>4 DEF Shape, QueueTypes
<1>6. \A s \in RingSlots : ring[s] \in Seq(Nat) /\ Apart(ring[s]) /\ ToSet(ring[s]) \subseteq Pending(inst)
  BY <1>1, <1>3, <1>4, <1>5 DEF Shape, InRing
<1>7. \A s \in RingSlots : \A i \in ToSet(ring[s]) : at[i] % QueueSize = s /\ now <= at[i]
  BY <1>3, <1>4 DEF InRing
<1> QED
  BY <1>1, <1>5, <1>6, <1>7

LEMMA EventFacts ==
  ASSUME SchedulerIInv
  PROVE  /\ events \in Seq(Event) /\ Pairwise(events, Earlier) /\ Len(events) \in Nat /\ DOMAIN events = 1 .. Len(events)
         /\ \A n \in DOMAIN events :
               /\ events[n] \in Event /\ Apart(events[n].list) /\ events[n].cycle >= now
               /\ \A i \in ToSet(events[n].list) : i \in Pending(inst) /\ Cycles(inst, now)[i] = events[n].cycle
<1>1. PICK q, X, at : q = Both(ring, events) /\ X = Pending(inst) /\ at = Cycles(inst, now)
  OBVIOUS
<1>2. Located(q, X, at, now)
  BY <1>1 DEF SchedulerIInv
<1>3. Shape(q, now) /\ InEvents(q, X, at)
  BY <1>2 DEF Located
<1>4. q.events = events
  BY <1>1 DEF Both
<1>5. events \in Seq(Event) /\ Pairwise(events, Earlier)
  BY <1>3, <1>4 DEF Shape, QueueTypes
<1>6. \A n \in DOMAIN events : events[n] \in Event /\ events[n] \in ToSet(events)
  BY <1>5, MemberOf
<1>7. \A e \in ToSet(events) : Apart(e.list) /\ e.cycle >= now
  BY <1>3, <1>4 DEF Shape
<1>8. \A e \in ToSet(events) : \A i \in ToSet(e.list) : i \in X /\ at[i] = e.cycle
  BY <1>3, <1>4 DEF InEvents
<1> QED
  BY <1>1, <1>5, <1>6, <1>7, <1>8, LenProperties

LEMMA TypesOfInvariant == SchedulerIInv => SchedulerTypeOK
<1> SUFFICES ASSUME SchedulerIInv PROVE SchedulerTypeOK
  OBVIOUS
<1>1. now \in 0 .. LastCycle /\ inst \in Seq([type : Types, state : States, priority : 0 .. LastCycle, due : Nat])
  BY DEF SchedulerIInv, Insts
<1>2. ready \in Seq(InFlight)
  BY ReadyArranged
<1>3. Pending(inst) \subseteq InFlight
  BY DEF Pending, InFlight
<1>4. ring \in [0 .. QueueSize - 1 -> Seq(InFlight)]
  <2>1. ring \in [RingSlots -> Seq(Nat)]
    BY RingFacts
  <2>2. ASSUME NEW s \in RingSlots PROVE ring[s] \in Seq(InFlight)
    <3>1. ring[s] \in Seq(Nat) /\ ToSet(ring[s]) \subseteq InFlight
      BY <1>3, RingFacts
    <3> QED BY <3>1, SeqInto
  <2> QED BY <2>1, <2>2 DEF RingSlots
<1>5. events \in Seq([cycle : Nat, list : Seq(InFlight)])
  <2> DEFINE E == [cycle : Nat, list : Seq(InFlight)]
  <2>1. events \in Seq(Event)
    BY EventFacts
  <2>2. ASSUME NEW n \in DOMAIN events PROVE events[n] \in E
    <3>1. PICK e : e = events[n]
      OBVIOUS
    <3>2. e \in Event /\ \A i \in ToSet(e.list) : i \in InFlight
      BY <1>3, <3>1, EventFacts
    <3>3. e.list \in Seq(Nat) /\ ToSet(e.list) \subseteq InFlight
      BY <3>2 DEF Event
    <3>4. e.list \in Seq(InFlight)
      BY <3>3, SeqInto
    <3>5. e \in E
      BY <3>2, <3>4 DEF Event
    <3> QED BY <3>1, <3>5
  <2> HIDE DEF E
  <2>3. ToSet(events) \subseteq E
    BY <2>2 DEF ToSet
  <2>4. events \in Seq(E)
    BY <2>1, <2>3, SeqInto
  <2> QED BY <2>4 DEF E
<1> QED
  BY <1>1, <1>2, <1>4, <1>5 DEF SchedulerTypeOK

LEMMA OneQueue ==
  ASSUME SchedulerIInv, NEW i \in InFlight
  PROVE  Queues(i) = IF State(i) \in {"issued", "posted"} THEN 1 ELSE 0
<1>1. PICK A, B, at : /\ A = {s \in DOMAIN ring : Times(i, ring[s]) # 0}
                      /\ B = {n \in DOMAIN events : Times(i, events[n].list) # 0}
                      /\ at = Cycles(inst, now)
  OBVIOUS
<1>2. i \in Pending(inst) <=> State(i) \in {"issued", "posted"}
  BY DEF Pending, State, InFlight
<1>3. \A s : s \in A <=> s \in RingSlots /\ i \in ToSet(ring[s])
  <2>1. DOMAIN ring = RingSlots
    BY RingFacts
  <2>2. ASSUME NEW s \in RingSlots PROVE Times(i, ring[s]) # 0 <=> i \in ToSet(ring[s])
    <3>1. PICK l : l = ring[s]
      OBVIOUS
    <3>2. l \in Seq(Nat) /\ Pairwise(l, Different(Nat))
      BY <3>1, RingFacts DEF Apart
    <3>3. Times(i, l) = IF i \in ToSet(l) THEN 1 ELSE 0
      BY <3>2, TimesIs
    <3> QED BY <3>1, <3>3
  <2> QED BY <1>1, <2>1, <2>2
<1>4. \A n : n \in B <=> n \in DOMAIN events /\ i \in ToSet(events[n].list)
  <2>1. ASSUME NEW n \in DOMAIN events PROVE Times(i, events[n].list) # 0 <=> i \in ToSet(events[n].list)
    <3>1. PICK l : l = events[n].list
      OBVIOUS
    <3>2. l \in Seq(Nat) /\ Pairwise(l, Different(Nat))
      BY <3>1, EventFacts DEF Apart, Event
    <3>3. Times(i, l) = IF i \in ToSet(l) THEN 1 ELSE 0
      BY <3>2, TimesIs
    <3> QED BY <3>1, <3>3
  <2> QED BY <1>1, <2>1
<1>5. ASSUME NEW a \in A, NEW b \in A PROVE a = b
  <2>1. at[i] % QueueSize = a /\ at[i] % QueueSize = b
    BY <1>1, <1>3, RingFacts
  <2> QED BY <2>1
<1>6. ASSUME NEW a \in B, NEW b \in B PROVE a = b
  <2>1. a \in DOMAIN events /\ b \in DOMAIN events /\ events[a].cycle = at[i] /\ events[b].cycle = at[i]
    BY <1>1, <1>4, EventFacts
  <2>2. ASSUME NEW k \in DOMAIN events, NEW m \in DOMAIN events, k < m PROVE events[k].cycle # events[m].cycle
    <3>1. <<events[k], events[m]>> \in Earlier
      BY <2>2, EventFacts DEF Pairwise
    <3>2. PICK x, y : x = events[k] /\ y = events[m]
      OBVIOUS
    <3>3. <<x, y>> \in Earlier
      BY <3>1, <3>2
    <3>4. x.cycle < y.cycle /\ x.cycle \in Nat /\ y.cycle \in Nat
      BY <3>3 DEF Earlier, Event
    <3>5. x.cycle # y.cycle
      BY <3>4
    <3> QED BY <3>2, <3>5
  <2>3. ~ (a < b) /\ ~ (b < a)
    BY <2>1, <2>2
  <2>4. a \in Nat /\ b \in Nat
    BY <2>1, EventFacts
  <2> QED BY <2>3, <2>4
<1>7. Cardinality(A) = (IF A = {} THEN 0 ELSE 1) /\ Cardinality(B) = (IF B = {} THEN 0 ELSE 1)
  <2>1. Cardinality(A) = IF A = {} THEN 0 ELSE 1
    BY <1>5, OneIs
  <2>2. Cardinality(B) = IF B = {} THEN 0 ELSE 1
    BY <1>6, OneIs
  <2> QED BY <2>1, <2>2
<1>8. Queues(i) = Cardinality(A) + Cardinality(B)
  BY <1>1 DEF Queues
<1>9. PICK q : q = Both(ring, events)
  OBVIOUS
<1>10. q.ring = ring /\ q.events = events
  BY <1>9 DEF Both
<1>11. A # {} <=> RingHolds(q, i)
  BY <1>3, <1>10 DEF RingHolds
<1>12. B # {} <=> EventHolds(q, i)
  BY <1>4, <1>10 DEF EventHolds, ToSet
<1>13. Each(q, Pending(inst)) /\ InRing(q, Pending(inst), at, now) /\ InEvents(q, Pending(inst), at)
  BY <1>1, <1>9 DEF SchedulerIInv, Located
<1>14. CASE i \in Pending(inst)
  <2>1. (RingHolds(q, i) \/ EventHolds(q, i)) /\ ~ (RingHolds(q, i) /\ EventHolds(q, i))
    BY <1>13, <1>14 DEF Each
  <2> QED BY <1>2, <1>7, <1>8, <1>11, <1>12, <1>14, <2>1
<1>15. CASE i \notin Pending(inst)
  <2>1. ~ RingHolds(q, i) /\ ~ EventHolds(q, i)
    BY <1>13, <1>15 DEF RingHolds, EventHolds, InRing, InEvents
  <2> QED BY <1>2, <1>7, <1>8, <1>11, <1>12, <1>15, <2>1
<1> QED
  BY <1>14, <1>15

LEMMA InvariantConsistent == SchedulerIInv => ListsConsistent
<1> SUFFICES ASSUME SchedulerIInv PROVE ListsConsistent
  OBVIOUS
<1>1. SchedulerTypeOK
  BY TypesOfInvariant
<1>2. EachWaitsOnce
  <2> SUFFICES ASSUME NEW i \in InFlight
               PROVE  /\ Times(i, ready) = IF State(i) = "ready" THEN 1 ELSE 0
                      /\ Queues(i) = IF State(i) \in {"issued", "posted"} THEN 1 ELSE 0
                      /\ \A s \in DOMAIN ring : Times(i, ring[s]) <= 1
    BY DEF EachWaitsOnce
  <2>1. Times(i, ready) = IF State(i) = "ready" THEN 1 ELSE 0
    <3>1. ready \in Seq(InFlight) /\ Pairwise(ready, Different(InFlight))
          /\ ToSet(ready) = {j \in InFlight : State(j) = "ready"}
      BY ReadyArranged DEF Arranged
    <3>2. Times(i, ready) = IF i \in ToSet(ready) THEN 1 ELSE 0
      BY <3>1, TimesIs
    <3> QED BY <3>1, <3>2
  <2>2. Queues(i) = IF State(i) \in {"issued", "posted"} THEN 1 ELSE 0
    BY OneQueue
  <2>3. ASSUME NEW s \in DOMAIN ring PROVE Times(i, ring[s]) <= 1
    <3>1. PICK l : l = ring[s]
      OBVIOUS
    <3>2. l \in Seq(Nat) /\ Pairwise(l, Different(Nat))
      BY <3>1, RingFacts DEF Apart
    <3>3. Times(i, l) = IF i \in ToSet(l) THEN 1 ELSE 0
      BY <3>2, TimesIs
    <3> QED BY <3>1, <3>3
  <2> QED BY <2>1, <2>2, <2>3
<1>3. ReadyInDecodeOrder
  <2> SUFFICES ASSUME NEW m \in DOMAIN ready, NEW n \in DOMAIN ready, m < n
               PROVE  inst[ready[m]].priority <= inst[ready[n]].priority
    BY DEF ReadyInDecodeOrder
  <2>1. Pairwise(ready, ByPriority(InFlight))
    BY ReadyArranged DEF Arranged
  <2>2. PICK a, b : a = ready[m] /\ b = ready[n]
    OBVIOUS
  <2>3. <<a, b>> \in ByPriority(InFlight)
    BY <2>1, <2>2 DEF Pairwise
  <2> QED BY <2>2, <2>3 DEF ByPriority
<1>4. EventsInOrder
  <2> SUFFICES ASSUME NEW m \in DOMAIN events, NEW n \in DOMAIN events, m < n
               PROVE  events[m].cycle < events[n].cycle
    BY DEF EventsInOrder
  <2>1. PICK a, b : a = events[m] /\ b = events[n]
    OBVIOUS
  <2>2. <<a, b>> \in Earlier
    BY <2>1, EventFacts DEF Pairwise
  <2> QED BY <2>1, <2>2 DEF Earlier
<1> QED
  BY <1>1, <1>2, <1>3, <1>4 DEF ListsConsistent

\* The lists agree with the instructions and are in their orders (scheduler.C:96,
\* wait.C:94): each instruction is once in the list that its state says and in no
\* other, after any mixture of squashes, issues and wakeups.
THEOREM ListsAgree == SchedulerSpec => []ListsConsistent
BY SchedulerInvariant, InvariantConsistent, PTL

-----------------------------------------------------------------------------
(***************************************************************************)
(* When an instruction executes, and which goes first.                     *)
(***************************************************************************)
LEMMA WakesLater ==
  ASSUME SchedulerIInv, NEW i \in Pending(inst)
  PROVE  Wakes(inst[i], now) \in Nat /\ Wakes(inst[i], now) >= now
<1>1. PICK q, X, at : q = Both(ring, events) /\ X = Pending(inst) /\ at = Cycles(inst, now)
  OBVIOUS
<1>2. /\ InRing(q, X, at, now) /\ InEvents(q, X, at) /\ Shape(q, now) /\ Each(q, X)
      /\ \A j \in X : at[j] \in Nat
  BY <1>1 DEF SchedulerIInv, Located
<1>3. at[i] = Wakes(inst[i], now)
  BY <1>1 DEF Cycles, Pending
<1>4. at[i] >= now
  <2>1. CASE RingHolds(q, i)
    <3>1. now <= at[i]
      BY <1>2, <2>1 DEF RingHolds, InRing
    <3> QED BY <1>1, <1>2, <3>1, NowFacts DEF SchedulerIInv
  <2>2. CASE EventHolds(q, i)
    BY <1>2, <2>2 DEF EventHolds, InEvents, Shape
  <2> QED BY <1>1, <1>2, <2>1, <2>2 DEF Each
<1> QED
  BY <1>1, <1>2, <1>3, <1>4

\* What ExecutesWhenDue says of one instruction in one cycle.
InTime(i) ==
    /\ State(i) = "ready" => inst'[i].state \in {"ready", "issued"}
    /\ State(i) = "issued" => (inst'[i] # inst[i] <=> inst[i].due = now)
    /\ State(i) = "posted" /\ inst'[i] = inst[i] => now < inst[i].due + QueueSize - 1

LEMMA ExecuteInTime ==
  ASSUME SchedulerIInv, Execute, NEW i \in InFlight
  PROVE  InTime(i)
<1>1. PICK q, w, d, l, outcome, filled : Executes(q, w, d, l, outcome, filled)
  BY ExecuteIs
<1>2. PICK new : new = inst'
  OBVIOUS
<1>3. Moved(w, filled)
  BY <1>1, ExecuteMoves
<1>4. Fates(new, w, outcome, filled)
  BY <1>1, <1>2, ExecuteFates
<1>5. now \in Nat /\ inst[i].due \in Nat /\ QueueSize \in Nat /\ QueueSize >= 1
  BY NowFacts, InstFacts, QueueFacts DEF SchedulerIInv
<1>6. i \in Issued => State(i) = "ready"
  BY <1>3 DEF Moved
<1>7. i \in ToSet(filled) => State(i) = "waiting"
  BY <1>3 DEF Moved
<1>8. i \in ToSet(w) <=> State(i) \in {"issued", "posted"} /\ Wakes(inst[i], now) = now
  BY <1>3 DEF Moved, Pending, InFlight, State
<1>9. i \in ToSet(w) => new[i].state \in {"complete", "elsewhere", "posted"} /\ (new[i].state = "posted" => new[i].due = now + 1)
  BY <1>4 DEF Fates, Outcomes
<1>10. i \notin ToSet(w) /\ i \notin Issued /\ i \notin ToSet(filled) => new[i] = inst[i]
  BY <1>4 DEF Fates
<1>11. ASSUME State(i) = "ready" PROVE new[i].state \in {"ready", "issued"}
  <2>1. State(i) \notin {"issued", "posted"} /\ State(i) # "waiting"
    BY <1>11
  <2>2. i \notin ToSet(w) /\ i \notin ToSet(filled)
    BY <1>7, <1>8, <2>1
  <2>3. CASE i \in Issued
    BY <1>4, <2>3 DEF Fates
  <2>4. CASE i \notin Issued
    BY <1>10, <1>11, <2>2, <2>4 DEF State
  <2> QED BY <2>3, <2>4
<1>12. ASSUME State(i) = "issued" PROVE new[i] # inst[i] <=> inst[i].due = now
  <2>1. State(i) # "ready" /\ State(i) # "waiting" /\ State(i) # "posted"
    BY <1>12
  <2>2. i \notin Issued /\ i \notin ToSet(filled)
    BY <1>6, <1>7, <2>1
  <2>3. Wakes(inst[i], now) = inst[i].due
    BY <2>1 DEF Wakes, State
  <2>4. i \in ToSet(w) <=> inst[i].due = now
    BY <1>8, <1>12, <2>3
  <2>5. i \in ToSet(w) => new[i] # inst[i]
    <3>1. ASSUME i \in ToSet(w) PROVE new[i].state # "issued"
      BY <1>9, <3>1
    <3> QED BY <1>12, <3>1 DEF State
  <2> QED BY <1>10, <2>2, <2>4, <2>5
<1>13. ASSUME State(i) = "posted", new[i] = inst[i] PROVE now < inst[i].due + QueueSize - 1
  <2>1. State(i) # "ready" /\ State(i) # "waiting"
    BY <1>13
  <2>2. PICK e, u : e = inst[i].due /\ u = QueueSize
    OBVIOUS
  <2>3. CASE i \in ToSet(w)
    <3>1. new[i].state = "posted"
      BY <1>13 DEF State
    <3>2. e = now + 1
      BY <1>9, <1>13, <2>2, <2>3, <3>1
    <3> QED BY <1>5, <2>2, <3>2
  <2>4. CASE i \notin ToSet(w)
    <3>1. PICK x : x = Wakes(inst[i], now)
      OBVIOUS
    <3>2. x # now
      BY <1>8, <1>13, <2>4, <3>1
    <3>3. i \in Pending(inst)
      BY <1>13 DEF Pending, State, InFlight
    <3>4. x \in Nat /\ x >= now
      BY <3>1, <3>3, WakesLater
    <3>5. x = IF e - 1 >= now THEN e - 1 ELSE e - 1 + u
      BY <1>13, <2>2, <3>1 DEF Wakes, State
    <3> QED BY <1>5, <2>2, <3>2, <3>4, <3>5
  <2> QED BY <2>3, <2>4
<1> QED
  BY <1>2, <1>11, <1>12, <1>13 DEF InTime

LEMMA NextInTime ==
  ASSUME SchedulerIInv, [SchedulerNext]_schedulerVars, now' # now, NEW i \in InFlight
  PROVE  InTime(i)
<1>1. Execute
  <2>1. ASSUME NEW type \in Types, DecodeInst(type) PROVE FALSE
    BY <2>1 DEF DecodeInst
  <2>2. ASSUME NEW j \in InFlight, MakeReady(j) \/ Resume(j) \/ SquashFrom(j) PROVE FALSE
    BY <2>2 DEF MakeReady, Resume, SquashFrom
  <2>3. ~ UNCHANGED schedulerVars
    BY DEF schedulerVars
  <2> QED BY <2>1, <2>2, <2>3 DEF SchedulerNext
<1> QED
  BY <1>1, ExecuteInTime

\* What is issued executes when its latency is over, no sooner (scheduler.C:225) and
\* no later, through the ring or through the list of events; what posts itself for the
\* next cycle (pseq.C:3594) waits for a turn of the ring at most.
THEOREM InstructionsInTime == SchedulerSpec => ExecutesWhenDue
<1>1. SchedulerIInv /\ [SchedulerNext]_schedulerVars =>
         [now' # now =>
            \A i \in InFlight :
               /\ State(i) = "ready" => inst'[i].state \in {"ready", "issued"}
               /\ State(i) = "issued" => (inst'[i] # inst[i] <=> inst[i].due = now)
               /\ State(i) = "posted" /\ inst'[i] = inst[i] => now < inst[i].due + QueueSize - 1]_schedulerVars
  <2> SUFFICES ASSUME SchedulerIInv, [SchedulerNext]_schedulerVars, now' # now, NEW i \in InFlight
               PROVE  /\ State(i) = "ready" => inst'[i].state \in {"ready", "issued"}
                      /\ State(i) = "issued" => (inst'[i] # inst[i] <=> inst[i].due = now)
                      /\ State(i) = "posted" /\ inst'[i] = inst[i] => now < inst[i].due + QueueSize - 1
    OBVIOUS
  <2> QED BY NextInTime DEF InTime
<1> QED
  BY <1>1, SchedulerInvariant, PTL DEF SchedulerSpec, ExecutesWhenDue

\* Which of those looked at before m are for the unit of m.
Rivals(m) == {k \in 1 .. m - 1 : Unit(LookedAt[k]) = Unit(LookedAt[m])}

LEMMA StartsIssued ==
  ASSUME SchedulerIInv, [SchedulerNext]_schedulerVars, NEW i \in InFlight, Starts(i)
  PROVE  Execute /\ i \in Issued
<1>1. State(i) = "ready" /\ inst'[i].state = "issued" /\ i \in DOMAIN inst' /\ inst \in Seq(Insts) /\ inst[i] \in Insts
  BY InstFacts DEF Starts, SchedulerIInv
<1>2. PICK new : new = inst'
  OBVIOUS
<1>3. State(i) # "issued" /\ new[i].state # "ready" /\ State(i) # "waiting" /\ State(i) # "elsewhere" /\ State(i) # "posted"
  BY <1>1, <1>2
<1>4. new[i] # inst[i]
  BY <1>1, <1>2, <1>3 DEF State
<1>5. Len(inst) \in Nat /\ InFlight = 1 .. Len(inst)
  BY <1>1, InstFacts
<1>6. ASSUME NEW type \in Types, DecodeInst(type) PROVE FALSE
  <2>1. PICK e : e = [type |-> type, state |-> "waiting", priority |-> now, due |-> 0]
    OBVIOUS
  <2>2. new = Append(inst, e)
    BY <1>2, <1>6, <2>1 DEF DecodeInst
  <2>3. new[i] = inst[i]
    BY <1>1, <1>5, <2>2, AppendProperties
  <2> QED BY <1>4, <2>3
<1>7. ASSUME NEW j \in InFlight, MakeReady(j) PROVE FALSE
  <2>1. State(j) = "waiting" /\ new = [inst EXCEPT ![j].state = "ready"]
    BY <1>2, <1>7 DEF MakeReady
  <2>2. i # j
    BY <1>3, <2>1
  <2>3. new[i] = inst[i]
    BY <2>1, <2>2 DEF InFlight
  <2> QED BY <1>4, <2>3
<1>8. ASSUME NEW j \in InFlight, Resume(j) PROVE FALSE
  <2>1. State(j) = "elsewhere"
    BY <1>8 DEF Resume
  <2>2. i # j
    BY <1>3, <2>1
  <2>3. \/ new = [inst EXCEPT ![j].state = "complete"]
        \/ new = [inst EXCEPT ![j].state = "posted", ![j].due = now + 1]
    BY <1>2, <1>8 DEF Resume
  <2>4. new[i] = inst[i]
    BY <2>2, <2>3 DEF InFlight
  <2> QED BY <1>4, <2>4
<1>9. ASSUME NEW k \in InFlight, SquashFrom(k) PROVE FALSE
  <2>1. new = SubSeq(inst, 1, k - 1)
    BY <1>2, <1>9 DEF SquashFrom
  <2>2. k - 1 \in 0 .. Len(inst) /\ (k - 1) - 1 + 1 = k - 1 /\ k - 1 \in Int
    BY <1>5
  <2>3. \A j \in 1 .. k - 1 : inst[j] \in Insts
    <3>1. \A j \in 1 .. k - 1 : j \in InFlight
      BY <1>5, <2>2
    <3> QED BY <1>1, <3>1, InstFacts
  <2>4. /\ new \in Seq(Insts) /\ Len(new) = IF 1 <= k - 1 THEN (k - 1) - 1 + 1 ELSE 0
        /\ \A j \in 1 .. (k - 1) - 1 + 1 : new[j] = inst[1 + j - 1]
    BY <2>1, <2>2, <2>3, SubSeqProperties
  <2>5. Len(new) = k - 1
    BY <2>2, <2>4
  <2>6. i \in 1 .. k - 1
    BY <1>1, <1>2, <2>4, <2>5, LenProperties
  <2>7. 1 + i - 1 = i
    BY <2>2, <2>6
  <2>8. new[i] = inst[i]
    BY <2>2, <2>4, <2>6, <2>7
  <2> QED BY <1>4, <2>8
<1>10. ~ UNCHANGED schedulerVars
  BY <1>2, <1>4 DEF schedulerVars
<1>11. Execute
  BY <1>6, <1>7, <1>8, <1>9, <1>10 DEF SchedulerNext
<1>12. PICK q, w, d, l, outcome, filled : Executes(q, w, d, l, outcome, filled)
  BY <1>11, ExecuteIs
<1>13. Moved(w, filled) /\ Fates(new, w, outcome, filled)
  BY <1>2, <1>12, ExecuteMoves, ExecuteFates
<1>14. i \notin ToSet(w)
  BY <1>3, <1>13 DEF Moved, Pending, State
<1>15. i \notin ToSet(filled)
  BY <1>3, <1>13 DEF Moved
<1>16. i \in Issued
  BY <1>4, <1>13, <1>14, <1>15 DEF Fates
<1> QED
  BY <1>11, <1>16

\* Those of Issued start.
LEMMA IssuedStart ==
  ASSUME SchedulerIInv, Execute, NEW i \in Issued
  PROVE  Starts(i)
<1>1. PICK q, w, d, l, outcome, filled : Executes(q, w, d, l, outcome, filled)
  BY ExecuteIs
<1>2. PICK new : new = inst'
  OBVIOUS
<1>3. Moved(w, filled) /\ Fates(new, w, outcome, filled)
  BY <1>1, <1>2, ExecuteMoves, ExecuteFates
<1> QED
  BY <1>2, <1>3 DEF Fates, Moved, Starts

\* Whoever is ready for the same unit and was decoded earlier is issued too.
LEMMA OlderIssued ==
  ASSUME SchedulerIInv, NEW i \in Issued, NEW j \in InFlight, State(j) = "ready", Unit(j) = Unit(i),
         inst[j].priority < inst[i].priority
  PROVE  j \in Issued
<1>1. inst \in Seq(Insts) /\ i \in InFlight /\ State(i) = "ready"
  BY IssuedAre DEF SchedulerIInv
<1>2. inst[i].priority \in Nat /\ inst[j].priority \in Nat /\ inst[i] \in Insts
  BY <1>1, InstFacts
<1>3. PICK n, k, look : n = Len(ready) /\ k = Looked /\ look = LookedAt
  OBVIOUS
<1>4. /\ k \in Nat /\ k <= n /\ n \in Nat /\ DOMAIN ready = 1 .. n /\ DOMAIN look = 1 .. k
      /\ \A m \in 1 .. k : m \in DOMAIN ready /\ look[m] = ready[m]
  BY <1>3, LookedAtIs
<1>5. PICK m \in 1 .. k : /\ look[m] = i
                          /\ Cardinality(Rivals(m)) < NumAlus[Unit(look[m])]
  BY <1>3, <1>4 DEF Issued, Rivals
<1>6. PICK p \in DOMAIN ready : ready[p] = j
  <2>1. j \in ToSet(ready)
    BY ReadyArranged
  <2> QED BY <2>1 DEF ToSet
<1>7. p < m
  <2>1. ready[m] = i /\ m \in 1 .. n /\ p \in 1 .. n
    BY <1>4, <1>5, <1>6
  <2>2. m # p
    BY <1>2, <1>6, <2>1
  <2>3. ~ (m < p)
    <3>1. ASSUME m < p PROVE inst[i].priority <= inst[j].priority
      <4>1. Pairwise(ready, ByPriority(InFlight))
        BY ReadyArranged DEF Arranged
      <4>2. <<ready[m], ready[p]>> \in ByPriority(InFlight)
        BY <1>4, <2>1, <3>1, <4>1 DEF Pairwise
      <4>3. <<i, j>> \in ByPriority(InFlight)
        BY <1>6, <2>1, <4>2
      <4> QED BY <4>3 DEF ByPriority
    <3> QED BY <1>2, <3>1
  <2> QED BY <1>4, <2>1, <2>2, <2>3
<1>8. p \in 1 .. k /\ look[p] = j
  BY <1>4, <1>5, <1>6, <1>7
<1>9. Rivals(p) \subseteq Rivals(m)
  <2>1. Unit(look[p]) = Unit(look[m])
    BY <1>5, <1>8
  <2>2. 1 .. p - 1 \subseteq 1 .. m - 1
    BY <1>4, <1>5, <1>7, <1>8
  <2> QED BY <1>3, <2>1, <2>2 DEF Rivals
<1>10. IsFiniteSet(Rivals(m))
  <2>1. IsFiniteSet(1 .. m - 1)
    BY <1>4, <1>5, FS_Interval
  <2>2. Rivals(m) \subseteq 1 .. m - 1
    BY DEF Rivals
  <2> QED BY <2>1, <2>2, FS_Subset
<1>11. PICK x, y : x = Cardinality(Rivals(p)) /\ y = Cardinality(Rivals(m))
  OBVIOUS
<1>12. x \in Nat /\ y \in Nat /\ x <= y
  <2>1. IsFiniteSet(Rivals(p)) /\ Cardinality(Rivals(p)) <= Cardinality(Rivals(m))
    BY <1>9, <1>10, FS_Subset
  <2> QED BY <1>10, <1>11, <2>1, FS_CardinalityType
<1>13. NumAlus[Unit(look[m])] \in Nat /\ NumAlus[Unit(look[p])] = NumAlus[Unit(look[m])]
  <2>1. inst[i].type \in Types
    BY <1>2 DEF Insts
  <2>2. Unit(i) \in Units
    BY <2>1, SchedulerAssumption DEF Unit
  <2>3. NumAlus[Unit(i)] \in Nat
    BY <2>2, SchedulerAssumption
  <2> QED BY <1>5, <1>8, <2>3
<1>14. x < NumAlus[Unit(look[p])]
  BY <1>5, <1>11, <1>12, <1>13
<1>15. Cardinality({h \in 1 .. p - 1 : Unit(LookedAt[h]) = Unit(LookedAt[p])}) < NumAlus[Unit(LookedAt[p])]
  BY <1>3, <1>11, <1>14 DEF Rivals
<1>16. p \in {h \in DOMAIN LookedAt :
              Cardinality({g \in 1 .. h - 1 : Unit(LookedAt[g]) = Unit(LookedAt[h])}) < NumAlus[Unit(LookedAt[h])]}
  BY <1>3, <1>4, <1>8, <1>15
<1> QED
  BY <1>3, <1>8, <1>16 DEF Issued

\* No instruction starts while one decoded in an earlier cycle is ready for the same
\* unit and is left behind (Execute walks the ordered list from its head).
THEOREM OldestGoFirst == SchedulerSpec => OldestFirst
<1>1. SchedulerIInv /\ [SchedulerNext]_schedulerVars =>
         [\A i, j \in InFlight :
            Starts(i) /\ State(j) = "ready" /\ Unit(j) = Unit(i) /\ inst[j].priority < inst[i].priority => Starts(j)]_schedulerVars
  <2> SUFFICES ASSUME SchedulerIInv, [SchedulerNext]_schedulerVars, NEW i \in InFlight, NEW j \in InFlight, Starts(i),
                      State(j) = "ready", Unit(j) = Unit(i), inst[j].priority < inst[i].priority
               PROVE  Starts(j)
    OBVIOUS
  <2>1. Execute /\ i \in Issued
    BY StartsIssued
  <2>2. j \in Issued
    BY <2>1, OlderIssued
  <2> QED BY <2>1, <2>2, IssuedStart
<1> QED
  BY <1>1, SchedulerInvariant, PTL DEF SchedulerSpec, OldestFirst

=============================================================================
