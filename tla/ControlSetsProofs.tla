------------------------- MODULE ControlSetsProofs -------------------------
(***************************************************************************)
(* Proofs about ControlSets for every number of sets, window size and set  *)
(* of operations: the types, the order of the ring, the ready flags, and   *)
(* that the ring of sets implements the one file of ControlFile.           *)
(***************************************************************************)
EXTENDS ControlSets, FiniteSetsExt, SequenceTheorems, WellFoundedInduction, TLAPS

-----------------------------------------------------------------------------
(***************************************************************************)
(* Numbers and finite sets of them.                                        *)
(***************************************************************************)

\* A non-empty set of positive numbers with a bound has a maximum, and Max is it.
LEMMA MaxExists ==
  ASSUME NEW S, NEW n \in Nat, S \subseteq 1 .. n, S # {}
  PROVE  /\ Max(S) \in S
         /\ \A y \in S : y <= Max(S)
<1> DEFINE R == OpToRel(<, Nat)
           T == {m \in Nat : n - m \in S}
<1>1. IsWellFoundedOn(R, Nat)
  BY NatLessThanWellFounded
<1>2. T \subseteq Nat /\ T # {}
  <2>1. PICK s \in S : TRUE
    OBVIOUS
  <2>2. n - s \in Nat /\ n - (n - s) = s
    BY <2>1
  <2> QED BY <2>1, <2>2
<1>3. \A x, y \in Nat : x < y => <<x, y>> \in R
  BY DEF OpToRel
<1>4. PICK x \in T : \A y \in T : ~(<<y, x>> \in R)
  <2> HIDE DEF R, T
  <2> QED BY <1>1, <1>2, WFMin
<1>5. n - x \in S /\ \A y \in S : y <= n - x
  <2> SUFFICES ASSUME NEW y \in S PROVE y <= n - x
    BY <1>4
  <2>1. n - y \in T
    <3>1. n - y \in Nat /\ n - (n - y) = y
      OBVIOUS
    <3> QED BY <3>1
  <2>2. ~(n - y < x)
    BY <2>1, <1>4, <1>3
  <2> QED BY <2>2
<1> QED BY <1>5 DEF Max

\* A set of positive numbers has a least element.
LEMMA LeastExists ==
  ASSUME NEW S, NEW n \in Nat, S \subseteq 1 .. n, S # {}
  PROVE  \E x \in S : \A y \in S : x <= y
<1> DEFINE R == OpToRel(<, Nat)
<1>1. IsWellFoundedOn(R, Nat)
  BY NatLessThanWellFounded
<1>2. \A x, y \in Nat : x < y => <<x, y>> \in R
  BY DEF OpToRel
<1>3. S \subseteq Nat
  OBVIOUS
<1>4. PICK x \in S : \A y \in S : ~ (<<y, x>> \in R)
  <2> HIDE DEF R
  <2> QED BY <1>1, <1>3, WFMin
<1>5. ASSUME NEW y \in S PROVE x <= y
  <2>1. x \in Nat /\ y \in Nat
    OBVIOUS
  <2>2. ~ (y < x)
    BY <1>2, <1>4, <2>1
  <2> QED
    BY <2>1, <2>2
<1> QED
  BY <1>5

-----------------------------------------------------------------------------
(***************************************************************************)
(* The ring of sets and the window.                                        *)
(***************************************************************************)

\* The next set is a set, the set before it is the one it came from.
LEMMA SuccFacts ==
  ASSUME NEW s \in Sets
  PROVE  /\ Succ(s) \in Sets /\ Succ(s) # s /\ Pred(Succ(s)) = s
         /\ \A t \in Sets : Succ(t) = Succ(s) => t = s
<1>1. NumSets \in Nat /\ NumSets >= 2
  BY SetsAssumption
<1>2. \A t \in Sets : Succ(t) = IF t = NumSets - 1 THEN 0 ELSE t + 1
  <2> SUFFICES ASSUME NEW t \in Sets
               PROVE  Succ(t) = IF t = NumSets - 1 THEN 0 ELSE t + 1
    OBVIOUS
  <2>1. CASE t = NumSets - 1
    <3>1. NumSets % NumSets = 0
      BY <1>1
    <3> QED BY <1>1, <2>1, <3>1 DEF Succ, Sets
  <2>2. CASE t # NumSets - 1
    BY <1>1, <2>2 DEF Succ, Sets
  <2> QED BY <2>1, <2>2
<1>3. Pred(0) = NumSets - 1
  BY <1>1 DEF Pred
<1>4. \A t \in Sets : t # 0 => Pred(t) = t - 1
  BY <1>1 DEF Pred, Sets
<1> QED BY <1>1, <1>2, <1>3, <1>4 DEF Sets

LEMMA SetsFacts == 0 \in Sets /\ Sets # {}
BY SetsAssumption DEF Sets

\* An instruction of the window has the fields Decode gave it.
LEMMA WindowFacts ==
  ASSUME TypeOK, NEW i \in DOMAIN window
  PROVE  /\ i \in 1 .. Len(window) /\ i \in Nat /\ Len(window) \in Nat
         /\ window[i] \in Instruction /\ window[i].op \in Ops
         /\ window[i].op.reg \in Regs /\ window[i].op.val \in Values
         /\ window[i].source \in Sets /\ window[i].dest \in Sets
         /\ window[i].done \in BOOLEAN /\ window[i].got \subseteq Values
<1>1. window \in Seq(Instruction)
  BY DEF TypeOK
<1>2. i \in 1 .. Len(window) /\ Len(window) \in Nat /\ window[i] \in Instruction
  BY <1>1, LenProperties, ElementOfSeq
<1> QED BY <1>2, OpsAssumption DEF Instruction

\* What Append, Tail and SubSeq leave of a window.
LEMMA AppendFacts ==
  ASSUME NEW q \in Seq(Instruction), NEW d \in Instruction
  PROVE  /\ Append(q, d) \in Seq(Instruction) /\ Len(Append(q, d)) = Len(q) + 1
         /\ Len(q) \in Nat
         /\ \A i \in 1 .. Len(q) : Append(q, d)[i] = q[i]
         /\ Append(q, d)[Len(q) + 1] = d
BY AppendProperties, LenProperties

LEMMA TailFacts ==
  ASSUME NEW q \in Seq(Instruction), q # <<>>
  PROVE  /\ Tail(q) \in Seq(Instruction) /\ Len(Tail(q)) = Len(q) - 1
         /\ Len(q) \in Nat /\ Len(q) >= 1 /\ Head(q) = q[1] /\ 1 \in DOMAIN q
         /\ \A i \in 1 .. Len(q) - 1 : Tail(q)[i] = q[i + 1]
<1>1. Len(q) \in Nat /\ Len(q) >= 1 /\ DOMAIN q = 1 .. Len(q)
  BY LenProperties, EmptySeq
<1>2. Head(q) = q[1]
  BY HeadTailProperties
<1> QED BY <1>1, <1>2, HeadTailProperties

LEMMA CutFacts ==
  ASSUME NEW q \in Seq(Instruction), q # <<>>
  PROVE  /\ SubSeq(q, 1, Len(q) - 1) \in Seq(Instruction)
         /\ Len(SubSeq(q, 1, Len(q) - 1)) = Len(q) - 1
         /\ Len(q) \in Nat /\ Len(q) >= 1 /\ Len(q) \in DOMAIN q
         /\ \A i \in 1 .. Len(q) - 1 : SubSeq(q, 1, Len(q) - 1)[i] = q[i]
<1>1. Len(q) \in Nat /\ Len(q) >= 1 /\ DOMAIN q = 1 .. Len(q)
  BY LenProperties, EmptySeq
<1> QED BY <1>1, SubSeqProperties

-----------------------------------------------------------------------------
(***************************************************************************)
(* The inductive invariant.                                                *)
(***************************************************************************)

\* A set an instruction leaves current is the architected one or was taken by
\* a write no younger than it.
DestOwned ==
    \A k \in DOMAIN window :
        \/ window[k].dest = retireSet
        \/ \E w \in 1 .. k : Renames(window[w].op) /\ window[w].dest = window[k].dest

\* An instruction executes after all older ones have filled their sets.
DoneInOrder ==
    \A i \in DOMAIN window : window[i].done =>
        \A j \in 1 .. i - 1 : Renames(window[j].op) => Written(window[j])

Inv ==
    /\ TypeOK
    /\ RingInProgramOrder
    /\ ReadyTracksWriter
    /\ DestOwned
    /\ DoneInOrder

\* The set that is current at any place is a set.
LEMMA CurrentAfterType ==
  ASSUME TypeOK, NEW k \in 0 .. Len(window)
  PROVE  CurrentAfter(k) \in Sets
<1>1. CASE k = 0
  BY <1>1 DEF CurrentAfter, TypeOK
<1>2. CASE k # 0
  <2>1. k \in DOMAIN window
    BY <1>2, LenProperties DEF TypeOK
  <2> QED BY <1>2, <2>1, WindowFacts DEF CurrentAfter
<1> QED BY <1>1, <1>2

\* If the source of an instruction is ready, the older ones have filled their
\* sets.
LEMMA OlderWritesDone ==
  ASSUME Inv, NEW i \in DOMAIN window, isReady[window[i].source],
         NEW j \in 1 .. i - 1, Renames(window[j].op)
  PROVE  Written(window[j])
<1> USE DEF Inv
<1>1. /\ i \in 1 .. Len(window) /\ Len(window) \in Nat
      /\ j \in DOMAIN window /\ i - 1 \in DOMAIN window
      /\ DOMAIN window = 1 .. Len(window)
  BY LenProperties DEF TypeOK
<1>2. window[i].source = window[i - 1].dest /\ window[i].source \in Sets
  BY <1>1, WindowFacts DEF RingInProgramOrder, CurrentAfter
<1>3. window[i - 1].dest # retireSet
  BY <1>1 DEF RingInProgramOrder, CurrentAfter
<1>4. PICK w \in DOMAIN window : Written(window[w]) /\ window[w].dest = window[i - 1].dest
  BY <1>2, <1>3 DEF ReadyTracksWriter
<1>10. Renames(window[w].op) /\ window[w].done
  BY <1>4 DEF Written, Renames
<1>5. w \in 1 .. Len(window)
  BY <1>1
<1>6. CASE w < j
  <2>1. window[i - 1].dest # CurrentAfter(w)
    BY <1>1, <1>5, <1>6 DEF RingInProgramOrder
  <2> QED BY <1>4, <1>5, <2>1 DEF CurrentAfter
<1>7. CASE w = j
  BY <1>4, <1>7
<1>8. CASE w > j /\ w <= i - 1
  BY <1>1, <1>5, <1>8, <1>10 DEF DoneInOrder
<1>9. CASE w > i - 1
  <2>1. window[w].dest # CurrentAfter(i - 1)
    BY <1>1, <1>5, <1>9, <1>10 DEF RingInProgramOrder
  <2> QED BY <1>1, <1>4, <2>1 DEF CurrentAfter
<1> QED BY <1>1, <1>5, <1>6, <1>7, <1>8, <1>9

LEMMA InitInv ==
  ASSUME Init PROVE Inv
<1>1. window = <<>> /\ Len(window) = 0 /\ DOMAIN window = {}
  BY EmptySeq DEF Init
<1>2. TypeOK
  BY <1>1, SetsFacts, OpsAssumption, EmptySeq DEF Init, TypeOK
<1>3. RingInProgramOrder
  BY <1>1 DEF Init, RingInProgramOrder, CurrentAfter
<1>4. ReadyTracksWriter
  BY <1>1, SetsFacts DEF Init, ReadyTracksWriter
<1>5. DestOwned /\ DoneInOrder
  BY <1>1 DEF DestOwned, DoneInOrder
<1> QED BY <1>2, <1>3, <1>4, <1>5 DEF Inv

\* Decode takes a set that nothing in flight uses.
LEMMA DecodeInv ==
  ASSUME Inv, NEW op \in Ops, Decode(op)
  PROVE  Inv'
<1> DEFINE n == Len(window)
           dest == IF Renames(op) THEN Succ(decodeSet) ELSE decodeSet
           d == [op |-> op, source |-> decodeSet, dest |-> dest,
                 done |-> FALSE, got |-> {}]
<1> USE DEF Inv
<1>1. /\ window' = Append(window, d) /\ decodeSet' = dest
      /\ isReady' = IF Renames(op) THEN [isReady EXCEPT ![dest] = FALSE] ELSE isReady
      /\ retireSet' = retireSet /\ contents' = contents /\ simics' = simics
      /\ n < RobSize /\ Succ(decodeSet) # retireSet
  BY DEF Decode, RegsAvailable
<1>2. /\ decodeSet \in Sets /\ dest \in Sets /\ d \in Instruction
      /\ window \in Seq(Instruction) /\ n \in Nat /\ DOMAIN window = 1 .. n
  BY SuccFacts, LenProperties DEF TypeOK, Instruction
<1>3. /\ window' \in Seq(Instruction) /\ Len(window') = n + 1
      /\ DOMAIN window' = 1 .. n + 1
      /\ \A i \in 1 .. n : window'[i] = window[i]
      /\ window'[n + 1] = d
  BY <1>1, <1>2, AppendFacts, LenProperties
<1>4. /\ d.op = op /\ d.source = decodeSet /\ d.dest = dest /\ d.done = FALSE
      /\ d.got = {}
  OBVIOUS
<1>5. \A k \in 0 .. n : CurrentAfter(k)' = CurrentAfter(k)
  BY <1>1, <1>2, <1>3 DEF CurrentAfter
<1>6. CurrentAfter(n) = decodeSet
  BY <1>2 DEF RingInProgramOrder
<1>7. ASSUME Renames(op), NEW k \in 0 .. n PROVE dest # CurrentAfter(k)
  <2>0. dest = Succ(decodeSet) /\ dest # retireSet
    BY <1>1, <1>7
  <2>1. CASE CurrentAfter(k) = retireSet
    BY <2>0, <2>1
  <2>2. CASE CurrentAfter(k) # retireSet
    <3>1. k \in DOMAIN window /\ CurrentAfter(k) = window[k].dest
      BY <1>2, <2>2 DEF CurrentAfter
    <3>2. PICK w \in 1 .. k : Renames(window[w].op) /\ window[w].dest = window[k].dest
      BY <2>2, <3>1 DEF DestOwned
    <3>3. w \in DOMAIN window /\ w - 1 \in 0 .. w - 1 /\ n \in w .. n /\ w \in 1 .. n
      BY <1>2, <3>1
    <3>4. window[w].dest = Succ(CurrentAfter(w - 1)) /\ CurrentAfter(w - 1) \in Sets
      BY <3>2, <3>3, CurrentAfterType, <1>2 DEF RingInProgramOrder
    <3>5. window[n].dest # CurrentAfter(w - 1)
      BY <1>2, <3>2, <3>3 DEF RingInProgramOrder
    <3>6. CurrentAfter(n) = window[n].dest
      BY <1>2, <3>3 DEF CurrentAfter
    <3> QED BY <1>2, <1>6, <2>0, <3>1, <3>2, <3>4, <3>5, <3>6, SuccFacts
  <2> QED BY <2>1, <2>2
<1> HIDE DEF d, dest, n
<1>8. TypeOK'
  <2>1. isReady' \in [Sets -> BOOLEAN]
    BY <1>1 DEF TypeOK
  <2>2. Len(window') <= RobSize
    BY <1>1, <1>2, <1>3, OpsAssumption
  <2> QED BY <1>1, <1>2, <1>3, <2>1, <2>2 DEF TypeOK
<1>9. RingInProgramOrder'
  <2>1. decodeSet' = CurrentAfter(Len(window))'
    BY <1>1, <1>2, <1>3, <1>4 DEF CurrentAfter
  <2>2. ASSUME NEW i \in 1 .. n + 1
        PROVE  /\ window'[i].source = CurrentAfter(i - 1)'
               /\ window'[i].dest = IF Renames(window'[i].op) THEN Succ(window'[i].source)
                                    ELSE window'[i].source
    <3>1. CASE i \in 1 .. n
      BY <1>2, <1>3, <1>5, <3>1 DEF RingInProgramOrder
    <3>2. CASE i = n + 1
      BY <1>2, <1>3, <1>4, <1>5, <1>6, <3>2 DEF dest
    <3> QED BY <1>2, <3>1, <3>2
  <2>3. ASSUME NEW i \in 1 .. n + 1, Renames(window'[i].op),
               NEW j \in i .. n + 1, NEW k \in 0 .. i - 1
        PROVE  window'[j].dest # CurrentAfter(k)'
    <3>0. k \in 0 .. n /\ CurrentAfter(k)' = CurrentAfter(k)
      BY <1>2, <1>5
    <3>1. CASE j \in 1 .. n
      BY <1>2, <1>3, <2>3, <3>0, <3>1 DEF RingInProgramOrder
    <3>2. CASE j = n + 1 /\ Renames(op)
      BY <1>3, <1>4, <1>7, <3>0, <3>2
    <3>3. CASE j = n + 1 /\ ~Renames(op)
      <4>1. i \in 1 .. n /\ window'[i] = window[i]
        BY <1>2, <1>3, <1>4, <2>3, <3>3
      <4>2. window[n].dest # CurrentAfter(k)
        BY <1>2, <2>3, <4>1 DEF RingInProgramOrder
      <4>3. window'[j].dest = window[n].dest
        BY <1>2, <1>3, <1>4, <1>6, <3>3, <4>1 DEF CurrentAfter, dest
      <4> QED BY <3>0, <4>2, <4>3
    <3> QED BY <1>2, <3>1, <3>2, <3>3
  <2> QED BY <1>3, <2>1, <2>2, <2>3 DEF RingInProgramOrder
<1>10. ReadyTracksWriter'
  <2> SUFFICES ASSUME NEW s \in Sets
               PROVE  isReady'[s] <=>
                        \/ s = retireSet'
                        \/ \E i \in DOMAIN window' :
                              Written(window'[i]) /\ window'[i].dest = s
    BY DEF ReadyTracksWriter
  <2>1. (\E i \in DOMAIN window' : Written(window'[i]) /\ window'[i].dest = s)
        <=> \E i \in DOMAIN window : Written(window[i]) /\ window[i].dest = s
    BY <1>2, <1>3, <1>4 DEF Written
  <2>2. CASE ~Renames(op) \/ s # dest
    <3>1. isReady'[s] = isReady[s]
      BY <1>1, <2>2 DEF TypeOK
    <3> QED BY <1>1, <2>1, <3>1 DEF ReadyTracksWriter
  <2>3. CASE Renames(op) /\ s = dest
    <3>1. ~isReady'[s]
      BY <1>1, <2>3 DEF TypeOK
    <3>2. s # retireSet /\ \A i \in DOMAIN window : window[i].dest # s
      <4>1. CurrentAfter(0) = retireSet
        BY DEF CurrentAfter
      <4>2. \A i \in 1 .. n : CurrentAfter(i) = window[i].dest
        BY <1>2 DEF CurrentAfter
      <4> QED BY <1>2, <1>7, <2>3, <4>1, <4>2
    <3> QED BY <1>1, <2>1, <3>1, <3>2
  <2> QED BY <2>2, <2>3
<1>11. DestOwned'
  <2> SUFFICES ASSUME NEW k \in 1 .. n + 1
               PROVE  \/ window'[k].dest = retireSet'
                      \/ \E w \in 1 .. k : /\ Renames(window'[w].op)
                                           /\ window'[w].dest = window'[k].dest
    BY <1>3 DEF DestOwned
  <2>1. CASE k \in 1 .. n
    BY <1>1, <1>2, <1>3, <2>1 DEF DestOwned
  <2>2. CASE k = n + 1 /\ Renames(op)
    BY <1>2, <1>3, <1>4, <2>2
  <2>3. CASE k = n + 1 /\ ~Renames(op)
    <3>1. window'[k].dest = CurrentAfter(n)
      BY <1>3, <1>4, <1>6, <2>3 DEF dest
    <3>2. CASE n = 0
      BY <1>1, <3>1, <3>2 DEF CurrentAfter
    <3>3. CASE n # 0
      <4>1. window'[k].dest = window[n].dest /\ n \in DOMAIN window
        BY <1>2, <3>1, <3>3 DEF CurrentAfter
      <4> QED BY <1>1, <1>2, <1>3, <2>3, <4>1 DEF DestOwned
    <3> QED BY <3>2, <3>3
  <2> QED BY <1>2, <2>1, <2>2, <2>3
<1>12. DoneInOrder'
  <2> SUFFICES ASSUME NEW i \in 1 .. n + 1, window'[i].done,
                      NEW j \in 1 .. i - 1, Renames(window'[j].op)
               PROVE  Written(window'[j])
    BY <1>3 DEF DoneInOrder
  <2>1. i \in 1 .. n /\ j \in 1 .. n
    BY <1>2, <1>3, <1>4
  <2> QED BY <1>2, <1>3, <2>1 DEF DoneInOrder
<1> QED BY <1>8, <1>9, <1>10, <1>11, <1>12

\* Execution makes a set ready for whose write the instruction is there.
LEMMA ExecuteInv ==
  ASSUME Inv, NEW i \in 1 .. RobSize, Execute(i)
  PROVE  Inv'
<1> DEFINE n == Len(window)
           e == window[i]
           d == [e EXCEPT !.done = TRUE, !.got = {contents[e.source][e.op.reg]}]
<1> USE DEF Inv
<1>1. /\ i \in DOMAIN window /\ ~e.done /\ isReady[e.source]
      /\ window' = [window EXCEPT ![i] = d]
      /\ retireSet' = retireSet /\ decodeSet' = decodeSet /\ simics' = simics
  BY DEF Execute
<1>2. /\ contents' = IF e.op.kind = "write"
                     THEN [contents EXCEPT ![e.dest] = [Initialized(e) EXCEPT ![e.op.reg] = e.op.val]]
                     ELSE contents
      /\ isReady' = IF e.op.kind = "write" THEN [isReady EXCEPT ![e.dest] = TRUE] ELSE isReady
  BY DEF Execute, Finalized
<1>3. /\ e \in Instruction /\ e.op \in Ops /\ e.op.reg \in Regs /\ e.op.val \in Values
      /\ e.source \in Sets /\ e.dest \in Sets
      /\ window \in Seq(Instruction) /\ n \in Nat /\ DOMAIN window = 1 .. n
      /\ contents \in [Sets -> [Regs -> Values]] /\ isReady \in [Sets -> BOOLEAN]
  BY <1>1, WindowFacts, LenProperties DEF TypeOK
<1>4. /\ d \in Instruction /\ d.op = e.op /\ d.source = e.source /\ d.dest = e.dest
      /\ d.done = TRUE
  <2>1. {contents[e.source][e.op.reg]} \in SUBSET Values
    BY <1>3
  <2> QED BY <1>3, <2>1 DEF Instruction
<1> HIDE DEF d
<1>5. /\ window' \in Seq(Instruction) /\ Len(window') = n /\ DOMAIN window' = 1 .. n
      /\ window'[i] = d /\ \A k \in 1 .. n : k # i => window'[k] = window[k]
  BY <1>1, <1>3, <1>4, ExceptSeq, LenProperties
<1>6. \A k \in 1 .. n : /\ window'[k].op = window[k].op
                        /\ window'[k].source = window[k].source
                        /\ window'[k].dest = window[k].dest
                        /\ window'[k].done <=> window[k].done \/ k = i
  BY <1>4, <1>5, <1>1
<1>7. \A k \in 0 .. n : CurrentAfter(k)' = CurrentAfter(k)
  BY <1>1, <1>3, <1>6 DEF CurrentAfter
<1>8. TypeOK'
  <2>1. isReady' \in [Sets -> BOOLEAN]
    BY <1>2, <1>3
  <2>2. contents' \in [Sets -> [Regs -> Values]]
    <3>1. CASE e.op.kind = "write"
      <4>1. Pred(e.dest) \in Sets
        <5>1. e.dest = Succ(e.source)
          BY <1>1, <3>1 DEF RingInProgramOrder, Renames
        <5> QED BY <1>3, <5>1, SuccFacts
      <4>2. Initialized(e) \in [Regs -> Values]
        BY <1>3, <4>1 DEF Initialized
      <4>3. [Initialized(e) EXCEPT ![e.op.reg] = e.op.val] \in [Regs -> Values]
        BY <1>3, <4>2
      <4> QED BY <1>2, <1>3, <3>1, <4>3
    <3> QED BY <1>2, <1>3, <3>1
  <2> QED BY <1>1, <1>5, <2>1, <2>2 DEF TypeOK
<1>9. RingInProgramOrder'
  <2>1. decodeSet' = CurrentAfter(Len(window))'
    <3>1. decodeSet = CurrentAfter(n) /\ n \in 0 .. n
      BY <1>3 DEF RingInProgramOrder
    <3>2. CASE n = 0
      BY <1>1, <1>5, <3>1, <3>2 DEF CurrentAfter
    <3>3. CASE n # 0
      <4>1. n \in 1 .. n /\ window'[n].dest = window[n].dest
        BY <1>3, <1>6, <3>3
      <4> QED BY <1>1, <1>3, <1>5, <3>1, <3>3, <4>1 DEF CurrentAfter
    <3> QED BY <3>2, <3>3
  <2>2. ASSUME NEW k \in 1 .. n
        PROVE  /\ window'[k].source = CurrentAfter(k - 1)'
               /\ window'[k].dest = IF Renames(window'[k].op) THEN Succ(window'[k].source)
                                    ELSE window'[k].source
    BY <1>3, <1>6, <1>7 DEF RingInProgramOrder
  <2>3. ASSUME NEW k \in 1 .. n, Renames(window'[k].op),
               NEW j \in k .. n, NEW m \in 0 .. k - 1
        PROVE  window'[j].dest # CurrentAfter(m)'
    BY <1>3, <1>6, <1>7, <2>3 DEF RingInProgramOrder
  <2> QED BY <1>5, <2>1, <2>2, <2>3 DEF RingInProgramOrder
<1>10. ReadyTracksWriter'
  <2> SUFFICES ASSUME NEW s \in Sets
               PROVE  isReady'[s] <=>
                        \/ s = retireSet'
                        \/ \E k \in 1 .. n :
                              Written(window'[k]) /\ window'[k].dest = s
    BY <1>5 DEF ReadyTracksWriter
  <2>1. isReady'[s] <=> isReady[s] \/ (e.op.kind = "write" /\ s = e.dest)
    BY <1>2, <1>3
  <2>2. \A k \in 1 .. n : Written(window'[k]) <=>
            Written(window[k]) \/ (k = i /\ e.op.kind = "write")
    BY <1>6 DEF Written
  <2>3. (\E k \in 1 .. n : Written(window'[k]) /\ window'[k].dest = s)
        <=> \/ e.op.kind = "write" /\ s = e.dest
            \/ \E k \in 1 .. n : Written(window[k]) /\ window[k].dest = s
    BY <1>1, <1>3, <1>6, <2>2
  <2> QED BY <1>1, <1>3, <2>1, <2>3 DEF ReadyTracksWriter
<1>11. DestOwned'
  <2> SUFFICES ASSUME NEW k \in 1 .. n
               PROVE  \/ window'[k].dest = retireSet'
                      \/ \E w \in 1 .. k : /\ Renames(window'[w].op)
                                           /\ window'[w].dest = window'[k].dest
    BY <1>5 DEF DestOwned
  <2> QED BY <1>1, <1>3, <1>6 DEF DestOwned
<1>12. DoneInOrder'
  <2> SUFFICES ASSUME NEW k \in 1 .. n, window'[k].done,
                      NEW j \in 1 .. k - 1, Renames(window'[j].op)
               PROVE  Written(window'[j])
    BY <1>5 DEF DoneInOrder
  <2>1. j \in 1 .. n
    BY <1>3
  <2>2. Written(window[j]) => Written(window'[j])
    BY <1>6, <2>1 DEF Written
  <2>3. CASE k = i
    BY <1>1, <1>6, <2>1, <2>2, <2>3, OlderWritesDone
  <2>4. CASE k # i
    BY <1>3, <1>6, <2>1, <2>2, <2>4 DEF DoneInOrder
  <2> QED BY <2>3, <2>4
<1> QED BY <1>8, <1>9, <1>10, <1>11, <1>12

\* The functional simulator keeps the registers in their types.
LEMMA SteppedType ==
  ASSUME TypeOK, NEW op \in Ops
  PROVE  Stepped(op) \in [Regs -> Values]
<1>1. op.reg \in Regs /\ op.val \in Values /\ simics \in [Regs -> Values]
  BY OpsAssumption DEF TypeOK
<1> QED BY <1>1 DEF Stepped

\* Retirement moves every instruction one place towards the oldest.
LEMMA RetireInv ==
  ASSUME Inv, Retire
  PROVE  Inv'
<1> DEFINE n == Len(window)
           h == window[1]
<1> USE DEF Inv
<1>1. /\ window \in Seq(Instruction) /\ n \in Nat /\ n >= 1 /\ DOMAIN window = 1 .. n
      /\ Head(window) = h /\ window' = Tail(window) /\ 1 \in DOMAIN window
  BY TailFacts, LenProperties DEF Retire, TypeOK
<1>2. /\ h \in Instruction /\ h.op \in Ops /\ h.op.reg \in Regs /\ h.op.val \in Values
      /\ h.source \in Sets /\ h.dest \in Sets
      /\ contents \in [Sets -> [Regs -> Values]] /\ isReady \in [Sets -> BOOLEAN]
  BY <1>1, WindowFacts DEF TypeOK
<1>3. /\ simics' = Stepped(h.op)
      /\ contents' = [contents EXCEPT ![retireSet'] = simics']
      /\ isReady' = IF Renames(h.op)
                    THEN [(IF Written(h) THEN isReady ELSE [isReady EXCEPT ![h.dest] = TRUE])
                             EXCEPT ![h.source] = FALSE]
                    ELSE isReady
      /\ retireSet' = IF Renames(h.op) THEN h.dest ELSE retireSet
      /\ decodeSet' = decodeSet
  BY <1>1 DEF Retire, Checked, Finalized, Freed
<1>4. /\ h.source = retireSet
      /\ h.dest = IF Renames(h.op) THEN Succ(h.source) ELSE h.source
      /\ retireSet' = h.dest
  BY <1>1, <1>3 DEF RingInProgramOrder, CurrentAfter
<1>5. /\ window' \in Seq(Instruction) /\ Len(window') = n - 1
      /\ DOMAIN window' = 1 .. n - 1
      /\ \A k \in 1 .. n - 1 : window'[k] = window[k + 1]
  BY <1>1, TailFacts, LenProperties
<1>6. \A k \in 0 .. n - 1 : CurrentAfter(k)' = CurrentAfter(k + 1)
  BY <1>1, <1>4, <1>5 DEF CurrentAfter
<1>7. ASSUME Renames(h.op), NEW k \in 1 .. n PROVE window[k].dest # retireSet
  <2>1. CurrentAfter(0) = retireSet /\ 0 \in 0 .. 1 - 1
    BY DEF CurrentAfter
  <2> QED BY <1>1, <1>7, <2>1 DEF RingInProgramOrder
<1>8. TypeOK'
  <2>1. isReady' \in [Sets -> BOOLEAN]
    BY <1>2, <1>3
  <2>2. contents' \in [Sets -> [Regs -> Values]]
    <3>1. simics' \in [Regs -> Values]
      BY <1>2, <1>3, SteppedType
    <3> QED BY <1>2, <1>3, <1>4, <3>1
  <2>3. Len(window') <= RobSize
    BY <1>1, <1>5, OpsAssumption DEF TypeOK
  <2>4. simics' \in [Regs -> Values]
    BY <1>2, <1>3, SteppedType
  <2> QED BY <1>2, <1>3, <1>4, <1>5, <2>1, <2>2, <2>3, <2>4 DEF TypeOK
<1>9. RingInProgramOrder'
  <2>1. decodeSet' = CurrentAfter(Len(window))'
    <3>1. decodeSet = CurrentAfter(n)
      BY DEF RingInProgramOrder
    <3>2. CASE n = 1
      BY <1>3, <1>4, <1>5, <3>1, <3>2 DEF CurrentAfter
    <3>3. CASE n > 1
      <4>1. window'[n - 1] = window[n]
        BY <1>1, <1>5, <3>3
      <4> QED BY <1>1, <1>3, <1>5, <3>1, <3>3, <4>1 DEF CurrentAfter
    <3> QED BY <1>1, <3>2, <3>3
  <2>2. ASSUME NEW k \in 1 .. n - 1
        PROVE  /\ window'[k].source = CurrentAfter(k - 1)'
               /\ window'[k].dest = IF Renames(window'[k].op) THEN Succ(window'[k].source)
                                    ELSE window'[k].source
    <3>1. k + 1 \in 1 .. n /\ (k + 1) - 1 = k /\ CurrentAfter(k - 1)' = CurrentAfter(k)
      BY <1>1, <1>6
    <3> QED BY <1>1, <1>5, <3>1 DEF RingInProgramOrder
  <2>3. ASSUME NEW k \in 1 .. n - 1, Renames(window'[k].op),
               NEW j \in k .. n - 1, NEW m \in 0 .. k - 1
        PROVE  window'[j].dest # CurrentAfter(m)'
    <3>1. /\ k + 1 \in 1 .. n /\ j + 1 \in k + 1 .. n /\ m + 1 \in 0 .. (k + 1) - 1
          /\ CurrentAfter(m)' = CurrentAfter(m + 1)
      BY <1>1, <1>6
    <3>2. window'[k] = window[k + 1] /\ window'[j] = window[j + 1]
      BY <1>1, <1>5
    <3> QED BY <1>1, <2>3, <3>1, <3>2 DEF RingInProgramOrder
  <2> QED BY <1>5, <2>1, <2>2, <2>3 DEF RingInProgramOrder
<1>10. ReadyTracksWriter'
  <2> SUFFICES ASSUME NEW s \in Sets
               PROVE  isReady'[s] <=>
                        \/ s = retireSet'
                        \/ \E k \in 1 .. n - 1 :
                              Written(window'[k]) /\ window'[k].dest = s
    BY <1>5 DEF ReadyTracksWriter
  <2>1. isReady[s] <=> \/ s = retireSet
                       \/ \E k \in 1 .. n : Written(window[k]) /\ window[k].dest = s
    BY <1>1 DEF ReadyTracksWriter
  <2>2. (\E k \in 1 .. n - 1 : Written(window'[k]) /\ window'[k].dest = s)
        <=> \E k \in 2 .. n : Written(window[k]) /\ window[k].dest = s
    <3>1. \A k \in 1 .. n - 1 : k + 1 \in 2 .. n /\ window'[k] = window[k + 1]
      BY <1>1, <1>5
    <3>2. \A k \in 2 .. n : k - 1 \in 1 .. n - 1 /\ window'[k - 1] = window[k]
      <4> SUFFICES ASSUME NEW k \in 2 .. n
                   PROVE  k - 1 \in 1 .. n - 1 /\ window'[k - 1] = window[k]
        OBVIOUS
      <4>1. k - 1 \in 1 .. n - 1 /\ (k - 1) + 1 = k
        BY <1>1
      <4> QED BY <1>5, <4>1
    <3> QED BY <3>1, <3>2
  <2>3. CASE Renames(h.op)
    <3>1. isReady'[s] <=> s # h.source /\ (s = h.dest \/ isReady[s])
      <4>1. CASE Written(h)
        <5>1. isReady[h.dest]
          BY <1>1, <1>2, <4>1 DEF ReadyTracksWriter
        <5> QED BY <1>2, <1>3, <2>3, <4>1, <5>1
      <4>2. CASE ~Written(h)
        BY <1>2, <1>3, <2>3, <4>2
      <4> QED BY <4>1, <4>2
    <3>2. h.dest # h.source
      BY <1>2, <1>4, <2>3, SuccFacts
    <3>3. CASE s = h.source
      <4>1. \A k \in 2 .. n : window[k].dest # s
        BY <1>1, <1>4, <1>7, <2>3, <3>3
      <4> QED BY <1>4, <2>2, <3>1, <3>2, <3>3, <4>1
    <3>4. CASE s = h.dest
      BY <1>4, <3>1, <3>2, <3>4
    <3>5. CASE s # h.source /\ s # h.dest
      <4>1. \A k \in 1 .. n : k = 1 \/ k \in 2 .. n
        BY <1>1
      <4> QED BY <1>1, <1>4, <2>1, <2>2, <3>1, <3>5, <4>1
    <3> QED BY <3>3, <3>4, <3>5
  <2>4. CASE ~Renames(h.op)
    <3>1. \A k \in 1 .. n : k = 1 \/ k \in 2 .. n
      BY <1>1
    <3>2. ~Written(h)
      BY <2>4 DEF Written, Renames
    <3> QED BY <1>1, <1>3, <2>1, <2>2, <2>4, <3>1, <3>2
  <2> QED BY <2>3, <2>4
<1>11. DestOwned'
  <2> SUFFICES ASSUME NEW k \in 1 .. n - 1
               PROVE  \/ window'[k].dest = retireSet'
                      \/ \E w \in 1 .. k : /\ Renames(window'[w].op)
                                           /\ window'[w].dest = window'[k].dest
    BY <1>5 DEF DestOwned
  <2>1. k + 1 \in 1 .. n /\ window'[k] = window[k + 1]
    BY <1>1, <1>5
  <2>2. CASE window[k + 1].dest = retireSet
    BY <1>3, <1>7, <2>1, <2>2
  <2>3. ASSUME NEW w \in 1 .. k + 1, Renames(window[w].op),
               window[w].dest = window[k + 1].dest
        PROVE  \/ window'[k].dest = retireSet'
               \/ \E v \in 1 .. k : /\ Renames(window'[v].op)
                                    /\ window'[v].dest = window'[k].dest
    <3>1. CASE w = 1
      BY <1>4, <2>1, <2>3, <3>1
    <3>2. CASE w # 1
      <4>1. w - 1 \in 1 .. k /\ w - 1 \in 1 .. n - 1 /\ (w - 1) + 1 = w
        BY <1>1, <3>2
      <4>2. window'[w - 1] = window[w]
        BY <1>5, <4>1
      <4> QED BY <2>1, <2>3, <4>1, <4>2
    <3> QED BY <3>1, <3>2
  <2>4. \/ window[k + 1].dest = retireSet
        \/ \E w \in 1 .. k + 1 : /\ Renames(window[w].op)
                                 /\ window[w].dest = window[k + 1].dest
    BY <1>1, <2>1 DEF DestOwned
  <2> QED BY <2>2, <2>3, <2>4
<1>12. DoneInOrder'
  <2> SUFFICES ASSUME NEW k \in 1 .. n - 1, window'[k].done,
                      NEW j \in 1 .. k - 1, Renames(window'[j].op)
               PROVE  Written(window'[j])
    BY <1>5 DEF DoneInOrder
  <2>1. /\ k + 1 \in 1 .. n /\ j + 1 \in 1 .. (k + 1) - 1
        /\ window'[k] = window[k + 1] /\ window'[j] = window[j + 1]
    BY <1>1, <1>5
  <2> QED BY <1>1, <2>1 DEF DoneInOrder
<1> QED BY <1>8, <1>9, <1>10, <1>11, <1>12

\* A squash gives back the youngest set, which nothing older uses.
LEMMA SquashInv ==
  ASSUME Inv, Squash
  PROVE  Inv'
<1> DEFINE n == Len(window)
           l == window[n]
<1> USE DEF Inv
<1>1. /\ window \in Seq(Instruction) /\ n \in Nat /\ n >= 1 /\ DOMAIN window = 1 .. n
      /\ window' = SubSeq(window, 1, n - 1) /\ n \in DOMAIN window
  BY CutFacts, LenProperties DEF Squash, TypeOK
<1>2. /\ l.source \in Sets /\ l.dest \in Sets /\ isReady \in [Sets -> BOOLEAN]
  BY <1>1, WindowFacts DEF TypeOK
<1>3. /\ decodeSet' = IF Renames(l.op) THEN l.source ELSE decodeSet
      /\ isReady' = IF Renames(l.op) THEN [isReady EXCEPT ![l.dest] = FALSE] ELSE isReady
      /\ retireSet' = retireSet /\ contents' = contents /\ simics' = simics
  BY DEF Squash, Freed
<1>4. /\ window' \in Seq(Instruction) /\ Len(window') = n - 1
      /\ DOMAIN window' = 1 .. n - 1
      /\ \A k \in 1 .. n - 1 : window'[k] = window[k]
  BY <1>1, CutFacts, LenProperties
<1>5. \A k \in 0 .. n - 1 : CurrentAfter(k)' = CurrentAfter(k)
  BY <1>1, <1>3, <1>4 DEF CurrentAfter
<1>6. /\ l.source = CurrentAfter(n - 1) /\ decodeSet = l.dest
      /\ l.dest = IF Renames(l.op) THEN Succ(l.source) ELSE l.source
      /\ decodeSet' = CurrentAfter(n - 1)
  BY <1>1, <1>3 DEF RingInProgramOrder, CurrentAfter
<1>7. ASSUME Renames(l.op), NEW k \in 0 .. n - 1 PROVE l.dest # CurrentAfter(k)
  BY <1>1, <1>7 DEF RingInProgramOrder
<1>8. TypeOK'
  <2>1. isReady' \in [Sets -> BOOLEAN] /\ Len(window') <= RobSize
    BY <1>1, <1>2, <1>3, <1>4, OpsAssumption DEF TypeOK
  <2>2. decodeSet' \in Sets
    BY <1>2, <1>3 DEF TypeOK
  <2> QED BY <1>3, <1>4, <2>1, <2>2 DEF TypeOK
<1>9. RingInProgramOrder'
  <2>1. decodeSet' = CurrentAfter(Len(window))'
    <3>1. CASE n = 1
      BY <1>3, <1>4, <1>6, <3>1 DEF CurrentAfter
    <3>2. CASE n > 1
      BY <1>1, <1>4, <1>6, <3>2 DEF CurrentAfter
    <3> QED BY <1>1, <3>1, <3>2
  <2>2. ASSUME NEW k \in 1 .. n - 1
        PROVE  /\ window'[k].source = CurrentAfter(k - 1)'
               /\ window'[k].dest = IF Renames(window'[k].op) THEN Succ(window'[k].source)
                                    ELSE window'[k].source
    BY <1>1, <1>4, <1>5 DEF RingInProgramOrder
  <2>3. ASSUME NEW k \in 1 .. n - 1, Renames(window'[k].op),
               NEW j \in k .. n - 1, NEW m \in 0 .. k - 1
        PROVE  window'[j].dest # CurrentAfter(m)'
    <3>1. k \in 1 .. n /\ j \in k .. n /\ j \in 1 .. n - 1 /\ m \in 0 .. n - 1
      BY <1>1
    <3> QED BY <1>1, <1>4, <1>5, <2>3, <3>1 DEF RingInProgramOrder
  <2> QED BY <1>4, <2>1, <2>2, <2>3 DEF RingInProgramOrder
<1>10. ReadyTracksWriter'
  <2> SUFFICES ASSUME NEW s \in Sets
               PROVE  isReady'[s] <=>
                        \/ s = retireSet
                        \/ \E k \in 1 .. n - 1 :
                              Written(window[k]) /\ window[k].dest = s
    BY <1>3, <1>4 DEF ReadyTracksWriter
  <2>1. isReady[s] <=> \/ s = retireSet
                       \/ \E k \in 1 .. n : Written(window[k]) /\ window[k].dest = s
    BY <1>1 DEF ReadyTracksWriter
  <2>2. ASSUME NEW k \in 1 .. n PROVE k = n \/ k \in 1 .. n - 1
    <3>1. n \in Nat /\ n >= 1
      BY <1>1
    <3> HIDE DEF n
    <3> QED BY <3>1
  <2>3. CASE Renames(l.op) /\ s = l.dest
    <3>1. ~isReady'[s]
      BY <1>2, <1>3, <2>3
    <3>2. s # retireSet
      <4>1. CurrentAfter(0) = retireSet /\ 0 \in 0 .. n - 1
        BY <1>1 DEF CurrentAfter
      <4> QED BY <1>7, <2>3, <4>1
    <3>3. \A k \in 1 .. n - 1 : window[k].dest # s
      <4>1. \A k \in 1 .. n - 1 : CurrentAfter(k) = window[k].dest /\ k \in 0 .. n - 1
        BY <1>1 DEF CurrentAfter
      <4> QED BY <1>7, <2>3, <4>1
    <3> QED BY <3>1, <3>2, <3>3
  <2>4. CASE ~(Renames(l.op) /\ s = l.dest)
    <3>1. isReady'[s] = isReady[s]
      BY <1>2, <1>3, <2>4
    <3>2. \A k \in 1 .. n - 1 : k \in 1 .. n
      BY <1>1
    <3>3. ~(Written(l) /\ l.dest = s)
      BY <2>4 DEF Written, Renames
    <3> QED BY <2>1, <2>2, <3>1, <3>2, <3>3
  <2> QED BY <2>3, <2>4
<1>11. DestOwned'
  <2> SUFFICES ASSUME NEW k \in 1 .. n - 1
               PROVE  \/ window'[k].dest = retireSet'
                      \/ \E w \in 1 .. k : /\ Renames(window'[w].op)
                                           /\ window'[w].dest = window'[k].dest
    BY <1>4 DEF DestOwned
  <2>1. k \in 1 .. n /\ \A w \in 1 .. k : w \in 1 .. n - 1
    BY <1>1
  <2> QED BY <1>1, <1>3, <1>4, <2>1 DEF DestOwned
<1>12. DoneInOrder'
  <2> SUFFICES ASSUME NEW k \in 1 .. n - 1, window'[k].done,
                      NEW j \in 1 .. k - 1, Renames(window'[j].op)
               PROVE  Written(window'[j])
    BY <1>4 DEF DoneInOrder
  <2>1. k \in 1 .. n /\ j \in 1 .. n - 1
    BY <1>1
  <2> QED BY <1>1, <1>4, <2>1 DEF DoneInOrder
<1> QED BY <1>8, <1>9, <1>10, <1>11, <1>12

\* After a trap the window is empty, and of all sets only the architected one
\* is ready.
LEMMA TrapInv ==
  ASSUME Inv, Trap
  PROVE  Inv'
<1> DEFINE h == window[1]
<1> USE DEF Inv
<1>1. /\ Head(window) = h /\ 1 \in DOMAIN window
  BY TailFacts DEF Trap, TypeOK
<1>2. /\ window' = <<>> /\ retireSet' = retireSet /\ decodeSet' = h.source
      /\ simics' = Stepped(h.op)
      /\ contents' = [contents EXCEPT ![retireSet] = simics']
      /\ isReady' = [s \in Sets |-> isReady[s] /\ \A i \in DOMAIN window :
                        Renames(window[i].op) => window[i].dest # s]
  BY <1>1 DEF Trap, Checked
<1>3. h.op \in Ops /\ h.source = retireSet
  BY <1>1, WindowFacts DEF RingInProgramOrder, CurrentAfter
<1>4. window' \in Seq(Instruction) /\ Len(window') = 0 /\ DOMAIN window' = {}
  BY <1>2, EmptySeq
<1>5. TypeOK'
  <2>1. simics' \in [Regs -> Values]
    BY <1>2, <1>3, SteppedType
  <2>2. contents' \in [Sets -> [Regs -> Values]] /\ isReady' \in [Sets -> BOOLEAN]
    BY <1>2, <2>1 DEF TypeOK
  <2> QED BY <1>2, <1>3, <1>4, <2>1, <2>2, OpsAssumption DEF TypeOK
<1>6. RingInProgramOrder'
  BY <1>2, <1>3, <1>4 DEF RingInProgramOrder, CurrentAfter
<1>7. ReadyTracksWriter'
  <2> SUFFICES ASSUME NEW s \in Sets PROVE isReady'[s] <=> s = retireSet
    BY <1>2, <1>4 DEF ReadyTracksWriter
  <2>1. CASE s = retireSet
    <3>1. isReady[s]
      BY <2>1 DEF ReadyTracksWriter
    <3>2. ASSUME NEW i \in DOMAIN window, Renames(window[i].op)
          PROVE  window[i].dest # s
      <4>1. i \in i .. Len(window) /\ 0 \in 0 .. i - 1
        BY WindowFacts
      <4>2. window[i].dest # CurrentAfter(0)
        BY <3>2, <4>1 DEF RingInProgramOrder
      <4> QED BY <2>1, <4>2 DEF CurrentAfter
    <3> QED BY <1>2, <2>1, <3>1, <3>2
  <2>2. CASE s # retireSet
    <3>1. \A d : Written(d) => Renames(d.op)
      BY DEF Written, Renames
    <3> QED BY <1>2, <2>2, <3>1 DEF ReadyTracksWriter
  <2> QED BY <2>1, <2>2
<1>8. DestOwned' /\ DoneInOrder'
  BY <1>4 DEF DestOwned, DoneInOrder
<1> QED BY <1>5, <1>6, <1>7, <1>8

LEMMA NextInv ==
  ASSUME Inv, [Next]_vars
  PROVE  Inv'
<1>1. CASE Next
  BY <1>1, DecodeInv, ExecuteInv, RetireInv, TrapInv, SquashInv DEF Next
<1>2. CASE UNCHANGED vars
  BY <1>2 DEF vars, Inv, TypeOK, RingInProgramOrder, ReadyTracksWriter, DestOwned,
              DoneInOrder, CurrentAfter
<1> QED BY <1>1, <1>2

LEMMA Invariance == Spec => []Inv
<1>1. Init => Inv
  BY InitInv
<1>2. Inv /\ [Next]_vars => Inv'
  BY NextInv
<1> QED BY <1>1, <1>2, PTL DEF Spec

-----------------------------------------------------------------------------
\* The indexes of the ring stay those of sets, and the window in its bounds.
THEOREM TypeCorrect == Spec => []TypeOK
<1>1. Inv => TypeOK
  BY DEF Inv
<1> QED BY <1>1, Invariance, PTL

\* The ring is entered and left in program order, whatever is squashed in
\* between: allocateRegister hands out no set that is still needed.
THEOREM RingOrdered == Spec => []RingInProgramOrder
<1>1. Inv => RingInProgramOrder
  BY DEF Inv
<1> QED BY <1>1, Invariance, PTL

\* CONTROL_ISREADY is set for the sets that may be read and for no other.
THEOREM ReadyFlags == Spec => []ReadyTracksWriter
<1>1. Inv => ReadyTracksWriter
  BY DEF Inv
<1> QED BY <1>1, Invariance, PTL

-----------------------------------------------------------------------------
\* Between steps the architected set holds what the functional simulator holds.
SimicsAgrees == simics = contents[retireSet]

\* The set of a write that has executed is its source with one register changed.
Copied(i) == contents[window[i].dest] =
    [contents[window[i].source] EXCEPT ![window[i].op.reg] = window[i].op.val]

WritesCopy == \A i \in DOMAIN window : Written(window[i]) => Copied(i)

FileInv == Inv /\ SimicsAgrees /\ WritesCopy

-----------------------------------------------------------------------------
(***************************************************************************)
(* The invariant is preserved.                                             *)
(***************************************************************************)

\* What the steps do to the window, in the terms the proofs below need.
LEMMA DecodeEffect ==
  ASSUME TypeOK, NEW op \in Ops, Decode(op)
  PROVE  /\ Len(window) \in Nat /\ DOMAIN window = 1 .. Len(window)
         /\ DOMAIN window' = 1 .. Len(window) + 1
         /\ window' \in Seq(Instruction) /\ Len(window') = Len(window) + 1
         /\ \A k \in 1 .. Len(window) : window'[k] = window[k]
         /\ window'[Len(window) + 1].op = op
         /\ window'[Len(window) + 1].done = FALSE
         /\ window'[Len(window) + 1].got = {}
         /\ contents' = contents /\ retireSet' = retireSet /\ simics' = simics
<1> DEFINE dest == IF Renames(op) THEN Succ(decodeSet) ELSE decodeSet
           d == [op |-> op, source |-> decodeSet, dest |-> dest,
                 done |-> FALSE, got |-> {}]
<1>1. /\ window' = Append(window, d)
      /\ contents' = contents /\ retireSet' = retireSet /\ simics' = simics
  BY DEF Decode
<1>2. /\ dest \in Sets /\ d \in Instruction /\ window \in Seq(Instruction)
      /\ Len(window) \in Nat /\ DOMAIN window = 1 .. Len(window)
  BY SuccFacts, LenProperties DEF TypeOK, Instruction
<1>3. d.op = op /\ d.done = FALSE /\ d.got = {}
  OBVIOUS
<1> HIDE DEF d
<1>4. /\ window' \in Seq(Instruction) /\ DOMAIN window' = 1 .. Len(window) + 1
      /\ Len(window') = Len(window) + 1
      /\ \A i \in 1 .. Len(window) : window'[i] = window[i]
      /\ window'[Len(window) + 1] = d
  BY <1>1, <1>2, AppendFacts, LenProperties
<1> QED BY <1>1, <1>2, <1>3, <1>4

LEMMA ExecuteEffect ==
  ASSUME TypeOK, NEW i \in 1 .. RobSize, Execute(i)
  PROVE  /\ Len(window) \in Nat /\ DOMAIN window = 1 .. Len(window)
         /\ DOMAIN window' = 1 .. Len(window) /\ i \in 1 .. Len(window)
         /\ window' \in Seq(Instruction) /\ Len(window') = Len(window)
         /\ \A k \in 1 .. Len(window) : k # i => window'[k] = window[k]
         /\ window'[i].op = window[i].op /\ window'[i].dest = window[i].dest
         /\ window'[i].source = window[i].source
         /\ window'[i].done = TRUE /\ ~window[i].done
         /\ isReady[window[i].source]
         /\ window'[i].got = {contents[window[i].source][window[i].op.reg]}
         /\ contents' = IF window[i].op.kind = "write"
                        THEN [contents EXCEPT ![window[i].dest] =
                                [Initialized(window[i]) EXCEPT ![window[i].op.reg] = window[i].op.val]]
                        ELSE contents
         /\ retireSet' = retireSet /\ simics' = simics
<1> DEFINE e == window[i]
           d == [e EXCEPT !.done = TRUE, !.got = {contents[e.source][e.op.reg]}]
<1>1. /\ i \in DOMAIN window /\ ~e.done /\ isReady[e.source]
      /\ window' = [window EXCEPT ![i] = d] /\ retireSet' = retireSet /\ simics' = simics
      /\ contents' = IF e.op.kind = "write"
                     THEN [contents EXCEPT ![e.dest] = [Initialized(e) EXCEPT ![e.op.reg] = e.op.val]]
                     ELSE contents
  BY DEF Execute
<1>2. /\ e \in Instruction /\ i \in 1 .. Len(window)
      /\ window \in Seq(Instruction) /\ DOMAIN window = 1 .. Len(window)
      /\ Len(window) \in Nat
  BY <1>1, WindowFacts, LenProperties DEF TypeOK
<1>3. /\ d.op = e.op /\ d.source = e.source /\ d.dest = e.dest /\ d.done = TRUE
      /\ d.got = {contents[e.source][e.op.reg]}
  BY <1>2 DEF Instruction
<1>5. d \in Instruction
  <2>1. {contents[e.source][e.op.reg]} \in SUBSET Values
    <3>1. e.source \in Sets /\ e.op.reg \in Regs
      BY <1>1, WindowFacts
    <3> QED BY <3>1 DEF TypeOK
  <2> QED BY <1>2, <2>1 DEF Instruction
<1> HIDE DEF d
<1>4. /\ DOMAIN window' = 1 .. Len(window) /\ window'[i] = d
      /\ window' \in Seq(Instruction) /\ Len(window') = Len(window)
      /\ \A k \in 1 .. Len(window) : k # i => window'[k] = window[k]
  BY <1>1, <1>2, <1>5, ExceptSeq
<1> QED BY <1>1, <1>2, <1>3, <1>4

LEMMA RetireEffect ==
  ASSUME Inv, Retire
  PROVE  /\ Len(window) \in Nat /\ Len(window) >= 1 /\ DOMAIN window = 1 .. Len(window)
         /\ DOMAIN window' = 1 .. Len(window) - 1 /\ Len(window') = Len(window) - 1
         /\ window' \in Seq(Instruction)
         /\ \A k \in 1 .. Len(window) - 1 : window'[k] = window[k + 1]
         /\ window[1].done /\ ~Traps(window[1].op) /\ window # <<>>
         /\ simics' = Stepped(window[1].op)
         /\ contents' = [contents EXCEPT ![retireSet'] = simics']
         /\ window[1].source = retireSet /\ retireSet' = window[1].dest
         /\ Renames(window[1].op) => window[1].dest = Succ(retireSet)
         /\ ~Renames(window[1].op) => window[1].dest = retireSet
         /\ \A k \in 2 .. Len(window) : Renames(window[k].op) =>
               window[k].dest # window[1].dest
<1>1. window # <<>> /\ window \in Seq(Instruction)
  BY DEF Retire, Inv, TypeOK
<1>2. /\ Len(window) \in Nat /\ Len(window) >= 1 /\ DOMAIN window = 1 .. Len(window)
      /\ Head(window) = window[1] /\ 1 \in DOMAIN window
      /\ Tail(window) \in Seq(Instruction) /\ Len(Tail(window)) = Len(window) - 1
      /\ \A k \in 1 .. Len(window) - 1 : Tail(window)[k] = window[k + 1]
  BY <1>1, TailFacts, LenProperties
<1>3. DOMAIN Tail(window) = 1 .. Len(window) - 1
  BY <1>2, LenProperties
<1>4. /\ window' = Tail(window)
      /\ window[1].done /\ ~Traps(window[1].op) /\ simics' = Stepped(window[1].op)
      /\ contents' = [contents EXCEPT ![retireSet'] = simics']
      /\ retireSet' = IF Renames(window[1].op) THEN window[1].dest ELSE retireSet
  BY <1>2 DEF Retire, Checked
<1>5. /\ window[1].source = retireSet
      /\ window[1].dest = IF Renames(window[1].op) THEN Succ(window[1].source)
                          ELSE window[1].source
  BY <1>2 DEF Inv, RingInProgramOrder, CurrentAfter
<1>6. ASSUME NEW k \in 2 .. Len(window), Renames(window[k].op)
      PROVE  window[k].dest # window[1].dest
  <2>1. k \in 1 .. Len(window) /\ 1 \in 0 .. k - 1 /\ k \in k .. Len(window)
    BY <1>2
  <2>2. window[k].dest # CurrentAfter(1)
    BY <1>2, <1>6, <2>1 DEF Inv, RingInProgramOrder
  <2> QED BY <2>2 DEF CurrentAfter
<1>7. /\ Renames(window[1].op) => window[1].dest = Succ(retireSet)
      /\ ~Renames(window[1].op) => window[1].dest = retireSet
      /\ retireSet' = window[1].dest
  BY <1>4, <1>5
<1>8. /\ DOMAIN window' = 1 .. Len(window) - 1 /\ Len(window') = Len(window) - 1
      /\ window' \in Seq(Instruction)
  BY <1>2, <1>3, <1>4
<1>9. \A k \in 1 .. Len(window) - 1 : window'[k] = window[k + 1]
  BY <1>2, <1>4
<1> HIDE DEF Inv
<1> QED BY <1>1, <1>2, <1>4, <1>5, <1>6, <1>7, <1>8, <1>9

LEMMA SquashEffect ==
  ASSUME TypeOK, Squash
  PROVE  /\ Len(window) \in Nat /\ Len(window) >= 1 /\ DOMAIN window = 1 .. Len(window)
         /\ DOMAIN window' = 1 .. Len(window) - 1 /\ Len(window') = Len(window) - 1
         /\ window' \in Seq(Instruction) /\ window # <<>>
         /\ \A k \in 1 .. Len(window) - 1 : window'[k] = window[k]
         /\ contents' = contents /\ retireSet' = retireSet /\ simics' = simics
<1>1. window # <<>> /\ window \in Seq(Instruction)
  BY DEF Squash, TypeOK
<1>2. /\ window' = SubSeq(window, 1, Len(window) - 1)
      /\ contents' = contents /\ retireSet' = retireSet /\ simics' = simics
  BY DEF Squash
<1>3. /\ SubSeq(window, 1, Len(window) - 1) \in Seq(Instruction)
      /\ Len(SubSeq(window, 1, Len(window) - 1)) = Len(window) - 1
      /\ Len(window) \in Nat /\ Len(window) >= 1
      /\ \A i \in 1 .. Len(window) - 1 : SubSeq(window, 1, Len(window) - 1)[i] = window[i]
  BY <1>1, CutFacts
<1>4. DOMAIN window = 1 .. Len(window) /\ DOMAIN window' = 1 .. Len(window) - 1
  BY <1>1, <1>2, <1>3, LenProperties
<1> QED BY <1>1, <1>2, <1>3, <1>4

LEMMA FileInvInit ==
  ASSUME Init PROVE FileInv
<1>1. DOMAIN window = {}
  BY EmptySeq DEF Init
<1>2. SimicsAgrees
  BY SetsFacts DEF Init, SimicsAgrees
<1> QED BY <1>1, <1>2, InitInv DEF FileInv, WritesCopy

\* A step that fills a set fills that of a write whose set no other write uses.
LEMMA FileInvNext ==
  ASSUME FileInv, [Next]_vars
  PROVE  FileInv'
<1> USE DEF FileInv
<1>1. TypeOK /\ RingInProgramOrder /\ DoneInOrder
  BY DEF Inv
<1>2. Inv'
  BY NextInv
<1>3. ASSUME NEW op \in Ops, Decode(op) PROVE (SimicsAgrees /\ WritesCopy)'
  <2>1. /\ Len(window) \in Nat /\ DOMAIN window = 1 .. Len(window)
        /\ DOMAIN window' = 1 .. Len(window) + 1
        /\ \A k \in 1 .. Len(window) : window'[k] = window[k]
        /\ window'[Len(window) + 1].done = FALSE
        /\ contents' = contents /\ retireSet' = retireSet /\ simics' = simics
    BY <1>1, <1>3, DecodeEffect
  <2>2. \A k \in DOMAIN window' : k \in 1 .. Len(window) \/ k = Len(window) + 1
    BY <2>1
  <2> QED BY <2>1, <2>2 DEF SimicsAgrees, WritesCopy, Written, Copied
<1>4. ASSUME NEW i \in 1 .. RobSize, Execute(i) PROVE (SimicsAgrees /\ WritesCopy)'
  <2> DEFINE n == Len(window)
             e == window[i]
  <2>1. /\ n \in Nat /\ DOMAIN window = 1 .. n /\ DOMAIN window' = 1 .. n /\ i \in 1 .. n
        /\ \A k \in 1 .. n : k # i => window'[k] = window[k]
        /\ window'[i].op = e.op /\ window'[i].dest = e.dest
        /\ window'[i].source = e.source /\ ~e.done
        /\ isReady[e.source]
        /\ contents' = IF e.op.kind = "write"
                       THEN [contents EXCEPT ![e.dest] =
                               [Initialized(e) EXCEPT ![e.op.reg] = e.op.val]]
                       ELSE contents
        /\ retireSet' = retireSet /\ simics' = simics
    BY <1>1, <1>4, ExecuteEffect
  <2>2. SimicsAgrees'
    <3>1. CASE e.op.kind = "write"
      <4>1. i \in i .. n /\ 0 \in 0 .. i - 1 /\ Renames(e.op)
        BY <2>1, <3>1 DEF Renames
      <4>2. e.dest # CurrentAfter(0)
        BY <1>1, <2>1, <4>1 DEF RingInProgramOrder
      <4>3. contents'[retireSet] = contents[retireSet]
        BY <1>1, <2>1, <3>1, <4>2 DEF CurrentAfter, TypeOK
      <4> QED BY <2>1, <4>3 DEF SimicsAgrees
    <3>2. CASE e.op.kind # "write"
      BY <2>1, <3>2 DEF SimicsAgrees
    <3> QED BY <3>1, <3>2
  <2>3. ASSUME NEW k \in 1 .. n, Written(window'[k])
        PROVE  Copied(k)'
    <3>1. /\ window'[k].op = window[k].op /\ window'[k].dest = window[k].dest
          /\ window'[k].source = window[k].source
      BY <2>1
    <3>2. /\ window[k].source \in Sets /\ window[k].dest \in Sets
          /\ e.source \in Sets /\ e.dest \in Sets
          /\ contents \in [Sets -> [Regs -> Values]]
      BY <1>1, <2>1, WindowFacts DEF TypeOK
    <3>3. CASE k = i
      <4>0. e.op.kind = "write"
        BY <2>3, <3>1, <3>3 DEF Written
      <4>1. e.dest = Succ(e.source)
        BY <1>1, <2>1, <4>0 DEF RingInProgramOrder, Renames
      <4>2. Pred(e.dest) = e.source /\ e.dest # e.source
        BY <3>2, <4>1, SuccFacts
      <4>3. Initialized(e) = contents[e.source]
        BY <2>1, <4>2 DEF Initialized
      <4>4. /\ contents'[e.dest] = [contents[e.source] EXCEPT ![e.op.reg] = e.op.val]
            /\ contents'[e.source] = contents[e.source]
        BY <2>1, <3>2, <4>0, <4>2, <4>3
      <4> QED BY <3>1, <3>3, <4>4 DEF Copied
    <3>4. CASE k # i
      <4>1. Written(window[k]) /\ Copied(k)
        BY <2>1, <2>3, <3>4 DEF WritesCopy
      <4>2. CASE e.op.kind # "write"
        BY <2>1, <3>1, <4>1, <4>2 DEF Copied
      <4>3. CASE e.op.kind = "write"
        <5>0. Renames(e.op) /\ ~Written(e) /\ window[k].done
          BY <2>1, <4>1, <4>3 DEF Renames, Written
        <5>1. k < i
          BY <1>1, <2>1, <3>4, <5>0 DEF DoneInOrder
        <5>2. /\ i \in i .. n /\ k \in 0 .. i - 1 /\ k - 1 \in 0 .. i - 1
          BY <2>1, <5>1
        <5>3. e.dest # CurrentAfter(k) /\ e.dest # CurrentAfter(k - 1)
          BY <1>1, <2>1, <5>0, <5>2 DEF RingInProgramOrder
        <5>4. window[k].source = CurrentAfter(k - 1) /\ window[k].dest = CurrentAfter(k)
          BY <1>1, <2>1 DEF RingInProgramOrder, CurrentAfter
        <5>5. contents'[window[k].dest] = contents[window[k].dest]
              /\ contents'[window[k].source] = contents[window[k].source]
          BY <2>1, <3>2, <4>3, <5>3, <5>4
        <5> QED BY <3>1, <4>1, <5>5 DEF Copied
      <4> QED BY <4>2, <4>3
    <3> QED BY <3>3, <3>4
  <2>4. WritesCopy'
    BY <2>1, <2>3 DEF WritesCopy
  <2> QED BY <2>2, <2>4
<1>5. ASSUME Retire PROVE (SimicsAgrees /\ WritesCopy)'
  <2> DEFINE n == Len(window)
             h == window[1]
  <2>1. /\ n \in Nat /\ n >= 1 /\ DOMAIN window = 1 .. n /\ DOMAIN window' = 1 .. n - 1
        /\ \A k \in 1 .. n - 1 : window'[k] = window[k + 1]
        /\ h.done /\ ~Traps(h.op) /\ simics' = Stepped(h.op)
        /\ contents' = [contents EXCEPT ![retireSet'] = simics']
        /\ h.source = retireSet /\ retireSet' = h.dest
        /\ ~Renames(h.op) => h.dest = retireSet
    BY <1>5, RetireEffect
  <2>2. h.dest \in Sets /\ contents \in [Sets -> [Regs -> Values]]
    BY <1>1, <2>1, WindowFacts DEF TypeOK
  <2>3. SimicsAgrees'
    BY <2>1, <2>2 DEF SimicsAgrees
  <2>4. ASSUME NEW k \in 1 .. n - 1, Written(window'[k])
        PROVE  Copied(k)'
    <3>1. /\ window'[k] = window[k + 1] /\ k + 1 \in 1 .. n /\ 1 \in 1 .. (k + 1) - 1
      BY <2>1
    <3>2. Copied(k + 1) /\ window[k + 1].done
      BY <2>1, <2>4, <3>1 DEF WritesCopy, Written
    <3>3. contents[h.dest] = simics'
      <4>1. CASE Renames(h.op)
        <5>1. Written(h)
          BY <1>1, <2>1, <3>1, <3>2, <4>1 DEF DoneInOrder
        <5>2. Copied(1)
          BY <2>1, <5>1 DEF WritesCopy
        <5> QED BY <2>1, <5>1, <5>2 DEF Copied, SimicsAgrees, Stepped, Written
      <4>2. CASE ~Renames(h.op)
        BY <2>1, <4>2 DEF SimicsAgrees, Stepped, Renames, Traps
      <4> QED BY <4>1, <4>2
    <3>4. contents' = contents
      BY <2>1, <2>2, <3>3
    <3> QED BY <3>1, <3>2, <3>4 DEF Copied
  <2>5. WritesCopy'
    BY <2>1, <2>4 DEF WritesCopy
  <2> QED BY <2>3, <2>5
<1>6. ASSUME Squash PROVE (SimicsAgrees /\ WritesCopy)'
  <2>1. /\ Len(window) \in Nat /\ DOMAIN window = 1 .. Len(window)
        /\ DOMAIN window' = 1 .. Len(window) - 1
        /\ \A k \in 1 .. Len(window) - 1 : window'[k] = window[k]
        /\ contents' = contents /\ retireSet' = retireSet /\ simics' = simics
    BY <1>1, <1>6, SquashEffect
  <2>2. \A k \in DOMAIN window' : k \in DOMAIN window /\ window'[k] = window[k]
    BY <2>1
  <2> QED BY <2>1, <2>2 DEF SimicsAgrees, WritesCopy, Copied
<1>7. ASSUME Trap PROVE (SimicsAgrees /\ WritesCopy)'
  <2>1. /\ DOMAIN window' = {} /\ retireSet' = retireSet
        /\ contents' = [contents EXCEPT ![retireSet] = simics']
    BY <1>7, EmptySeq DEF Trap, Checked
  <2> QED BY <1>1, <2>1 DEF SimicsAgrees, WritesCopy, TypeOK
<1>8. CASE UNCHANGED vars
  BY <1>2, <1>8 DEF vars, SimicsAgrees, WritesCopy, Copied
<1> QED BY <1>2, <1>3, <1>4, <1>5, <1>6, <1>7, <1>8 DEF Next

LEMMA FileInvariance == Spec => []FileInv
<1>1. Init => FileInv
  BY FileInvInit
<1>2. FileInv /\ [Next]_vars => FileInv'
  BY FileInvNext
<1> QED BY <1>1, <1>2, PTL DEF Spec

-----------------------------------------------------------------------------
(***************************************************************************)
(* The refinement.                                                         *)
(***************************************************************************)

\* The flight of the file, as the refinement mapping reads it off the window.
FlightOf(q) == [i \in DOMAIN q |-> [op |-> q[i].op, done |-> q[i].done, got |-> q[i].got]]

Step == [op : Ops, done : BOOLEAN, got : SUBSET Values]

\* The older writes of register r.
OlderWrites(i, r) == {j \in 1 .. i - 1 : window[j].op.kind = "write" /\ window[j].op.reg = r}

\* What the file shows the instruction at place i.
Seen(i, r) == IF OlderWrites(i, r) = {} THEN contents[retireSet][r]
              ELSE window[Max(OlderWrites(i, r))].op.val

\* Once the older ones have filled their sets, the set an instruction reads holds what the
\* file shows it.
LEMMA SourceShowsFile ==
  ASSUME FileInv, NEW i \in 1 .. Len(window), NEW r \in Regs,
         \A j \in 1 .. i - 1 : Renames(window[j].op) => Written(window[j])
  PROVE  contents[window[i].source][r] = Seen(i, r)
<1> USE DEF FileInv
<1> DEFINE n == Len(window)
           Bad == {k \in 1 .. i : contents[window[k].source][r] # Seen(k, r)}
<1>1. /\ TypeOK /\ RingInProgramOrder /\ n \in Nat /\ DOMAIN window = 1 .. n
      /\ contents \in [Sets -> [Regs -> Values]]
  BY LenProperties DEF Inv, TypeOK
<1>2. SUFFICES ASSUME Bad # {} PROVE FALSE
  BY <1>1
<1>3. PICK k \in Bad : \A y \in Bad : k <= y
  <2>1. Bad \subseteq 1 .. i /\ i \in Nat
    BY <1>1
  <2> HIDE DEF Bad
  <2> QED BY <1>2, <2>1, LeastExists
<1>4. k \in 1 .. n /\ k \in 1 .. i
  BY <1>1
<1>5. CASE k = 1
  <2>1. OlderWrites(k, r) = {}
    BY <1>5 DEF OlderWrites
  <2>2. window[k].source = retireSet
    BY <1>1, <1>4, <1>5 DEF RingInProgramOrder, CurrentAfter
  <2> QED BY <2>1, <2>2 DEF Seen
<1>6. CASE k # 1
  <2> DEFINE m == k - 1
             w == window[m]
  <2>1. m \in 1 .. n /\ m \in 1 .. i /\ m \in 1 .. k - 1 /\ m \in 1 .. i - 1
    BY <1>1, <1>4, <1>6
  <2>2. contents[w.source][r] = Seen(m, r)
    BY <1>3, <1>4, <2>1
  <2>3. window[k].source = w.dest /\ w.source \in Sets /\ w.op.reg \in Regs
    BY <1>1, <1>4, <2>1, WindowFacts DEF RingInProgramOrder, CurrentAfter
  <2>4. CASE w.op.kind = "write" /\ w.op.reg = r
    <3>1. m \in OlderWrites(k, r)
      BY <2>1, <2>4 DEF OlderWrites
    <3>2. OlderWrites(k, r) \subseteq 1 .. m /\ m \in Nat
      BY <1>1, <1>4, <2>1 DEF OlderWrites
    <3>3. /\ Max(OlderWrites(k, r)) \in OlderWrites(k, r)
          /\ \A y \in OlderWrites(k, r) : y <= Max(OlderWrites(k, r))
      <4> HIDE DEF m
      <4> QED BY <3>1, <3>2, MaxExists
    <3>4. Max(OlderWrites(k, r)) = m
      BY <2>1, <3>1, <3>2, <3>3
    <3>5. Seen(k, r) = w.op.val
      BY <3>1, <3>4 DEF Seen
    <3>6. Copied(m)
      BY <1>1, <2>1, <2>4 DEF WritesCopy, Renames
    <3>7. contents[w.dest][r] = w.op.val
      BY <1>1, <2>3, <2>4, <3>6 DEF Copied
    <3> QED BY <1>3, <2>3, <3>5, <3>7
  <2>5. CASE ~(w.op.kind = "write" /\ w.op.reg = r)
    <3>1. OlderWrites(k, r) = OlderWrites(m, r)
      <4>1. \A y \in 1 .. k - 1 : y = m \/ y \in 1 .. m - 1
        BY <1>1, <1>4
      <4>2. \A y \in 1 .. m - 1 : y \in 1 .. k - 1
        BY <1>1, <1>4
      <4> QED BY <2>5, <4>1, <4>2 DEF OlderWrites
    <3>2. contents[w.dest][r] = contents[w.source][r]
      <4>1. CASE Renames(w.op)
        <5>1. Written(w) /\ Copied(m)
          BY <1>1, <2>1, <4>1 DEF WritesCopy
        <5> QED BY <1>1, <2>3, <2>5, <5>1 DEF Copied, Written
      <4>2. CASE ~Renames(w.op)
        BY <1>1, <2>1, <4>2 DEF RingInProgramOrder
      <4> QED BY <4>1, <4>2
    <3> QED BY <1>3, <2>2, <2>3, <3>1, <3>2 DEF Seen
  <2> QED BY <2>4, <2>5
<1> QED BY <1>5, <1>6

LEMMA FlightFacts ==
  ASSUME NEW q \in Seq(Instruction)
  PROVE  /\ DOMAIN FlightOf(q) = 1 .. Len(q) /\ Len(q) \in Nat /\ DOMAIN q = 1 .. Len(q)
         /\ FlightOf(q) \in Seq(Step) /\ Len(FlightOf(q)) = Len(q)
         /\ \A i \in 1 .. Len(q) :
               /\ FlightOf(q)[i].op = q[i].op /\ FlightOf(q)[i].done = q[i].done
               /\ FlightOf(q)[i].got = q[i].got
               /\ FlightOf(q)[i] = [op |-> q[i].op, done |-> q[i].done, got |-> q[i].got]
<1>1. Len(q) \in Nat /\ DOMAIN q = 1 .. Len(q)
  BY LenProperties
<1>2. \A i \in 1 .. Len(q) : q[i] \in Instruction
  BY ElementOfSeq
<1>3. \A i \in 1 .. Len(q) : FlightOf(q)[i] \in Step
  BY <1>1, <1>2 DEF FlightOf, Step, Instruction
<1>4. FlightOf(q) \in [1 .. Len(q) -> Step]
  BY <1>1, <1>3 DEF FlightOf
<1>5. FlightOf(q) \in Seq(Step) /\ DOMAIN FlightOf(q) = 1 .. Len(q)
  BY <1>1, <1>4, SeqDef
<1>6. Len(FlightOf(q)) = Len(q)
  BY <1>1, <1>5, LenProperties
<1> QED BY <1>1, <1>5, <1>6 DEF FlightOf

LEMMA InitRefines ==
  ASSUME Init PROVE File!Init
<1>1. DOMAIN window = {} /\ window = <<>>
  BY EmptySeq DEF Init
<1>2. FlightOf(window) = <<>>
  BY <1>1 DEF FlightOf
<1>3. contents[retireSet] = [r \in Regs |-> Initial]
  BY SetsFacts DEF Init
<1> QED BY <1>2, <1>3 DEF File!Init, FlightOf

LEMMA DecodeRefines ==
  ASSUME FileInv, NEW op \in Ops, Decode(op)
  PROVE  File!Enter(op)
<1> DEFINE e == [op |-> op, done |-> FALSE, got |-> {}]
           F == FlightOf(window)
           G == FlightOf(window')
           n == Len(window)
<1>1. TypeOK /\ window \in Seq(Instruction)
  BY DEF FileInv, Inv, TypeOK
<1>2. /\ n \in Nat /\ Len(window') = n + 1 /\ window' \in Seq(Instruction)
      /\ \A k \in 1 .. n : window'[k] = window[k]
      /\ window'[n + 1].op = op /\ window'[n + 1].done = FALSE
      /\ window'[n + 1].got = {}
      /\ contents' = contents /\ retireSet' = retireSet
  BY <1>1, DecodeEffect
<1>3. e \in Step
  BY DEF Step
<1>4. /\ F \in Seq(Step) /\ Len(F) = n /\ G \in Seq(Step) /\ Len(G) = n + 1
      /\ \A k \in 1 .. n : G[k] = F[k]
      /\ G[n + 1] = e
  <2>1. /\ F \in Seq(Step) /\ Len(F) = n
        /\ \A i \in 1 .. n : F[i] = [op |-> window[i].op, done |-> window[i].done,
                                    got |-> window[i].got]
    BY <1>1, FlightFacts
  <2>2. /\ G \in Seq(Step) /\ Len(G) = n + 1
        /\ \A i \in 1 .. n + 1 : G[i] = [op |-> window'[i].op, done |-> window'[i].done,
                                    got |-> window'[i].got]
    BY <1>2, FlightFacts
  <2>3. \A k \in 1 .. n : k \in 1 .. n + 1
    BY <1>2
  <2>4. \A k \in 1 .. n : G[k] = F[k]
    BY <1>2, <2>1, <2>2, <2>3
  <2>5. n + 1 \in 1 .. n + 1
    BY <1>2
  <2>6. G[n + 1] = e
    BY <1>2, <2>2, <2>5
  <2> QED BY <2>1, <2>2, <2>4, <2>6
<1> HIDE DEF e, F, G, n
<1>5. G = Append(F, e)
  <2>1. /\ Append(F, e) \in Seq(Step) /\ Len(Append(F, e)) = n + 1
        /\ \A k \in 1 .. n : Append(F, e)[k] = F[k]
        /\ Append(F, e)[n + 1] = e
    BY <1>3, <1>4, AppendProperties
  <2>2. \A k \in 1 .. n + 1 : G[k] = Append(F, e)[k]
    <3>1. \A k \in 1 .. n + 1 : k \in 1 .. n \/ k = n + 1
      BY <1>2
    <3> QED BY <1>4, <2>1, <3>1
  <2> QED BY <1>4, <2>1, <2>2, SeqEqual
<1> QED BY <1>2, <1>5 DEF File!Enter, FlightOf, e, F, G

LEMMA ExecuteRefines ==
  ASSUME FileInv, NEW i \in 1 .. RobSize, Execute(i)
  PROVE  File!Perform(i)
<1> DEFINE F == FlightOf(window)
           G == FlightOf(window')
           n == Len(window)
           reg == window[i].op.reg
<1>1. /\ Inv /\ TypeOK /\ RingInProgramOrder /\ window \in Seq(Instruction)
  BY DEF FileInv, Inv, TypeOK
<1>2. /\ n \in Nat /\ DOMAIN window = 1 .. n /\ i \in 1 .. n
      /\ Len(window') = n /\ window' \in Seq(Instruction)
      /\ \A k \in 1 .. n : k # i => window'[k] = window[k]
      /\ window'[i].op = window[i].op /\ window'[i].done = TRUE /\ ~window[i].done
      /\ isReady[window[i].source]
      /\ window'[i].got = {contents[window[i].source][reg]}
      /\ contents' = IF window[i].op.kind = "write"
                     THEN [contents EXCEPT ![window[i].dest] =
                             [Initialized(window[i]) EXCEPT ![window[i].op.reg] = window[i].op.val]]
                     ELSE contents
      /\ retireSet' = retireSet
  BY <1>1, ExecuteEffect
<1>3. /\ window[i].dest \in Sets /\ retireSet \in Sets /\ reg \in Regs
      /\ contents \in [Sets -> [Regs -> Values]]
  BY <1>1, <1>2, WindowFacts DEF TypeOK
<1>4. /\ DOMAIN F = 1 .. n /\ Len(F) = n
      /\ \A k \in 1 .. n : /\ F[k] = [op |-> window[k].op, done |-> window[k].done,
                                     got |-> window[k].got]
                           /\ F[k].op = window[k].op /\ F[k].done = window[k].done
  BY <1>1, <1>2, FlightFacts
<1>5. /\ DOMAIN G = 1 .. n
      /\ \A k \in 1 .. n : G[k] = [op |-> window'[k].op, done |-> window'[k].done,
                                  got |-> window'[k].got]
  BY <1>2, FlightFacts
<1>6. ASSUME NEW j \in 1 .. i - 1, Renames(window[j].op) PROVE Written(window[j])
  BY <1>1, <1>2, <1>6, OlderWritesDone
<1>7. contents[window[i].source][reg] = Seen(i, reg)
  BY <1>2, <1>3, <1>6, SourceShowsFile
<1> DEFINE W == {j \in 1 .. i - 1 : F[j].op.kind = "write" /\ F[j].op.reg = reg}
<1>8. W = OlderWrites(i, reg)
  <2>1. \A j \in 1 .. i - 1 : j \in 1 .. n
    BY <1>2
  <2> HIDE DEF F
  <2> QED BY <1>4, <2>1 DEF OlderWrites
<1>9. Seen(i, reg) = IF W = {} THEN contents[retireSet][reg] ELSE F[Max(W)].op.val
  <2>1. CASE W = {}
    BY <1>8, <2>1 DEF Seen
  <2>2. CASE W # {}
    <3>1. Max(W) \in W
      <4>1. W \subseteq 1 .. i /\ i \in Nat
        BY <1>2
      <4> HIDE DEF W
      <4> QED BY <2>2, <4>1, MaxExists
    <3>2. Max(W) \in 1 .. n
      <4>1. \A j \in W : j \in 1 .. n
        BY <1>2
      <4> QED BY <3>1, <4>1
    <3> HIDE DEF W, F
    <3> QED BY <1>4, <1>8, <2>2, <3>2 DEF Seen
  <2> QED BY <2>1, <2>2
<1>10. File!View(i)[reg] = Seen(i, reg)
  <2>1. File!Writers(i, reg) = W
    BY DEF File!Writers, FlightOf
  <2>2. File!View(i)[reg] = IF File!Writers(i, reg) = {} THEN contents[retireSet][reg]
                            ELSE F[Max(File!Writers(i, reg))].op.val
    BY <1>3 DEF File!View, FlightOf, File!Max, Max
  <2> HIDE DEF F, W
  <2> QED BY <1>9, <2>1, <2>2
<1>11. contents'[retireSet'] = contents[retireSet]
  <2>1. CASE window[i].op.kind = "write"
    <3>1. window[i].dest # CurrentAfter(0)
      BY <1>1, <1>2, <2>1 DEF RingInProgramOrder, Renames
    <3>2. window[i].dest # retireSet
      BY <3>1 DEF CurrentAfter
    <3> QED BY <1>2, <1>3, <2>1, <3>2
  <2>2. CASE window[i].op.kind # "write"
    BY <1>2, <2>2
  <2> QED BY <2>1, <2>2
<1> HIDE DEF F, G, n, W
<1>12. G = [F EXCEPT ![i] = [op |-> F[i].op, done |-> TRUE,
                             got |-> {File!View(i)[F[i].op.reg]}]]
  <2> DEFINE v == {File!View(i)[F[i].op.reg]}
             e == [op |-> F[i].op, done |-> TRUE, got |-> v]
  <2>1. F[i].op = window[i].op /\ v = {contents[window[i].source][reg]}
    BY <1>2, <1>4, <1>7, <1>10
  <2>2. G[i] = e
    <3>1. G[i] = [op |-> window'[i].op, done |-> window'[i].done, got |-> window'[i].got]
      BY <1>2, <1>5
    <3>2. window'[i].op = F[i].op /\ window'[i].done = TRUE /\ window'[i].got = v
      BY <1>2, <2>1
    <3> HIDE DEF v
    <3> QED BY <3>1, <3>2, Zenon
  <2>3. F = [k \in 1 .. n |-> F[k]] /\ G = [k \in 1 .. n |-> G[k]]
    <3>1. F = [k \in DOMAIN F |-> F[k]] /\ G = [k \in DOMAIN G |-> G[k]]
      BY DEF F, G, FlightOf
    <3> QED BY <1>4, <1>5, <3>1
  <2> HIDE DEF e
  <2>4. \A k \in 1 .. n : k # i => G[k] = F[k]
    BY <1>2, <1>4, <1>5
  <2>5. [F EXCEPT ![i] = e] = G
    BY <1>2, <1>4, <2>2, <2>3, <2>4
  <2> QED BY <2>5 DEF e
<1>13. /\ ~F[i].done
       /\ \A j \in 1 .. i - 1 :
             File!Reads(F[j].op) \/ (F[j].op.kind = "write" /\ F[j].done)
  <2>1. \A j \in 1 .. i - 1 : j \in 1 .. n
    BY <1>2
  <2> QED BY <1>2, <1>4, <1>6, <2>1 DEF Renames, Written, File!Reads
<1> QED BY <1>11, <1>12, <1>13 DEF File!Perform, FlightOf, F, G

LEMMA RetireRefines ==
  ASSUME FileInv, Retire
  PROVE  File!Leave
<1> DEFINE F == FlightOf(window)
           G == FlightOf(window')
           n == Len(window)
           h == window[1]
<1>1. /\ Inv /\ TypeOK /\ window \in Seq(Instruction)
  BY DEF FileInv, Inv, TypeOK
<1>2. /\ n \in Nat /\ n >= 1 /\ DOMAIN window = 1 .. n /\ window # <<>>
      /\ Len(window') = n - 1 /\ window' \in Seq(Instruction)
      /\ \A k \in 1 .. n - 1 : window'[k] = window[k + 1]
      /\ h.done /\ ~Traps(h.op) /\ simics' = Stepped(h.op)
      /\ contents' = [contents EXCEPT ![retireSet'] = simics']
      /\ h.source = retireSet /\ retireSet' = h.dest
      /\ Renames(h.op) => h.dest = Succ(retireSet)
      /\ ~Renames(h.op) => h.dest = retireSet
  BY <1>1, RetireEffect
<1>3. /\ h.dest \in Sets /\ retireSet \in Sets /\ 1 \in DOMAIN window
      /\ contents \in [Sets -> [Regs -> Values]]
  BY <1>1, <1>2, WindowFacts DEF TypeOK
<1>4. /\ F \in Seq(Step) /\ Len(F) = n
      /\ F[1].op = h.op /\ F[1].done = h.done
      /\ \A k \in 1 .. n : F[k] = [op |-> window[k].op, done |-> window[k].done,
                                  got |-> window[k].got]
  <2>1. 1 \in 1 .. n
    BY <1>2
  <2> QED BY <1>1, <2>1, FlightFacts
<1>5. /\ G \in Seq(Step) /\ Len(G) = n - 1
      /\ \A k \in 1 .. n - 1 : G[k] = [op |-> window'[k].op, done |-> window'[k].done,
                                      got |-> window'[k].got]
  BY <1>2, FlightFacts
<1> HIDE DEF F, G, n
<1>6. F # <<>> /\ Head(F) = F[1]
  <2>1. F # <<>>
    BY <1>2, <1>4, EmptySeq
  <2> QED BY <1>4, <2>1, HeadTailProperties
<1>7. G = Tail(F)
  <2>1. /\ Tail(F) \in Seq(Step) /\ Len(Tail(F)) = n - 1
        /\ \A k \in 1 .. n - 1 : Tail(F)[k] = F[k + 1]
    BY <1>4, <1>6, HeadTailProperties
  <2>2. ASSUME NEW k \in 1 .. n - 1 PROVE G[k] = Tail(F)[k]
    <3>1. k + 1 \in 1 .. n
      BY <1>2
    <3> QED BY <1>2, <1>4, <1>5, <2>1, <3>1
  <2> QED BY <1>5, <2>1, <2>2, SeqEqual
<1>8. contents'[retireSet'] = File!After(h.op, contents[retireSet])
  <2>1. contents'[retireSet'] = Stepped(h.op) /\ simics = contents[retireSet]
    BY <1>2, <1>3 DEF FileInv, SimicsAgrees
  <2> QED BY <2>1 DEF Stepped, File!After
<1>9. /\ F # <<>> /\ G = Tail(F)
      /\ Head(F).done /\ ~File!Traps(Head(F).op)
      /\ contents'[retireSet'] = File!After(Head(F).op, contents[retireSet])
  BY <1>2, <1>4, <1>6, <1>7, <1>8 DEF Traps, File!Traps
<1> HIDE DEF h
<1> QED BY <1>9 DEF File!Leave, FlightOf, F, G

LEMMA TrapRefines ==
  ASSUME FileInv, Trap
  PROVE  File!Trap
<1> DEFINE F == FlightOf(window)
           n == Len(window)
           h == window[1]
<1>1. TypeOK /\ window \in Seq(Instruction) /\ window # <<>>
  BY DEF FileInv, Inv, TypeOK, Trap
<1>2. n \in Nat /\ n >= 1 /\ Head(window) = h /\ 1 \in 1 .. n
  BY <1>1, TailFacts
<1>3. /\ window' = <<>> /\ retireSet' = retireSet /\ h.done /\ Traps(h.op)
      /\ contents'[retireSet] = Stepped(h.op)
  BY <1>1, <1>2 DEF Trap, Checked, TypeOK
<1>4. F \in Seq(Step) /\ Len(F) = n /\ F[1].op = h.op /\ F[1].done = h.done
  BY <1>1, <1>2, FlightFacts
<1>5. FlightOf(window') = <<>>
  BY <1>3, EmptySeq DEF FlightOf
<1> HIDE DEF F, n, h
<1>6. F # <<>> /\ Head(F) = F[1]
  <2>1. F # <<>>
    BY <1>2, <1>4, EmptySeq
  <2> QED BY <1>4, <2>1, HeadTailProperties
<1>7. contents'[retireSet'] = File!After(h.op, contents[retireSet])
  BY <1>3 DEF Stepped, File!After, FileInv, SimicsAgrees
<1>8. Head(F).done /\ File!Traps(Head(F).op)
  BY <1>3, <1>4, <1>6 DEF Traps, File!Traps
<1>9. contents'[retireSet'] = File!After(Head(F).op, contents[retireSet])
  BY <1>4, <1>6, <1>7
<1> QED BY <1>5, <1>6, <1>8, <1>9 DEF File!Trap, FlightOf, F

LEMMA SquashRefines ==
  ASSUME FileInv, Squash
  PROVE  File!Cut
<1> DEFINE F == FlightOf(window)
           G == FlightOf(window')
           n == Len(window)
<1>1. TypeOK /\ window \in Seq(Instruction)
  BY DEF FileInv, Inv, TypeOK
<1>2. /\ n \in Nat /\ n >= 1 /\ Len(window') = n - 1 /\ window' \in Seq(Instruction)
      /\ \A k \in 1 .. n - 1 : window'[k] = window[k]
      /\ contents' = contents /\ retireSet' = retireSet
  BY <1>1, SquashEffect
<1>3. /\ F \in Seq(Step) /\ Len(F) = n
      /\ \A k \in 1 .. n : F[k] = [op |-> window[k].op, done |-> window[k].done,
                                  got |-> window[k].got]
  BY <1>1, FlightFacts
<1>4. /\ G \in Seq(Step) /\ Len(G) = n - 1
      /\ \A k \in 1 .. n - 1 : G[k] = [op |-> window'[k].op, done |-> window'[k].done,
                                      got |-> window'[k].got]
  BY <1>2, FlightFacts
<1> HIDE DEF F, G, n
<1>5. F # <<>>
  BY <1>2, <1>3, EmptySeq
<1>6. G = SubSeq(F, 1, Len(F) - 1)
  <2>1. /\ SubSeq(F, 1, n - 1) \in Seq(Step) /\ Len(SubSeq(F, 1, n - 1)) = n - 1
        /\ \A k \in 1 .. n - 1 : SubSeq(F, 1, n - 1)[k] = F[k]
    BY <1>2, <1>3, SubSeqProperties
  <2>2. ASSUME NEW k \in 1 .. n - 1 PROVE G[k] = SubSeq(F, 1, n - 1)[k]
    <3>1. k \in 1 .. n
      BY <1>2
    <3> QED BY <1>2, <1>3, <1>4, <2>1, <3>1
  <2> QED BY <1>3, <1>4, <2>1, <2>2, SeqEqual
<1> QED BY <1>2, <1>5, <1>6 DEF File!Cut, FlightOf, F, G

\* The ring of sets is as good as one file of control registers used in
\* program order: what initializeControl copies, what is left to retirement and
\* what a trap leaves behind is what program order asks for.
THEOREM Refinement == Spec => ImplementsFile
<1>1. Init => File!Init
  BY InitRefines
<1>2. FileInv /\ [Next]_vars => [File!Next]_(File!vars)
  <2> SUFFICES ASSUME FileInv, [Next]_vars PROVE [File!Next]_(File!vars)
    OBVIOUS
  <2>1. ASSUME NEW op \in Ops, Decode(op) PROVE File!Next
    BY <2>1, DecodeRefines DEF File!Next
  <2>2. ASSUME NEW i \in 1 .. RobSize, Execute(i) PROVE File!Next
    <3>1. i \in DOMAIN window
      BY <2>2 DEF Execute
    <3> QED BY <2>2, <3>1, ExecuteRefines DEF File!Next
  <2>3. ASSUME Retire PROVE File!Next
    BY <2>3, RetireRefines DEF File!Next
  <2>4. ASSUME Trap PROVE File!Next
    BY <2>4, TrapRefines DEF File!Next
  <2>5. ASSUME Squash PROVE File!Next
    BY <2>5, SquashRefines DEF File!Next
  <2>6. CASE UNCHANGED vars
    BY <2>6 DEF vars, File!vars
  <2> QED BY <2>1, <2>2, <2>3, <2>4, <2>5, <2>6 DEF Next
<1> QED BY <1>1, <1>2, FileInvariance, PTL DEF Spec, ImplementsFile, File!Spec
=============================================================================
