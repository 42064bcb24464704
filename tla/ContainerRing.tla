--------------------------- MODULE ContainerRing ---------------------------
(***************************************************************************)
(* Container registers (arf_container_t): a name for several registers     *)
(* that one instruction reads or writes together, such as the eight        *)
(* doubles of a 64-byte block or %y with the condition codes.  The parts   *)
(* are renamed by their own files; what the container keeps is, for each   *)
(* operand decoded, which physical registers its parts have: a slot of     *)
(* m_rename_map.  Slots are taken in a ring, by sources, by displaced      *)
(* registers and by destinations alike, and are never given back: not at   *)
(* retirement and not by a squash.                                         *)
(*                                                                         *)
(* One container type is modelled.  Its parts are renamed as a whole: Phys *)
(* is a choice of one physical register for each part.                     *)
(***************************************************************************)
EXTENDS Integers, Sequences, FiniteSets

CONSTANTS
    RobSize,       \* IWINDOW_ROB_SIZE
    Regs,          \* the registers of the type: where a block may start
    Phys,          \* what they are renamed to
    Ops,           \* how instructions use the type: stdfa reads it, umulcc writes
                   \* it, lddfa does both
    MaxAge         \* bound of the model: slots taken since an instruction in
                   \* flight took its first
ASSUME RingAssumption ==
    /\ RobSize \in Nat \ {0} /\ MaxAge \in Nat /\ MaxAge >= 3
    /\ Ops \subseteq {"read", "write", "copy"}
    /\ IsFiniteSet(Phys) /\ Cardinality(Phys) > Cardinality(Regs)

VARIABLES
    index,         \* m_rename_index of the type
    slots,         \* m_rename_map of the type
    decodeMap, retireMap, free,   \* the maps and the free registers of the parts
    window,        \* the instructions in flight that use the type, oldest first
    misled         \* history: a register was retired or put back through a slot
                   \* that may have been taken again by then

vars == <<index, slots, decodeMap, retireMap, free, window, misled>>

Size  == 4 * RobSize             \* m_size
Slots == 0 .. Size - 1
Named == [reg : Regs, phys : Phys]

\* An instruction keeps the numbers of its slots; the last three fields are
\* history: what the slots were filled with.
Instruction == [op : Ops, source : Slots, tofree : Slots, dest : Slots,
                age : 1 .. MaxAge, reg : Regs, displaced : Phys, given : Phys]

Reads(op)  == op \in {"read", "copy"}
Writes(op) == op \in {"write", "copy"}

\* Mutant of Slot: the index is not wrapped.
SlotNoWrap(k) == index + k

\* The slot taken k places after the next.
Slot(k) == (index + k) % Size

\* Mutant of Taken: only allocateRegister moves the index.
TakenByDest(op) == IF Writes(op) THEN 1 ELSE 0

\* Slots an instruction takes: one for the register it reads, and for one it
\* writes one to remember what that displaces and one for the new register.
Taken(op) == (IF Reads(op) THEN 1 ELSE 0) + (IF Writes(op) THEN 2 ELSE 0)

\* All slots have been taken behind the instruction, and some of its own again.
Lapped(d) == d.age > Size

\* What is found through the slots of such an instruction may not be its own.
Misleads(d) == Writes(d.op) /\ Lapped(d)

\* The place, among the slots taken, of what the write displaces.
First(op) == IF Reads(op) THEN 1 ELSE 0

(***************************************************************************)
(* Actions                                                                 *)
(***************************************************************************)

\* What a slot holds before it is first taken is never looked at.
Init ==
    /\ index = 0
    /\ \E start \in [Regs -> Phys] :
          /\ \A r, s \in Regs : r # s => start[r] # start[s]
          /\ decodeMap = start /\ retireMap = start
          /\ free = Phys \ {start[r] : r \in Regs}
          /\ \E r \in Regs : slots = [s \in Slots |-> [reg |-> r, phys |-> start[r]]]
    /\ window = <<>> /\ misled = FALSE

\* readDecodeMap of the source; readDecodeMap of the register to free later and
\* allocateRegister of the destination.
Decode(op, r, p) ==
    /\ Len(window) < RobSize
    /\ \A i \in DOMAIN window : window[i].age + Taken(op) <= MaxAge
    /\ p \in IF Writes(op) THEN free ELSE {decodeMap[r]}
    /\ slots' = [s \in Slots |->
                    IF Writes(op) /\ s = Slot(First(op) + 1) THEN [reg |-> r, phys |-> p]
                    ELSE IF s \in {Slot(k) : k \in 0 .. Taken(op) - 1}
                    THEN [reg |-> r, phys |-> decodeMap[r]]
                    ELSE slots[s]]
    /\ index' = Slot(Taken(op))
    /\ decodeMap' = [decodeMap EXCEPT ![r] = p]
    /\ free' = free \ {p}
    /\ window' = Append([i \in DOMAIN window |-> [window[i] EXCEPT !.age = @ + Taken(op)]],
                        [op |-> op, source |-> Slot(0), tofree |-> Slot(First(op)),
                         dest |-> IF Writes(op) THEN Slot(First(op) + 1) ELSE Slot(0),
                         age |-> Taken(op), reg |-> r, displaced |-> decodeMap[r], given |-> p])
    /\ UNCHANGED <<retireMap, misled>>

\* Mutant of RetireParts: the register written is freed, not the displaced one.
RetirePartsNew(d) ==
    /\ retireMap' = [retireMap EXCEPT ![slots[d.dest].reg] = slots[d.dest].phys]
    /\ free' = free \union {slots[d.dest].phys}

\* writeRetireMap of the destination, freeRegister of what it displaced.
RetireParts(d) ==
    /\ retireMap' = [retireMap EXCEPT ![slots[d.dest].reg] = slots[d.dest].phys]
    /\ free' = free \union {slots[d.tofree].phys}

\* retireRegisters of the oldest: both registers are found through the slots.
Retire ==
    /\ window # <<>>
    /\ IF Writes(Head(window).op) THEN RetireParts(Head(window))
                                  ELSE UNCHANGED <<retireMap, free>>
    /\ misled' = (misled \/ Misleads(Head(window)))
    /\ window' = Tail(window)
    /\ UNCHANGED <<index, slots, decodeMap>>

\* UnwindRegisters of the youngest: the index stays where it is.
Squash ==
    /\ window # <<>>
    /\ LET d == window[Len(window)] IN
       /\ IF Writes(d.op)
          THEN /\ decodeMap' = [decodeMap EXCEPT ![slots[d.tofree].reg] = slots[d.tofree].phys]
               /\ free' = free \union {slots[d.dest].phys}
          ELSE UNCHANGED <<decodeMap, free>>
       /\ misled' = (misled \/ Misleads(d))
    /\ window' = SubSeq(window, 1, Len(window) - 1)
    /\ UNCHANGED <<index, slots, retireMap>>

Next ==
    \/ \E op \in Ops, r \in Regs, p \in Phys : Decode(op, r, p)
    \/ Retire
    \/ Squash

Spec == Init /\ [][Next]_vars

(***************************************************************************)
(* Properties                                                              *)
(***************************************************************************)

\* Type invariant of the ring, the maps and the instructions in flight.
TypeOK ==
    /\ index \in Slots
    /\ slots \in [Slots -> Named]
    /\ decodeMap \in [Regs -> Phys] /\ retireMap \in [Regs -> Phys]
    /\ free \subseteq Phys
    /\ window \in Seq(Instruction)
    /\ misled \in BOOLEAN

\* The slots of d still name what decode put there.
StillNamed(d) ==
    /\ Reads(d.op) => slots[d.source] = [reg |-> d.reg, phys |-> d.displaced]
    /\ Writes(d.op) => /\ slots[d.tofree] = [reg |-> d.reg, phys |-> d.displaced]
                       /\ slots[d.dest]   = [reg |-> d.reg, phys |-> d.given]

\* The slots of every instruction in flight still name what decode put there:
\* m_rename_map is the "per instruction window array for decode, retire
\* mappings of inflight instructions" (arf.h:608), of a size made "big enough"
\* (arf.h:541).
SlotsKept == \A i \in DOMAIN window : StillNamed(window[i])

\* What the ring does provide: an instruction loses its slots only when, counting
\* those of squashed instructions, the whole ring has been taken since its own
\* first, and no older or younger instruction loses them with it.
SlotsKeptUntilLapped == \A i \in DOMAIN window : Lapped(window[i]) \/ StillNamed(window[i])

\* Every physical register is free, architected, or the destination of one
\* instruction in flight, and of nothing else, though retirement and squash
\* know registers only through the slots: until one of them has used the slots
\* of a lapped instruction.  An instruction that is lapped and still in flight
\* does no harm, nor does one that only reads.
PartsNeverLeak ==
    misled \/ \A p \in Phys :
        Cardinality({1 : x \in free \intersect {p}})
        + Cardinality({r \in Regs : retireMap[r] = p})
        + Cardinality({i \in DOMAIN window : Writes(window[i].op) /\ window[i].given = p}) = 1

\* The container's own state and the registers of its parts agree (arf.C:3158 to
\* 3268): indexes in their types and each physical register with one owner.
PartsConsistent == TypeOK /\ PartsNeverLeak
=============================================================================
