---------------------------- MODULE MemoryAccess ----------------------------
(***************************************************************************)
(* Accesses to memory as opal's memory instructions make them, shared by   *)
(* the load/store queue and by the memory it must look like.               *)
(*                                                                         *)
(* Memory is divided in lines of LineUnits units; a unit stands for the    *)
(* smallest access (4 bytes).  What a unit holds is named by the sequence  *)
(* number of the instruction that wrote it, zero at first.                 *)
(***************************************************************************)
EXTENDS Integers

CONSTANTS
    LineUnits,  \* units of a line (MEMOP_BLOCK_MASK + 1 bytes)
    NumLines,   \* lines of memory
    Ops         \* the memory instructions that a program may contain

Kinds == {"load", "store", "swap", "ldstub"}

\* An access: what it does, where, and how many units wide it is (m_access_size).
Accesses == [kind : Kinds, line : 0 .. NumLines - 1, offset : 0 .. LineUnits - 1, size : 1 .. LineUnits]

ASSUME MemoryAccessAssumption ==
    /\ LineUnits \in Nat \ {0}
    /\ NumLines \in Nat \ {0}
    /\ Ops \subseteq {op \in Accesses : op.offset + op.size <= LineUnits}

Reads(op) == op.kind # "store"
Writes(op) == op.kind # "load"
Atomic(op) == op.kind \in {"swap", "ldstub"}

Units(op) == op.offset .. op.offset + op.size - 1

Memory == [0 .. NumLines - 1 -> [0 .. LineUnits - 1 -> Nat]]

InitialMemory == [l \in 0 .. NumLines - 1 |-> [u \in 0 .. LineUnits - 1 |-> 0]]

\* What an access reads from mem: for each of its units the writer and the unit
\* of the writer's data.
ReadMemory(mem, op) == [u \in Units(op) |-> <<mem[op.line][u], u>>]

\* mem after access op of instruction seq.
WriteMemory(mem, op, seq) ==
    IF Writes(op)
    THEN [mem EXCEPT ![op.line] = [u \in 0 .. LineUnits - 1 |-> IF u \in Units(op) THEN seq ELSE @[u]]]
    ELSE mem
=============================================================================
