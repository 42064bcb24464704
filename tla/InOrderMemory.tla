--------------------------- MODULE InOrderMemory ---------------------------
(***************************************************************************)
(* What the load/store queue promises: memory that instructions access one *)
(* after the other, in program order.  An instruction that reads gets what *)
(* the writes before it left.                                              *)
(***************************************************************************)
EXTENDS MemoryAccess

VARIABLES
    memory,     \* what each unit holds
    count,      \* the instructions done
    result,     \* what the last one read, nothing for a store
    misread     \* the last one was misfed: what it read is anything

vars == <<memory, count, result, misread>>

Nothing == <<>>

Init == memory = InitialMemory /\ count = 0 /\ result = Nothing /\ misread = FALSE

Access(op) ==
    /\ count' = count + 1
    /\ memory' = WriteMemory(memory, op, count + 1)
    /\ misread' \in BOOLEAN
    /\ ~ misread' => result' = IF Reads(op) THEN ReadMemory(memory, op) ELSE Nothing

Next == \E op \in Ops : Access(op)

Spec == Init /\ [][Next]_vars
=============================================================================
