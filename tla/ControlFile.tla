---------------------------- MODULE ControlFile ----------------------------
(***************************************************************************)
(* What the renaming of the control registers promises: one file of        *)
(* control registers, and instructions that read and write it as if one    *)
(* at a time, in program order.  There are no sets, no ring and no ready   *)
(* flags here; ControlSets is shown to implement this module.              *)
(***************************************************************************)
EXTENDS Integers, Sequences, FiniteSetsExt

CONSTANTS
    Regs,          \* the control registers
    Values,        \* the values they hold
    Initial,       \* the value all hold at the start
    Ops            \* what instructions do: see ControlSets

VARIABLES
    arch,          \* the registers after the last instruction that retired
    flight         \* the instructions in flight, oldest first

vars == <<arch, flight>>

Reads(op) == op.kind \in {"read", "trap"}
Traps(op) == op.kind \in {"trap", "failed"}

\* The registers once the instruction has taken effect.
After(op, file) == IF op.kind \in {"read", "order"} THEN file
                   ELSE [file EXCEPT ![op.reg] = op.val]

\* The instructions before place i that have written register r.
Writers(i, r) == {j \in 1 .. i - 1 : flight[j].op.kind = "write" /\ flight[j].op.reg = r}

\* The registers as the instruction at place i must find them: what the
\* closest older write left, or what has retired.
View(i) == [r \in Regs |->
    IF Writers(i, r) = {} THEN arch[r] ELSE flight[Max(Writers(i, r))].op.val]

Init == arch = [r \in Regs |-> Initial] /\ flight = <<>>

Enter(op) ==
    /\ flight' = Append(flight, [op |-> op, done |-> FALSE, got |-> {}])
    /\ UNCHANGED arch

\* An instruction takes the value of its register once all older ones that
\* are not only reads have made their writes; those that make them later
\* hold it up until they retire.
Perform(i) ==
    /\ ~flight[i].done
    /\ \A j \in 1 .. i - 1 :
          Reads(flight[j].op) \/ (flight[j].op.kind = "write" /\ flight[j].done)
    /\ flight' = [flight EXCEPT ![i] = [op |-> flight[i].op, done |-> TRUE,
                                        got |-> {View(i)[flight[i].op.reg]}]]
    /\ UNCHANGED arch

\* The oldest instruction retires.
Leave ==
    /\ flight # <<>> /\ Head(flight).done /\ ~Traps(Head(flight).op)
    /\ arch' = After(Head(flight).op, arch)
    /\ flight' = Tail(flight)

\* The oldest instruction traps: all younger ones are dropped.
Trap ==
    /\ flight # <<>> /\ Head(flight).done /\ Traps(Head(flight).op)
    /\ arch' = After(Head(flight).op, arch)
    /\ flight' = <<>>

\* The youngest instruction is squashed, whatever it has done.
Cut ==
    /\ flight # <<>>
    /\ flight' = SubSeq(flight, 1, Len(flight) - 1)
    /\ UNCHANGED arch

Next ==
    \/ \E op \in Ops : Enter(op)
    \/ \E i \in DOMAIN flight : Perform(i)
    \/ Leave
    \/ Trap
    \/ Cut

Spec == Init /\ [][Next]_vars
=============================================================================
