---------------------------- MODULE ControlSets ----------------------------
(***************************************************************************)
(* Renaming of the control registers (arf_control_t).  They are not        *)
(* renamed one by one: an instruction that writes any of them is given a   *)
(* whole set of them, the next of a ring, and starts from a copy of the    *)
(* set before it.  There is no free list: the sets between m_retire_rf and *)
(* m_decode_rf are in use because the ring is entered and left in program  *)
(* order, and a set may be used once its CONTROL_ISREADY is.               *)
(*                                                                         *)
(* An instruction's op says what it does once the set that was current     *)
(* when it was decoded is ready:                                           *)
(*   "read"        it reads a register;                                    *)
(*   "write"       it takes a set and fills it when it executes;           *)
(*   "order"       a store to the MMU: its set only orders what follows,   *)
(*                 and is filled when the store retires;                   *)
(*   "functional"  it is left to the functional simulator: its set gets    *)
(*                 its register from there when it retires;                *)
(*   "trap"        it takes no set and traps when it is the oldest;        *)
(*   "failed"      it has taken a set, does not fill it, and traps.        *)
(* How an instruction waits for its set is in RegisterRename.              *)
(***************************************************************************)
EXTENDS Integers, Sequences

CONSTANTS
    NumSets,       \* m_rf_count, CONFIG_NUM_CONTROL_SETS
    RobSize,       \* instructions the window holds between decode and retire
    Regs, Values, Initial,
    Ops            \* what the instructions of the program can do

Kinds == {"read", "write", "order", "functional", "trap", "failed"}
Sets  == 0 .. NumSets - 1

\* The set before set 0 is found as (0 - 1) % m_rf_count in 32 unsigned bits:
\* the last set only if their number is a power of two.
ASSUME SetsAssumption ==
    /\ NumSets \in Nat /\ NumSets >= 2
    /\ \E k \in 1 .. 15 : NumSets = 2 ^ k
ASSUME OpsAssumption ==
    /\ RobSize \in Nat /\ Initial \in Values
    /\ Ops \subseteq [kind : Kinds, reg : Regs, val : Values]

VARIABLES
    retireSet,     \* m_retire_rf
    decodeSet,     \* m_decode_rf
    isReady,       \* CONTROL_ISREADY of each set
    contents,      \* the registers of each set
    window,        \* the decoded instructions in flight, oldest first
    simics         \* the control registers of the functional simulator

vars == <<retireSet, decodeSet, isReady, contents, window, simics>>

Instruction == [op : Ops, source : Sets, dest : Sets, done : BOOLEAN, got : SUBSET Values]

\* Mutant of Succ: the index of the next set is not wrapped.
SuccNoWrap(s) == s + 1

Succ(s) == (s + 1) % NumSets

\* Mutant of Pred: the set before the first one is not wrapped to the last.
PredNoWrap(s) == IF s = 0 THEN 0 ELSE s - 1

Pred(s) == (s - 1) % NumSets

Renames(op) == op.kind \notin {"read", "trap"}
Traps(op)   == op.kind \in {"trap", "failed"}

\* An instruction that has filled its set.
Written(d) == d.op.kind = "write" /\ d.done

(***************************************************************************)
(* Actions                                                                 *)
(***************************************************************************)

Init ==
    /\ retireSet = 0 /\ decodeSet = 0
    /\ isReady = [s \in Sets |-> s = 0]
    /\ contents = [s \in Sets |-> [r \in Regs |-> Initial]]
    /\ window = <<>>
    /\ simics = [r \in Regs |-> Initial]

\* Mutant of RegsAvailable: decode does not wait for a set.
AlwaysAvailable == TRUE

\* The next set is not the one that holds the architected registers.
RegsAvailable == Succ(decodeSet) # retireSet

\* Decode: the source is the current set; a write allocates the next one.
Decode(op) ==
    /\ Len(window) < RobSize
    /\ RegsAvailable
    /\ LET dest == IF Renames(op) THEN Succ(decodeSet) ELSE decodeSet IN
       /\ window' = Append(window, [op |-> op, source |-> decodeSet, dest |-> dest,
                                    done |-> FALSE, got |-> {}])
       /\ decodeSet' = dest
       /\ isReady' = IF Renames(op) THEN [isReady EXCEPT ![dest] = FALSE] ELSE isReady
    /\ UNCHANGED <<retireSet, contents, simics>>

\* Mutant of Initialized: the architected set is copied, not the one before.
InitializedFromRetired(d) == contents[retireSet]

\* initializeControl copies the set before, unless that is not ready.
Initialized(d) == IF isReady[Pred(d.dest)] THEN contents[Pred(d.dest)] ELSE contents[d.dest]

\* Mutant of Finalized: the set is not made ready.
NotFinalized(ready, d) == ready

\* finalizeControl
Finalized(ready, d) == [ready EXCEPT ![d.dest] = TRUE]

\* Execution, once the source is ready: read the register and, for a write,
\* INIT_CONTROL, WRITE_CONTROL and FINALIZE_CONTROL.
Execute(i) ==
    /\ i \in DOMAIN window
    /\ LET d == window[i] IN
       /\ ~d.done
       /\ isReady[d.source]
       /\ window' = [window EXCEPT ![i].done = TRUE, ![i].got = {contents[d.source][d.op.reg]}]
       /\ IF d.op.kind = "write"
          THEN /\ contents' = [contents EXCEPT ![d.dest] =
                                  [Initialized(d) EXCEPT ![d.op.reg] = d.op.val]]
               /\ isReady' = Finalized(isReady, d)
          ELSE UNCHANGED <<contents, isReady>>
    /\ UNCHANGED <<retireSet, decodeSet, simics>>

\* The functional simulator steps over an instruction.
Stepped(op) == IF op.kind \in {"read", "order"} THEN simics
               ELSE [simics EXCEPT ![op.reg] = op.val]

\* Mutant of Freed: a set that is left stays ready.
FreedReady(ready, s) == ready

\* freeRegister: the set is to be written again before it is read.
Freed(ready, s) == [ready EXCEPT ![s] = FALSE]

\* checkAllState: the architected set gets the functional simulator's registers.
Checked(s, regs) == [contents EXCEPT ![s] = regs]

\* Retirement of the oldest.  A set not filled so far is finalized first; then
\* it becomes the architected one and the one before it is freed.  In the end
\* checkAllState makes all its registers those of the functional simulator:
\* what a store to the MMU copied, or the one register updateInstructionState
\* set in a set that was never initialized, does not outlive the step.
Retire ==
    /\ window # <<>>
    /\ LET d == Head(window) IN
       /\ d.done /\ ~Traps(d.op)
       /\ IF Renames(d.op)
          THEN isReady' = Freed(IF Written(d) THEN isReady ELSE Finalized(isReady, d), d.source)
          ELSE UNCHANGED isReady
       /\ retireSet' = IF Renames(d.op) THEN d.dest ELSE retireSet
       /\ simics' = Stepped(d.op)
       /\ contents' = Checked(retireSet', simics')
    /\ window' = Tail(window)
    /\ UNCHANGED decodeSet

\* takeTrap: the younger instructions are squashed, then the oldest, and the
\* architected set gets what the trap has made of the control registers.
Trap ==
    /\ window # <<>>
    /\ LET d == Head(window) IN
       /\ d.done /\ Traps(d.op)
       /\ decodeSet' = d.source
       /\ simics' = Stepped(d.op)
    /\ isReady' = [s \in Sets |-> isReady[s] /\ \A i \in DOMAIN window :
                      Renames(window[i].op) => window[i].dest # s]
    /\ contents' = Checked(retireSet, simics')
    /\ window' = <<>>
    /\ UNCHANGED retireSet

\* Squash of the youngest: the current set is again the one it displaced.
Squash ==
    /\ window # <<>>
    /\ LET d == window[Len(window)] IN
       IF Renames(d.op)
       THEN /\ decodeSet' = d.source
            /\ isReady' = Freed(isReady, d.dest)
       ELSE UNCHANGED <<decodeSet, isReady>>
    /\ window' = SubSeq(window, 1, Len(window) - 1)
    /\ UNCHANGED <<retireSet, contents, simics>>

Next ==
    \/ \E op \in Ops : Decode(op)
    \/ \E i \in 1 .. RobSize : Execute(i)
    \/ Retire
    \/ Trap
    \/ Squash

Spec == Init /\ [][Next]_vars

\* The sequencer executes and retires in every cycle what it can; nothing
\* makes it decode, and a squash may come at any time.
FairSpec == Spec /\ WF_vars(Retire) /\ WF_vars(Trap) /\ \A i \in 1 .. RobSize : WF_vars(Execute(i))

(***************************************************************************)
(* Properties                                                              *)
(***************************************************************************)

\* Type invariant of the ring and of the instructions in flight.
TypeOK ==
    /\ retireSet \in Sets /\ decodeSet \in Sets
    /\ isReady \in [Sets -> BOOLEAN]
    /\ contents \in [Sets -> [Regs -> Values]]
    /\ window \in Seq(Instruction)
    /\ Len(window) <= RobSize
    /\ simics \in [Regs -> Values]

\* The set that is current after the instruction at place i, or before any.
CurrentAfter(i) == IF i = 0 THEN retireSet ELSE window[i].dest

\* The ring is entered and left in program order: each instruction reads the
\* set the one before it left current, a write takes the next one, and no
\* set is handed out again while it is the architected one or is still to be
\* retired or restored by a squash.  The messages of writeRetireMap and
\* writeDecodeMap ("does not advance sequentially") are instances of it.
RingInProgramOrder ==
    /\ decodeSet = CurrentAfter(Len(window))
    /\ \A i \in DOMAIN window :
          /\ window[i].source = CurrentAfter(i - 1)
          /\ window[i].dest = IF Renames(window[i].op) THEN Succ(window[i].source)
                              ELSE window[i].source
          /\ Renames(window[i].op) =>
                \A j \in i .. Len(window), k \in 0 .. i - 1 : window[j].dest # CurrentAfter(k)

\* A set is ready exactly while it holds registers an instruction may read:
\* the architected one, and those of writes in flight that have executed.
\* So every set finds the set before it ready when it is initialized, and a
\* trap that empties the window leaves a set that can be read.
\* With it allocateRegister never meets the set it wants still active.
ReadyTracksWriter ==
    \A s \in Sets : isReady[s] <=>
        \/ s = retireSet
        \/ \E i \in DOMAIN window : Written(window[i]) /\ window[i].dest = s

\* Copying sets around the ring is as good as one file of registers used in
\* program order: every read returns what the closest older write left, also
\* after sets were squashed, reused, filled late or emptied by a trap.
File == INSTANCE ControlFile WITH
    arch   <- contents[retireSet],
    flight <- [i \in DOMAIN window |-> [op |-> window[i].op, done |-> window[i].done,
                                        got |-> window[i].got]]
ImplementsFile == File!Spec

\* No instruction waits for ever for its set: the oldest leaves the window,
\* so a ring that is full empties again.
RingDrains == Len(window) = RobSize \/ ~RegsAvailable ~>
                 Len(window) < RobSize /\ RegsAvailable
=============================================================================
