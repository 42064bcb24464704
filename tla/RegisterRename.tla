--------------------------- MODULE RegisterRename ---------------------------
(***************************************************************************)
(* Register renaming of the out-of-order simulator (GEMS opal): the decode *)
(* and retire maps and the free list of one register class (reg_map_t),    *)
(* the readiness of its physical registers and the instructions waiting on *)
(* them (physical_file_t), and the operations a dynamic instruction makes  *)
(* on them: Decode, Schedule, the write-back that ends its execution,      *)
(* retireRegisters and Squash.                                             *)
(*                                                                         *)
(* An instruction is a record: the logical registers it writes and reads   *)
(* come from its static instruction; phys, tofree and srcPhys are what     *)
(* Decode fills in; untested counts the sources whose readiness Schedule   *)
(* has still to confirm (WAIT_4TH_STAGE .. WAIT_1ST_STAGE).  Only the first *)
(* issue sources are confirmed before the instruction issues: a store or   *)
(* an atomic issues with its address and, when data is set (the access is  *)
(* cacheable), waits for its other sources in the middle of its execution, *)
(* at stage "early" (EARLY_STORE_STAGE, EARLY_ATOMIC_STAGE).  An           *)
(* instruction that waits sits on the wait list of srcPhys[untested].      *)
(***************************************************************************)
EXTENDS Integers, Sequences, FiniteSetsExt, Functions

CONSTANTS
    NumPhysical,   \* registers of the physical file (m_num_physical)
    NumLogical,    \* logical registers of the map (m_num_logical)
    Reserves,      \* m_reserves: decode stops when no more than these are free
    RobSize,       \* instructions the window holds between decode and retire
    DestLists,     \* the destination lists a static instruction can have
    ReadKinds      \* the sources a static instruction can have, how many of
                   \* them it waits for to issue, and if it waits for the rest

Physical == 0 .. NumPhysical - 1
Logical  == 1 .. NumLogical

Distinct(s) == \A j, k \in DOMAIN s : s[j] = s[k] => j = k

ASSUME CountsAssumption ==
    /\ NumPhysical \in Nat /\ NumLogical \in Nat /\ NumPhysical >= NumLogical
    /\ Reserves \in Nat /\ RobSize \in Nat

\* No static instruction names a register of one class twice as destination,
\* and the reserve covers all but one of the destinations of any instruction.
ASSUME ListsAssumption ==
    /\ \A d \in DestLists : /\ d \in Seq(Logical)
                            /\ Distinct(d)
                            /\ Len(d) <= Reserves + 1
    /\ \A s \in ReadKinds : /\ s \in [sources : Seq(Logical), issue : Nat, data : BOOLEAN]
                            /\ s.issue <= Len(s.sources)

VARIABLES
    freelist,      \* the stack m_freelist[0 .. m_freelist_index]
    decodeMap,     \* logical -> physical, for the next instruction to decode
    retireMap,     \* logical -> physical, after the last retired instruction
    renameCount,   \* m_logical_rename_count
    isReady,       \* the value of the physical register has been written
    window         \* the decoded instructions in flight, oldest first

vars == <<freelist, decodeMap, retireMap, renameCount, isReady, window>>

Stage == {"decoded", "wait", "ready", "early", "complete"}

Instruction ==
    [dests : DestLists, phys : Seq(Physical), tofree : Seq(Physical),
     sources : Seq(Logical), srcPhys : Seq(Physical),
     issue : Nat, data : BOOLEAN, untested : Nat, stage : Stage]

(***************************************************************************)
(* Helpers                                                                 *)
(***************************************************************************)

\* Mutant of Remap: only the first destination of a pair is mapped.
RemapFirst(map, regs, to) ==
    [l \in DOMAIN map |-> IF regs # <<>> /\ l = regs[1] THEN to[1] ELSE map[l]]

\* map after regs[k] has been pointed at to[k], for every k (setMapping).
Remap(map, regs, to) ==
    [l \in DOMAIN map |->
        IF l \in Range(regs) THEN to[CHOOSE k \in DOMAIN regs : regs[k] = l]
        ELSE map[l]]

\* Mutant of Recount: a pair of destinations is counted once.
RecountFirst(count, regs, by) ==
    [l \in DOMAIN count |-> IF regs # <<>> /\ l = regs[1] THEN count[l] + by ELSE count[l]]

\* Change of the rename counts of the registers in regs.
Recount(count, regs, by) ==
    [l \in DOMAIN count |-> IF l \in Range(regs) THEN count[l] + by ELSE count[l]]

\* Mutant of Popped: the stack index is not moved between two allocations.
PoppedSame(n) == [k \in 1 .. n |-> freelist[Len(freelist)]]

\* The n registers regAllocate pops, in the order it pops them.
Popped(n) == [k \in 1 .. n |-> freelist[Len(freelist) - k + 1]]

\* regsAvailable: more registers are free than are held in reserve.
RegsAvailable == Len(freelist) > Reserves

\* SetStage; the wait stages carry the number of sources still untested.
SetStage(d, untested, stage) ==
    [d EXCEPT !.untested = untested, !.stage = stage]

\* Mutant of TestSources: the wait stage recorded is one source too late.
TestSourcesLate(d, ready) ==
    LET blocked == {k \in 1 .. d.untested : ~ready[d.srcPhys[k]]}
    IN  IF blocked = {}
        THEN SetStage(d, 0, "ready")
        ELSE SetStage(d, Max(blocked) + 1, "wait")

\* Schedule: confirm the untested sources from the last to the first, and
\* stop at one that is not ready; with none left the scheduler takes over.
TestSources(d, ready) ==
    LET blocked == {k \in 1 .. d.untested : ~ready[d.srcPhys[k]]}
    IN  IF blocked = {}
        THEN SetStage(d, 0, "ready")
        ELSE SetStage(d, Max(blocked), "wait")

\* Mutant of HasSources: the sources an access waits for late are not asked.
HasAddress(d, ready) == \A k \in 1 .. d.issue : ready[d.srcPhys[k]]

\* Every source has its value.
HasSources(d, ready) == \A k \in DOMAIN d.srcPhys : ready[d.srcPhys[k]]

\* The loop over all sources of an access that needs its data: sleep on the
\* first that is not ready; with none left the access goes on.
TestData(d, ready) ==
    LET missing == {k \in DOMAIN d.srcPhys : ~ready[d.srcPhys[k]]}
    IN  IF HasSources(d, ready)
        THEN SetStage(d, 0, "ready")
        ELSE SetStage(d, Min(missing), "early")

\* A woken instruction goes on where it stopped.
Resume(d, ready) ==
    IF d.stage = "early" THEN TestData(d, ready) ELSE TestSources(d, ready)

Waiting(d) == d.stage \in {"wait", "early"}

\* Mutant of WaitsOn: every waiter is queued on its last source.
WaitsOnLast(d, regs) == Waiting(d) /\ d.srcPhys[Len(d.srcPhys)] \in regs

\* d is on the wait list of one of these registers.
WaitsOn(d, regs) == Waiting(d) /\ d.srcPhys[d.untested] \in regs

(***************************************************************************)
(* Actions                                                                 *)
(***************************************************************************)

\* initialize allocates the architected registers from the top of the list
\* and writes each once (setInt), which makes it ready.
Init ==
    /\ freelist = [k \in 1 .. NumPhysical - NumLogical |-> k - 1]
    /\ decodeMap = [l \in Logical |-> NumPhysical - l]
    /\ retireMap = decodeMap
    /\ renameCount = [l \in Logical |-> 1]
    /\ isReady = [p \in Physical |-> p >= NumPhysical - NumLogical]
    /\ window = <<>>

\* One turn of the decode loop: read the sources' and the displaced mappings,
\* then allocate a register for every destination.
Decode(dests, reads) ==
    /\ Len(window) < RobSize
    /\ RegsAvailable
    /\ window' = Append(window,
           [dests    |-> dests,
            phys     |-> Popped(Len(dests)),
            tofree   |-> [k \in DOMAIN dests |-> decodeMap[dests[k]]],
            sources  |-> reads.sources,
            srcPhys  |-> [k \in DOMAIN reads.sources |-> decodeMap[reads.sources[k]]],
            issue    |-> reads.issue,
            data     |-> reads.data,
            untested |-> reads.issue,
            stage    |-> "decoded"])
    /\ freelist' = SubSeq(freelist, 1, Len(freelist) - Len(dests))
    /\ decodeMap' = Remap(decodeMap, dests, Popped(Len(dests)))
    /\ renameCount' = Recount(renameCount, dests, 1)
    /\ UNCHANGED <<retireMap, isReady>>

\* One turn of the schedule loop, which takes instructions in window order.
Schedule(i) ==
    /\ i \in DOMAIN window
    /\ window[i].stage = "decoded"
    /\ \A j \in 1 .. i - 1 : window[j].stage # "decoded"
    /\ window' = [window EXCEPT ![i] = TestSources(@, isReady)]
    /\ UNCHANGED <<freelist, decodeMap, retireMap, renameCount, isReady>>

\* An access that has its address lacks a source: it stops until that is
\* written (continueExecution, lsqBypass).
WaitForData(i) ==
    /\ i \in DOMAIN window
    /\ window[i].stage = "ready"
    /\ window[i].data /\ ~HasSources(window[i], isReady)
    /\ window' = [window EXCEPT ![i] = TestData(@, isReady)]
    /\ UNCHANGED <<freelist, decodeMap, retireMap, renameCount, isReady>>

\* Execution ends: every destination is written (setInt, setReady) and its
\* wait list woken, each waiter resuming its own Schedule where it stopped.
\* A waiter with nothing left to wait for is at "ready" again and ends its
\* execution in a step of its own.
Complete(i) ==
    /\ i \in DOMAIN window
    /\ window[i].stage = "ready"
    /\ window[i].data => HasSources(window[i], isReady)
    /\ LET written == Range(window[i].phys) IN
       /\ isReady' = [p \in Physical |-> isReady[p] \/ p \in written]
       /\ window' = [j \in DOMAIN window |->
              IF j = i THEN SetStage(window[i], 0, "complete")
              ELSE IF WaitsOn(window[j], written)
                   THEN Resume(window[j], isReady')
                   ELSE window[j]]
    /\ UNCHANGED <<freelist, decodeMap, retireMap, renameCount>>

\* Mutant of Retire: the new registers are freed instead of the displaced ones.
RetireFreesNew ==
    /\ window # <<>>
    /\ LET d == Head(window) IN
       /\ d.stage = "complete"
       /\ retireMap' = Remap(retireMap, d.dests, d.phys)
       /\ freelist' = freelist \o d.phys
       /\ isReady' = [p \in Physical |-> isReady[p] /\ p \notin Range(d.phys)]
       /\ renameCount' = Recount(renameCount, d.dests, -1)
    /\ window' = Tail(window)
    /\ UNCHANGED decodeMap

\* retireRegisters of the oldest instruction: its mappings become the
\* architected ones, and the registers they displace are freed.
Retire ==
    /\ window # <<>>
    /\ LET d == Head(window) IN
       /\ d.stage = "complete"
       /\ retireMap' = Remap(retireMap, d.dests, d.phys)
       /\ freelist' = freelist \o d.tofree
       /\ isReady' = [p \in Physical |-> isReady[p] /\ p \notin Range(d.tofree)]
       /\ renameCount' = Recount(renameCount, d.dests, -1)
    /\ window' = Tail(window)
    /\ UNCHANGED decodeMap

\* Squash of the youngest instruction in flight.  A squash of the window to
\* an older instruction is a run of these, youngest first, and a trap ends
\* its run with the instruction at the head.
Squash ==
    /\ window # <<>>
    /\ LET d == window[Len(window)] IN
       /\ decodeMap' = Remap(decodeMap, d.dests, d.tofree)
       /\ freelist' = freelist \o d.phys
       /\ isReady' = [p \in Physical |-> isReady[p] /\ p \notin Range(d.phys)]
       /\ renameCount' = Recount(renameCount, d.dests, -1)
    /\ window' = SubSeq(window, 1, Len(window) - 1)
    /\ UNCHANGED retireMap

Next ==
    \/ \E dests \in DestLists, reads \in ReadKinds : Decode(dests, reads)
    \/ \E i \in 1 .. RobSize : Schedule(i) \/ WaitForData(i) \/ Complete(i)
    \/ Retire
    \/ Squash

Spec == Init /\ [][Next]_vars

\* The sequencer schedules decoded instructions and executes ready ones in
\* every cycle (WaitForData needs no fairness: the sources it waits for come
\* with the older instructions); nothing forces it to decode, to retire or to squash.
FairSpec ==
    /\ Spec
    /\ \A i \in 1 .. RobSize : WF_vars(Schedule(i)) /\ WF_vars(Complete(i))

(***************************************************************************)
(* Properties                                                              *)
(***************************************************************************)

\* Instruction d writes logical register l, into register p.
Writes(d, l, p) == \E k \in DOMAIN d.dests : d.dests[k] = l /\ d.phys[k] = p

NotWritten(win, l, from, to) == \A j \in from .. to : l \notin Range(win[j].dests)

\* In window win, over retire map retire, p holds logical register l for the
\* instruction at place i: the closest older writer put it there or, with none
\* in flight, p is the architected register.
Provides(win, retire, i, l, p) ==
    \/ p = retire[l] /\ NotWritten(win, l, 1, i - 1)
    \/ \E j \in 1 .. i - 1 : Writes(win[j], l, p) /\ NotWritten(win, l, j + 1, i - 1)

InFlight(win, p) == \E j \in DOMAIN win : p \in Range(win[j].phys)

\* Every operand of the instruction has its register.
WellFormed(d) ==
    /\ Len(d.phys) = Len(d.dests)
    /\ Len(d.tofree) = Len(d.dests)
    /\ Len(d.srcPhys) = Len(d.sources)
    /\ d.issue <= Len(d.sources)
    /\ d.untested <= Len(d.sources)

\* Type invariant of the rename state and of the instructions in flight.
TypeOK ==
    /\ freelist \in Seq(Physical)
    /\ decodeMap \in [Logical -> Physical]
    /\ retireMap \in [Logical -> Physical]
    /\ renameCount \in [Logical -> Int]
    /\ isReady \in [Physical -> BOOLEAN]
    /\ window \in Seq(Instruction)
    /\ \A i \in DOMAIN window : WellFormed(window[i])

\* Every physical register has exactly one owner: a place of the free list, a
\* logical register of the retire map or a destination of one instruction in
\* flight.  It is what leakCheck and buildFreelist (regmap.C) look for: a
\* register on no list is a leak, one on two is freed twice.
NoRegisterLeak ==
    /\ Distinct(freelist)
    /\ Distinct(retireMap)
    /\ \A i, j \in DOMAIN window :
          \A m \in DOMAIN window[i].phys, n \in DOMAIN window[j].phys :
             window[i].phys[m] = window[j].phys[n] => i = j /\ m = n
    /\ \A k \in DOMAIN freelist : freelist[k] \notin Range(retireMap)
                                  /\ ~InFlight(window, freelist[k])
    /\ \A l \in Logical : ~InFlight(window, retireMap[l])
    /\ \A p \in Physical : \/ p \in Range(freelist)
                           \/ p \in Range(retireMap)
                           \/ InFlight(window, p)

\* Out-of-order renaming is the program order's: the decode map is what the
\* youngest writers left, each instruction reads the register of its closest
\* older writer, and the register it displaces (and restores if squashed) is
\* the one that writer left.  A squash or retire that restored or freed in
\* the wrong order breaks it several instructions later.
ProgramOrderMaps ==
    /\ \A l \in Logical : Provides(window, retireMap, Len(window) + 1, l, decodeMap[l])
    /\ \A i \in DOMAIN window :
          /\ \A k \in DOMAIN window[i].dests :
                Provides(window, retireMap, i, window[i].dests[k], window[i].tofree[k])
          /\ \A k \in DOMAIN window[i].sources :
                Provides(window, retireMap, i, window[i].sources[k], window[i].srcPhys[k])

\* No lost wakeup and no wait on a freed register: an instruction waits only
\* for a register that an older instruction in flight has still to write, one
\* handed to the scheduler has the sources it issues with, and one that
\* completed has all of them, unless its access is not cacheable.  The
\* assertions of regAllocate and regFree (empty wait list) and of waitResult
\* (register not free) are instances of it.
NoLostWakeup ==
    \A i \in DOMAIN window :
        LET d == window[i] IN
        /\ Waiting(d) =>
              \E j \in 1 .. i - 1 : /\ d.srcPhys[d.untested] \in Range(window[j].phys)
                                    /\ window[j].stage # "complete"
        /\ d.stage \in {"ready", "early", "complete"} =>
              \A k \in 1 .. d.issue : isReady[d.srcPhys[k]]
        /\ d.stage = "complete" /\ d.data =>
              \A k \in DOMAIN d.srcPhys : isReady[d.srcPhys[k]]

\* A register is ready exactly when its value was written by an instruction
\* that still owns it: architected registers always, those of an instruction
\* in flight once it has completed, free ones never.
ReadyTracksOwner ==
    /\ \A l \in Logical : isReady[retireMap[l]]
    /\ \A k \in DOMAIN freelist : ~isReady[freelist[k]]
    /\ \A i \in DOMAIN window : \A k \in DOMAIN window[i].phys :
          isReady[window[i].phys[k]] <=> window[i].stage = "complete"

\* m_logical_rename_count of a register is its mappings alive: the
\* architected one and those of the writers in flight, so regFree never
\* meets the count at zero.
RenameCountExact ==
    \A l \in Logical : renameCount[l] =
        1 + Cardinality({i \in DOMAIN window : l \in Range(window[i].dests)})

\* What the renaming writes down about registers agrees with the instructions in
\* flight: the wait lists, the flags of readiness (regfile.C:191) and the counts of
\* mappings (regmap.C:144), which different handlers update.
BookkeepingExact == NoLostWakeup /\ ReadyTracksOwner /\ RenameCountExact

\* The oldest instruction in flight completes unless it is squashed.
HeadCompletes ==
    window # <<>> ~> (window = <<>> \/ Head(window).stage = "complete")
=============================================================================
