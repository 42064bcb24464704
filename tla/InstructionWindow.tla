-------------------------- MODULE InstructionWindow --------------------------
(***************************************************************************)
(* The pipeline of one sequencer (pseq_t): simple fetch, decode, dispatch, *)
(* completion and retirement around the instruction window (iwindow_t), a  *)
(* ring with four indices.  Decode and dispatch learn how many instructions*)
(* are due from two delay rings (FiniteCycle) that hold batch sizes by     *)
(* cycle.  Instructions that complete may raise an exception; the oldest   *)
(* one raised in a cycle is handled when the next retirement stage starts. *)
(*                                                                         *)
(* advanceCycle calls the stages in a fixed order: phase says which one is *)
(* next.  The stages of a cycle are sequential code, so each is an action, *)
(* but retirement, which takes one step per instruction, and completion,   *)
(* whose order the scheduler and the caches decide.                        *)
(*                                                                         *)
(* wrong: fetch did not follow the control instruction where it really     *)
(* goes.  stale: the instruction has read memory too early and must be     *)
(* fetched again.  Both are facts about the program, which the code has    *)
(* to handle; it learns of them when an instruction completes.             *)
(***************************************************************************)
EXTENDS Integers, Sequences, FiniteSetsExt

CONSTANTS
    RobSize,       \* slots of the ring (m_rob_size)
    WinSize,       \* instructions scheduled and not retired (m_win_size)
    FetchStages,   \* FETCH_STAGES
    DecodeStages,  \* DECODE_STAGES
    MaxFetch, MaxDecode, MaxDispatch, MaxRetire,
    MispredPenalty,   \* BRANCHPRED_MISPRED_PENALTY
    Histories,        \* number of values of the predictor state (a power of 2)
    Kinds             \* the kinds of instruction in the program

\* Bound on the cycles a ring delays by, and the sizes a ring can have.
MaxDelay == 2 ^ 15 - 1
Powers   == {2 ^ k : k \in 0 .. 15}

\* A call pushes on the return-address stack; a restore (i_restore) leaves the predictor
\* alone; "control" stands for the other control instructions, which predict.  An
\* itlbmiss stands for an instruction whose fetch missed in the instruction TLB; a
\* barrier (SI_FETCH_BARRIER) is a memory instruction.
AllKinds     == {"control", "call", "restore", "other", "barrier", "itlbmiss"}
ControlKinds == {"control", "call", "restore"}
Stoppers     == {"barrier", "itlbmiss"}

ASSUME SizesAssumption ==
    /\ RobSize \in Nat /\ WinSize \in 1 .. RobSize
    /\ {MaxFetch, MaxDecode, MaxDispatch, MaxRetire} \subseteq Nat \ {0}
    /\ Histories \in Nat \ {0}
    /\ {FetchStages, DecodeStages} \subseteq 1 .. MaxDelay
    /\ MispredPenalty \in 0 .. MaxDelay
    /\ Kinds \subseteq AllKinds

\* Mutant of MinPowerOfTwo: a ring of as many entries as there are stages.
TightPowerOfTwo(n) == CHOOSE m \in Powers : n <= m /\ m < 2 * n

\* min_power_of_two: the smallest power of two greater than n.
MinPowerOfTwo(n) == CHOOSE m \in Powers : n < m /\ m <= 2 * n

FetchRing  == MinPowerOfTwo(FetchStages)
DecodeRing == MinPowerOfTwo(DecodeStages)

\* The cycle counter is only used modulo a ring and for equality with a cycle
\* MispredPenalty ahead; CycleBound is a multiple of both rings.
CycleBound == Max({FetchRing, DecodeRing, MinPowerOfTwo(Max({MispredPenalty, 1}))})

Slots == 0 .. RobSize - 1

VARIABLES
    phase,           \* the stage advanceCycle calls next
    cycle,           \* m_local_cycles modulo CycleBound
    window,          \* m_window
    lastFetched, lastDecoded, lastScheduled, lastRetired,
    fetchPerCycle,   \* m_fetch_per_cycle
    decodePerCycle,  \* m_decode_per_cycle
    fetchStatus,     \* m_fetch_status
    fetchReady,      \* m_fetch_ready_cycle while the status is squash, else 0
    lastCall,        \* last_d_call_instr: none, the youngest in flight, or gone (deleted)
    exception,       \* m_except_type and m_next_exception
    specBPS, archBPS,   \* speculative and retired predictor state
    retireCount      \* retire_count of the running retirement stage

pointers == <<lastFetched, lastDecoded, lastScheduled, lastRetired>>
batches  == <<fetchPerCycle, decodePerCycle>>
fetching == <<fetchStatus, fetchReady, lastCall>>
bps      == <<specBPS, archBPS>>
vars == <<phase, cycle, window, pointers, batches, fetching, exception, bps, retireCount>>

Empty == [kind |-> "none"]
NoException == [type |-> "none", index |-> 0]

(***************************************************************************)
(* The window                                                              *)
(***************************************************************************)

Inc(i) == (i + 1) % RobSize

\* Mutant of Dec: no wrap at slot 0.
DecNoWrap(i) == i - 1

Dec(i) == (i + RobSize - 1) % RobSize

\* Slots after i up to j.
Distance(i, j) == (j - i + RobSize) % RobSize

\* Offset from the retired index, through which rangeSubtract subtracts.
Offset(i) == Distance(lastRetired, i)

RangeSubtract(i, j) == Offset(i) - Offset(j)

RangeOverlap(lower, upper, i) ==
    IF lower <= upper THEN lower <= i /\ i <= upper
    ELSE ~(upper < i /\ i < lower)

\* The slots a loop visits that walks down from "from" and stops at "to".
Walk(from, to) == {i \in Slots : Distance(i, from) < Distance(to, from)}

InFlight == Walk(lastFetched, lastRetired)

\* Mutant of FreeSlots: every slot of the ring is used.
AllFreeSlots == RobSize - Offset(lastFetched)

\* isSlotAvailable leaves one slot of the ring unused.
FreeSlots == RobSize - 1 - Offset(lastFetched)

\* Predictor state after a branch predicted in one direction.
Predict(history, direction) == (2 * history + direction) % Histories
Flip(history) == IF history % 2 = 0 THEN (history + 1) % Histories ELSE history - 1
Pop(history) == history \div 2

(***************************************************************************)
(* Exceptions and squashes                                                 *)
(***************************************************************************)

\* Mutant of RaiseException: indices compared without regard to the wrap.
RaiseUnwrapped(type, index) ==
    IF \/ exception.type = "none"
       \/ index < exception.index
       \/ index = exception.index /\ type = "mispredict"
    THEN [type |-> type, index |-> index]
    ELSE exception

\* Mutant of RaiseException: the first exception raised at an index stays.
RaiseFirst(type, index) ==
    IF exception.type = "none" \/ RangeSubtract(index, exception.index) < 0
    THEN [type |-> type, index |-> index]
    ELSE exception

\* raiseException: the oldest one stays; at one index a misprediction wins.
RaiseException(type, index) ==
    IF \/ exception.type = "none"
       \/ RangeSubtract(index, exception.index) < 0
       \/ index = exception.index /\ type = "mispredict"
    THEN [type |-> type, index |-> index]
    ELSE exception

\* Mutant of ClearException: the exception stays pending.
KeepException == exception' = exception

ClearException == exception' = NoException

\* Mutant of Restored: the retired state is restored, whatever is in flight.
RestoredArch(win, retired, good, arch) == arch

\* iwindow_t::squash, given the window and the retired index and predictor
\* state of the moment: the predictor state of the youngest control left.
Restored(win, retired, good, arch) ==
    LET controls == {i \in Walk(good, retired) : win[i].kind \in ControlKinds}
    IN  IF controls = {} THEN arch
        ELSE win[CHOOSE i \in controls :
                     \A j \in controls : Distance(i, good) <= Distance(j, good)].history

\* iwindow_t::squash and retirement delete the instructions, but last_d_call_instr stays.
CallDeleted == IF lastCall = "none" THEN "none" ELSE "gone"

\* partialSquash: empty the window behind good, flush both delay rings, and
\* restart fetch, at once or after the penalty of a misprediction.
PartialSquash(win, retired, good, arch) ==
    LET gone == Walk(lastFetched, lastDecoded) \cup Walk(lastDecoded, good)
        inExecute == RangeOverlap(retired, lastScheduled, good)
        numDecoded == Distance(retired, good) - Distance(retired, lastScheduled)
    IN  /\ window' = [i \in Slots |-> IF i \in gone THEN Empty ELSE win[i]]
        /\ specBPS' = Restored(win, retired, good, arch)
        /\ lastFetched' = good
        /\ lastDecoded' = good
        /\ lastScheduled' = IF inExecute THEN good ELSE lastScheduled
        /\ fetchPerCycle' = [s \in 0 .. FetchRing - 1 |-> 0]
        /\ decodePerCycle' = [s \in 0 .. DecodeRing - 1 |->
               IF s = (cycle + 1) % DecodeRing /\ ~inExecute THEN numDecoded ELSE 0]
        /\ IF exception.type = "mispredict" /\ MispredPenalty # 0
           THEN /\ fetchStatus' = "squash"
                /\ fetchReady' = (cycle + MispredPenalty) % CycleBound
           ELSE /\ fetchStatus' = "ready"
                /\ fetchReady' = 0
        /\ lastCall' = IF good = lastFetched /\ win[good] # Empty THEN lastCall ELSE CallDeleted

(***************************************************************************)
(* The stages                                                              *)
(***************************************************************************)

Init ==
    /\ phase = "fetch" /\ cycle = 0 /\ retireCount = 0
    /\ window = [i \in Slots |-> Empty]
    /\ lastFetched = RobSize - 1 /\ lastDecoded = RobSize - 1
    /\ lastScheduled = RobSize - 1 /\ lastRetired = RobSize - 1
    /\ fetchPerCycle = [s \in 0 .. FetchRing - 1 |-> 0]
    /\ decodePerCycle = [s \in 0 .. DecodeRing - 1 |-> 0]
    /\ fetchStatus = "ready" /\ fetchReady = 0 /\ lastCall = "none"
    /\ exception = NoException
    /\ specBPS = 0 /\ archBPS = 0

\* The batch a stage hands on, due after the given number of cycles.
InsertFetched(n) ==
    fetchPerCycle' = [fetchPerCycle EXCEPT ![(cycle + FetchStages) % FetchRing] = n]

\* Mutant of CarryOver: what is left over is forgotten.
ForgetLeftover(ring, at, n) == ring

\* What a stage could not take is added to the next cycle's batch.
CarryOver(ring, at, n) == [ring EXCEPT ![at] = @ + n]

\* The penalty of a squash is over when its cycle has come.
StatusNow ==
    IF fetchStatus = "squash" /\ fetchReady = cycle THEN "ready" ELSE fetchStatus

\* fetchInstrSimple while fetch is stalled.
FetchStalled ==
    /\ phase = "fetch" /\ StatusNow # "ready"
    /\ InsertFetched(0)
    /\ phase' = "decode"
    /\ UNCHANGED <<cycle, window, pointers, decodePerCycle, fetching, exception, bps,
                   retireCount>>

\* What fetch can find: any kind, and for a control the direction predicted
\* and whether the prediction is wrong.
Fetchable ==
    [kind : Kinds \ ControlKinds, wrong : {FALSE}, direction : {0}]
        \cup [kind : Kinds \cap {"restore"}, wrong : BOOLEAN, direction : {0}]
        \cup [kind : Kinds \cap {"call"}, wrong : BOOLEAN, direction : {1}]
        \cup [kind : Kinds \cap {"control"}, wrong : BOOLEAN, direction : {0, 1}]

\* Only the last instruction of a group can be one that stops fetch.
Groups ==
    {g \in UNION {[1 .. n -> Fetchable] : n \in 0 .. MaxFetch} :
        \A k \in 1 .. Len(g) - 1 : g[k].kind \notin Stoppers}

\* Mutant of UndoesPush: whatever was fetched before.
UndoesAnyPush(g, k) == g[k].kind = "restore"

\* A restore fetched right behind a call takes the push of the call back.
UndoesPush(g, k) ==
    /\ g[k].kind = "restore"
    /\ IF k = 1 THEN lastCall # "none" ELSE g[k - 1].kind = "call"

\* The predictor state before the group and after each instruction of it.
HistoryAfter(g) ==
    {after \in [0 .. Len(g) -> 0 .. Histories - 1] :
        /\ after[0] = specBPS
        /\ \A k \in 1 .. Len(g) :
               after[k] = IF g[k].kind \in {"control", "call"} THEN Predict(after[k - 1], g[k].direction)
                          ELSE IF UndoesPush(g, k) THEN Pop(after[k - 1])
                          ELSE after[k - 1]}

\* The predictor state kept by each: a control's is that after it, but a restore's that
\* before it takes back a push, which is written to the call instead.  When the call is
\* gone its memory is free, or that of the restore, which was created since.
HistoryKept(g, after) ==
    {kept \in [1 .. Len(g) -> 0 .. Histories - 1] :
        \A k \in 1 .. Len(g) :
            IF g[k].kind = "restore"
            THEN \/ kept[k] = after[k - 1]
                 \/ k = 1 /\ lastCall = "gone" /\ kept[k] = after[k]
            ELSE kept[k] = after[IF k < Len(g) /\ g[k].kind = "call" /\ g[k + 1].kind = "restore"
                                 THEN k + 1 ELSE k]}

\* How the loop can end after the group: at a stopper, on a cache miss, at a
\* line or taken branch, at MaxFetch or with a full window (which only this
\* cycle reports: WIN_FULL becomes READY again at the end).
StatusAfter(g) ==
    IF g # <<>> /\ g[Len(g)].kind \in Stoppers THEN {g[Len(g)].kind}
    ELSE {st \in {"ready", "icachemiss"} :
            /\ st = "ready" => Len(g) > 0 \/ FreeSlots = 0
            /\ st = "icachemiss" => Len(g) < MaxFetch /\ Len(g) < FreeSlots}

\* A new instruction; a control keeps the predictor state after it.
Inserted(fetched, history) ==
    [kind |-> fetched.kind, done |-> FALSE, stale |-> FALSE, wrong |-> fetched.wrong,
     popAgain |-> FALSE, history |-> IF fetched.kind \in ControlKinds THEN history ELSE 0]

\* The window with the push of the call fetched last taken back by the group.
WithPushUndone(g, after) ==
    IF lastCall = "inflight" /\ g # <<>> /\ g[1].kind = "restore"
    THEN [window EXCEPT ![lastFetched].history = after[1]]
    ELSE window

\* fetchInstrSimple otherwise: create and insert the instructions of a group.
FetchGroup(g) ==
    /\ phase = "fetch" /\ StatusNow = "ready"
    /\ Len(g) <= FreeSlots
    /\ fetchStatus' \in StatusAfter(g)
    /\ fetchReady' = 0
    /\ lastFetched' = (lastFetched + Len(g)) % RobSize
    /\ \E after \in HistoryAfter(g) : \E kept \in HistoryKept(g, after) :
           /\ window' = [i \in Slots |->
                  IF Distance(lastFetched, i) \in DOMAIN g
                  THEN Inserted(g[Distance(lastFetched, i)], kept[Distance(lastFetched, i)])
                  ELSE WithPushUndone(g, after)[i]]
           /\ specBPS' = after[Len(g)]
    /\ lastCall' = IF g = <<>> THEN lastCall
                   ELSE IF g[Len(g)].kind = "call" THEN "inflight" ELSE "none"
    /\ InsertFetched(Len(g))
    /\ phase' = "decode"
    /\ UNCHANGED <<cycle, lastDecoded, lastScheduled, lastRetired, decodePerCycle,
                   exception, archBPS, retireCount>>

\* decodeInstruction: n of the instructions due are decoded.  Fewer than it
\* could only for want of registers, which cannot be when none is held by a
\* decoded instruction (RegisterRename!NoRegisterLeak).
Decode(n) ==
    LET due == fetchPerCycle[cycle % FetchRing]
        most == Min({due, MaxDecode})
        next == (cycle + 1) % FetchRing
    IN  /\ phase = "decode"
        /\ n <= most
        /\ n = most \/ Offset(lastDecoded) + n > 0
        /\ lastDecoded' = (lastDecoded + n) % RobSize
        /\ fetchPerCycle' = CarryOver(fetchPerCycle, next, due - n)
        /\ decodePerCycle' =
               [decodePerCycle EXCEPT ![(cycle + DecodeStages) % DecodeRing] = n]
        /\ phase' = "schedule"
        /\ UNCHANGED <<cycle, window, lastFetched, lastScheduled, lastRetired, fetching,
                       exception, bps, retireCount>>

\* scheduleInstruction: as many as are due while the scheduling window has room.
Schedule ==
    LET due == decodePerCycle[cycle % DecodeRing]
        n == Min({due, MaxDispatch, Max({WinSize - Offset(lastScheduled), 0})})
        next == (cycle + 1) % DecodeRing
    IN  /\ phase = "schedule"
        /\ lastScheduled' = (lastScheduled + n) % RobSize
        /\ decodePerCycle' = CarryOver(decodePerCycle, next, due - n)
        /\ phase' = "recover"
        /\ UNCHANGED <<cycle, window, lastFetched, lastDecoded, lastRetired, fetchPerCycle,
                       fetching, exception, bps, retireCount>>

\* retireInstruction, first half: squash to the pending exception.  Fetch goes
\* on where the mispredicted control really leads.
Recover ==
    /\ phase = "recover"
    /\ phase' = "retire" /\ retireCount' = 0
    /\ ClearException
    /\ IF exception.type = "none"
       THEN UNCHANGED <<window, pointers, batches, fetching, specBPS>>
       ELSE LET good == exception.index
                win == IF exception.type = "mispredict"
                       THEN [window EXCEPT ![good].wrong = FALSE] ELSE window
            IN  /\ PartialSquash(win, lastRetired, good, archBPS)
                /\ UNCHANGED lastRetired
    /\ UNCHANGED <<cycle, archBPS>>

Oldest == Inc(lastRetired)

\* iwindow_t::retireInstruction gives an instruction out when it is done.
OldestDone == window[Oldest] # Empty /\ window[Oldest].done

WithoutOldest == [window EXCEPT ![Oldest] = Empty]

\* The retired predictor state after the head's Retire.
ArchAfterOldest ==
    IF window[Oldest].popAgain THEN Pop(window[Oldest].history)
    ELSE IF window[Oldest].kind \in ControlKinds THEN window[Oldest].history
    ELSE archBPS

\* Mutant of SpecAfterOldest: every retiring control writes the speculative state.
SpecFromAnyControl ==
    IF window[Oldest].kind \in ControlKinds THEN ArchAfterOldest ELSE specBPS

\* setSpecBPS of a return that was mispredicted and whose target is found one
\* level up the stack: the popped state replaces that of the controls behind it.
SpecAfterOldest == IF window[Oldest].popAgain THEN ArchAfterOldest ELSE specBPS

\* Mutant of StatusAfterRetire: a retired barrier leaves fetch stalled.
StayStalled(d) == fetchStatus

\* A barrier that retires restarts fetch (unstallFetch).
StatusAfterRetire(d) == IF d.kind = "barrier" THEN "ready" ELSE fetchStatus

\* One turn of the retirement loop.
RetireOne ==
    /\ phase = "retire" /\ OldestDone
    /\ window[Oldest].kind # "itlbmiss"
    /\ window' = WithoutOldest
    /\ lastRetired' = Oldest
    /\ archBPS' = ArchAfterOldest
    /\ specBPS' = SpecAfterOldest
    /\ fetchStatus' = StatusAfterRetire(window[Oldest])
    /\ lastCall' = IF Oldest = lastFetched THEN CallDeleted ELSE lastCall
    /\ IF retireCount + 1 >= MaxRetire
       THEN phase' = "execute" /\ retireCount' = 0
       ELSE phase' = "retire" /\ retireCount' = retireCount + 1
    /\ UNCHANGED <<cycle, lastFetched, lastDecoded, lastScheduled, batches, fetchReady,
                   exception>>

\* The turn ends retirement with a full squash: the head's state is reloaded
\* after its Retire (must_update_all), or it traps instead of retiring.
RetireAndSquash(traps) ==
    /\ phase = "retire" /\ OldestDone
    /\ window[Oldest].kind = "itlbmiss" => traps
    /\ lastRetired' = Oldest
    /\ archBPS' = IF traps THEN archBPS ELSE ArchAfterOldest
    /\ PartialSquash(WithoutOldest, Oldest, Oldest, archBPS')
    /\ retireCount' = 0
    /\ phase' = "execute"
    /\ UNCHANGED <<cycle, exception>>

\* The loop finds nothing (more) to retire.
RetireNone ==
    /\ phase = "retire" /\ ~OldestDone
    /\ phase' = "execute" /\ retireCount' = 0
    /\ UNCHANGED <<cycle, window, pointers, batches, fetching, exception, bps>>

Executing == {i \in Walk(lastScheduled, lastRetired) : ~window[i].done}

\* Younger memory instructions that an executing store can find misspeculated
\* (storeSearch replays each of them).
Replayable(i) ==
    {j \in Walk(lastScheduled, i) : window[j].kind \in {"other", "barrier"}}

\* An instruction completes.  A control finds out that its prediction was wrong:
\* a branch corrects its predictor state, a return leaves it for Retire, where the
\* stack may show that it should have been popped again.  A store finds out that
\* younger loads came early.
Complete(i, stale, popAgain) ==
    /\ phase = "execute" /\ i \in Executing
    /\ stale \subseteq IF window[i].kind = "other" THEN Replayable(i) ELSE {}
    /\ popAgain => window[i].wrong /\ window[i].kind = "control"
    /\ window' = [j \in Slots |->
           IF j = i THEN [window[j] EXCEPT
                             !.done = TRUE, !.popAgain = popAgain,
                             !.history = IF window[j].wrong /\ window[j].kind # "restore" /\ ~popAgain
                                         THEN Flip(@) ELSE @]
           ELSE IF j \in stale THEN [window[j] EXCEPT !.stale = TRUE]
           ELSE window[j]]
    /\ exception' =
           IF window[i].wrong THEN RaiseException("mispredict", i)
           ELSE IF stale # {}
           THEN RaiseException("replay", Dec(CHOOSE j \in stale :
                                    \A k \in stale : Offset(j) <= Offset(k)))
           ELSE exception
    /\ UNCHANGED <<phase, cycle, pointers, batches, fetching, bps, retireCount>>

\* Mutant of Wakeup: a late answer wakes fetch from any stall.
WakeupAlways ==
    /\ phase = "execute" /\ fetchStatus # "ready"
    /\ fetchStatus' = "ready"
    /\ UNCHANGED <<phase, cycle, window, pointers, batches, fetchReady, lastCall, exception,
                   bps, retireCount>>

\* Wakeup: the instruction cache has the line fetch waits for.
Wakeup ==
    /\ phase = "execute" /\ fetchStatus = "icachemiss"
    /\ fetchStatus' = "ready"
    /\ UNCHANGED <<phase, cycle, window, pointers, batches, fetchReady, lastCall, exception,
                   bps, retireCount>>

EndCycle ==
    /\ phase = "execute"
    /\ phase' = "fetch" /\ retireCount' = 0
    /\ cycle' = (cycle + 1) % CycleBound
    /\ UNCHANGED <<window, pointers, batches, fetching, exception, bps>>

Next ==
    \/ FetchStalled
    \/ \E g \in Groups : FetchGroup(g)
    \/ \E n \in 0 .. MaxDecode : Decode(n)
    \/ Schedule
    \/ Recover
    \/ RetireOne
    \/ \E traps \in BOOLEAN : RetireAndSquash(traps)
    \/ RetireNone
    \/ \E i \in Slots, stale \in SUBSET Slots, popAgain \in BOOLEAN :
           Complete(i, stale, popAgain)
    \/ Wakeup
    \/ EndCycle

Spec == Init /\ [][Next]_vars

\* Every cycle ends, and in the cycles to come the oldest instruction, once scheduled,
\* gets its functional unit, the cache answers, and the line fetched again is a hit.
Fairness ==
    /\ WF_vars(Next)
    /\ SF_vars(\E stale \in SUBSET Slots, popAgain \in BOOLEAN : Complete(Oldest, stale, popAgain))
    /\ SF_vars(Wakeup)
    /\ SF_vars(\E g \in Groups \ {<<>>} : FetchGroup(g))

FairSpec == Spec /\ Fairness

(***************************************************************************)
(* Properties                                                              *)
(***************************************************************************)

Instruction ==
    [kind : Kinds, done : BOOLEAN, stale : BOOLEAN, wrong : BOOLEAN, popAgain : BOOLEAN,
     history : 0 .. Histories - 1]

\* Types of the variables; the batch sizes never exceed what the window holds.
TypeOK ==
    /\ phase \in {"fetch", "decode", "schedule", "recover", "retire", "execute"}
    /\ cycle \in 0 .. CycleBound - 1
    /\ window \in [Slots -> Instruction \cup {Empty}]
    /\ pointers \in Slots \X Slots \X Slots \X Slots
    /\ fetchPerCycle \in [0 .. FetchRing - 1 -> 0 .. RobSize - 1]
    /\ decodePerCycle \in [0 .. DecodeRing - 1 -> 0 .. RobSize - 1]
    /\ fetchStatus \in {"ready", "squash", "icachemiss", "itlbmiss", "barrier"}
    /\ fetchReady \in 0 .. CycleBound - 1
    /\ lastCall \in {"none", "inflight", "gone"}
    /\ exception \in [type : {"mispredict", "replay"}, index : Slots] \cup {NoException}
    /\ bps \in (0 .. Histories - 1) \X (0 .. Histories - 1)
    /\ retireCount \in 0 .. MaxRetire - 1

\* The slots in use are exactly those after the last retired up to the last
\* fetched, and no index of the ring overtakes the one before it: no stage ever
\* gets a NULL slot or an instruction of an older round of the ring.
RingInOrder ==
    /\ \A i \in Slots : window[i] # Empty <=> i \in InFlight
    /\ Offset(lastScheduled) <= Offset(lastDecoded)
    /\ Offset(lastDecoded) <= Offset(lastFetched)
    /\ Offset(lastScheduled) <= WinSize

\* What a delay ring still holds, from the current or the next cycle on, is n:
\* left[d] of them are due in d or more cycles.
Holds(ring, size, stages, before, at, n) ==
    LET from == IF phase \in before \cup {at} THEN 0 ELSE 1
        to == IF phase \in before THEN stages - 1 ELSE stages
    IN  \E left \in [from .. to + 1 -> 0 .. n] :
            /\ left[from] = n /\ left[to + 1] = 0
            /\ \A d \in from .. to : left[d] = left[d + 1] + ring[(cycle + d) % size]

\* The instructions due in the delay rings are those between two indices of the
\* window, so none is forgotten, decoded twice or scheduled before its decode.
BatchesMatchWindow ==
    /\ Holds(fetchPerCycle, FetchRing, FetchStages, {"fetch"}, "decode",
             RangeSubtract(lastFetched, lastDecoded))
    /\ Holds(decodePerCycle, DecodeRing, DecodeStages, {"fetch", "decode"}, "schedule",
             RangeSubtract(lastDecoded, lastScheduled))

\* A pending exception names an instruction that has been scheduled, or the last
\* retired one: the squash then meets no empty slot (SIM_HALT), and its branch
\* that gives decoded instructions back to decode is never needed.
SquashStaysInWindow ==
    exception.type # "none" =>
        exception.index \in {lastRetired} \cup Walk(lastScheduled, lastRetired)

\* The parts of the window agree: the ring of slots with the four indices
\* (iwindow.C), the batches of the delay rings with what lies between the indices
\* (pseq.C:1325), and the pending exception with what has been scheduled
\* (pseq.C:2895), through every squash.
WindowConsistent == TypeOK /\ RingInOrder /\ BatchesMatchWindow /\ SquashStaysInWindow

\* Whatever has to be squashed is: a stale instruction has an exception pending
\* in front of it; so has a misprediction found out, unless it is the pending
\* one itself.
ExceptionCoversHazards ==
    \A i \in InFlight :
        /\ window[i].stale => /\ exception.type # "none"
                              /\ Offset(exception.index) < Offset(i)
        /\ window[i].wrong /\ window[i].done =>
               \/ exception = [type |-> "mispredict", index |-> i]
               \/ exception.type # "none" /\ Offset(exception.index) < Offset(i)

\* Fetch runs on the predictor state of the youngest control in flight, or on
\* the retired state.
SpecFollowsWindow ==
    exception.type = "none" =>
        specBPS = Restored(window, lastRetired, lastFetched, archBPS)

\* The youngest control is a restore, just fetched, that took back the push of a call:
\* fetch runs on the popped state, the restore has kept the one before.
PushTakenBack ==
    /\ specBPS' = Pop(Restored(window, lastRetired, lastFetched, archBPS)')
    /\ \E i \in InFlight' \ InFlight :
           /\ window'[i].kind = "restore"
           /\ IF Dec(i) = lastFetched THEN lastCall # "none" ELSE window'[Dec(i)].kind = "call"

\* A squash, whatever it cuts off, makes fetch run on the state of the youngest
\* control left; and fetch stays on it, until a mispredicted return retires that
\* pops the stack again while controls fetched behind it are in flight, or a restore
\* is fetched behind a call (pseq.C:1000), whose push it takes back.
SpecHistoryKept ==
    [][ /\ SpecFollowsWindow =>
               \/ SpecFollowsWindow'
               \/ /\ lastRetired' # lastRetired /\ window[Oldest].popAgain
                  /\ \E i \in InFlight' : window'[i].kind \in ControlKinds
               \/ PushTakenBack
        /\ exception.type # "none" /\ exception'.type = "none" => SpecFollowsWindow' ]_vars

\* Fetch is stopped by an instruction exactly when that is in flight, and then it
\* is the youngest; a wait for the squash penalty has not missed its cycle.
StallHasCause ==
    /\ fetchStatus \in Stoppers <=> window[lastFetched].kind \in Stoppers
    /\ fetchStatus \in Stoppers => window[lastFetched].kind = fetchStatus
    /\ \A i \in InFlight \ {lastFetched} : window[i].kind \notin Stoppers
    /\ fetchStatus = "squash" =>
           (fetchReady - cycle + CycleBound) % CycleBound
               \in (IF phase = "fetch" THEN 0 ELSE 1) .. MispredPenalty

(***************************************************************************)
(* The window implements the queue of InOrderWindow                        *)
(***************************************************************************)

StageOf(i) ==
    IF i \in Walk(lastScheduled, lastRetired) THEN "scheduled"
    ELSE IF i \in Walk(lastDecoded, lastRetired) THEN "decoded"
    ELSE "fetched"

Queued(d, stage) ==
    [kind |-> d.kind, done |-> d.done, stale |-> d.stale, wrong |-> d.wrong, stage |-> stage]

\* The instructions in flight, oldest first.
Queue ==
    [k \in 1 .. Offset(lastFetched) |->
        LET i == (lastRetired + k) % RobSize IN Queued(window[i], StageOf(i))]

\* What a cycle fetches, as the queue gets it.
QueuedGroup(g) ==
    [k \in DOMAIN g |->
        Queued([kind |-> g[k].kind, done |-> FALSE, stale |-> FALSE, wrong |-> g[k].wrong],
               "fetched")]

InOrder == INSTANCE InOrderWindow WITH
    Capacity <- RobSize - 1,
    Scheduled <- WinSize,
    Groups <- {QueuedGroup(g) : g \in Groups},
    queue <- Queue

\* Every step of the pipeline is a step of an in-order queue: in particular
\* nothing retires that is stale, behind an unrepaired misprediction or out of
\* order, and a squash cuts exactly at the oldest cause.
ImplementsInOrder == InOrder!Spec

\* Something always retires (or traps) again.
RetirementProgress == \A i \in Slots : []<>(lastRetired # i)

\* Fetch never stays stopped, whatever stopped it: a squash penalty, a cache miss,
\* a TLB miss or a barrier.
FetchRestarts == []<>(StatusNow = "ready")
===============================================================================
