# Approxilyzer in TLA+

Approxilyzer predicts what a single bit flip does to an application. It profiles a run of the
application under Simics (`GEMS_modules/emerald`), groups the dynamic instructions that a fault
would affect alike, injects faults into one pilot of each group on a simulated out-of-order SPARC
processor (`GEMS_modules/opal`), and extrapolates from the outcomes (`scripts`). This directory
models the parts of that tool whose correctness is a matter of state and order rather than of
arithmetic: a bookkeeping error in the profiler or in the processor model does not crash, it
changes the results of a campaign of thousands of injections.

## 1. Inventory

| part | source (under `src/`) | state | operations | hard to get right |
|---|---|---|---|---|
| Register renaming | `opal/system/regmap, arf, regfile, dynamic` | decode and retire map, free-list stack, rename counts, ready bits, wait list per register | Decode, Schedule, write-back, retireRegisters, Squash | out-of-order completion against in-order retirement and youngest-first squash; asserts are compiled out |
| Instruction window, sequencer | `opal/system/iwindow, pseq`, `common/finitecycle, bitlib` | ring of instructions with four indices, delay rings of batch sizes, fetch status, pending exception, predictor state | one call per stage per cycle, raiseException, partialSquash, Wakeup | indices that wrap, several exceptions in one cycle, squash in the middle of the batches, stalls |
| Control registers | `opal/system/arf` (`arf_control_t`) | ring of control-register sets, a ready flag per set | allocate, initialize, finalize, retire, checkAllState, takeTrap, squash | a ring without a free list; sets filled late or never |
| Container registers | `opal/system/arf` (`arf_container_t`) | ring of rename maps of block and condition registers | read, allocate, retire, squash | slots that are never given back |
| Flat registers | `opal/system/flatarf` | arrays of the in-order checker | read, write | |
| Load/store queue | `opal/system/lsq, memop` | address-hashed lists of memory instructions | insert, loadSearch, storeSearch, bypass, replay, overlap wait | order of older and younger accesses whose addresses appear in any order |
| Scheduler, wait lists | `opal/system/scheduler, pipepool, wait` | ready queues per unit, intrusive wait lists | schedule, WakeupChain, RemoveWaitQueue | a waiter on one list at a time; lists changed while they are walked |
| Misses with ruby | `opal/system/rubycache, pipepool, pipestate` | pools of outstanding and delayed requests, a count | access, complete, Wakeup, squashInstruction | answers name only a line; the limit; answers to squashed instructions |
| Misses without ruby | `opal/system/cache, mshr` | lines, miss registers in three states, a bus per level | Read, Write, Miss, Tick, Prefetch, RemoveWaitQueue | merge and upgrade of misses across two levels, full registers, waiters woken in the middle of a fill |
| TLB, instruction pages | `opal/system/dtlb, ipagemap` | entries | lookup, insert | random replacement |
| Predictors, return stacks | `opal/fetch` | tables and checkpointed histories | predict, update, fix up | restored on a squash |
| SPARC semantics | `opal/system/statici, controlop`, `opal/sparc` | none | decode and execute one instruction | size |
| Traces and statistics | `opal/system/chain, ptrace, ddg, ...`, `opal/trace` | counters, files | | |
| Fault models, diagnosis | `opal/system/fault, diagnosis`, `opal/faultSim` | fault descriptor, replay logs | inject, replay, compare | replays that must start from one state |
| Threads and locks | `opal/common/umutex, urwlock, uthread` | owner, waiters | lock, unlock, yield | starvation |
| Store-equivalence profiler | `emerald/system` | def-use chains by address and by pc | `add` per memory access, `analyzeChains` | a chain lives in two indexes and is deleted from both |
| Injection driver | `scripts/dynamic_relyzer/simpoint_single.py` | Simics breakpoints and stops | run to a cycle, flip, run on, classify the outcome | time-outs, missed cycles |
| Campaign scripts | `scripts/injections_scripts` | job files | number, submit, resume, parse | partial outputs |
| Static relyzer | `scripts/static_relyzer/src` | control-flow graph | def-use search | loops |

How they interact: emerald is called by Simics for each memory access and writes pilots and class
sizes to files; the campaign scripts turn these into jobs; the driver runs one job on Simics, with
opal for micro-architectural faults. Inside opal a sequencer (`pseq_t`) calls the stages of a
cycle one after the other. Instructions (`dynamic_inst_t`) are shared by the window, the wait list
they sleep on, the scheduler, the load/store queue and the MSHR. What makes opal's behaviour
depend on order is not threads: it is that execution units, the caches and the wait lists call an
instruction's `Wakeup` in an order set by the program that is simulated.

The hazards, each at its line and with the properties that watch it, are in `PROJECT.json`.

### What makes each part correct

* Renaming: a physical register has one owner; operands are those of program order; nothing waits
  for ever.
* Window: program order in the ring; recovery at the oldest cause; no instruction forgotten in a
  delay ring; fetch restarts after each stall; predictor state matches the window.
* Profiler: every store is in one class; no class is split; the two indexes agree.
* Control sets: no live set is reused; reading through copied sets is reading one file in program
  order; a set somebody waits for is filled.
* Containers: the slots of an instruction in flight still hold what decode put there.
* Memory: an instruction that reads gets what the writes before it in program order left, whatever
  the order of execution; none waits for ever.
* Scheduler: an instruction is on one list at a time; older first; done when its latency is over.
* Misses: every access is answered once, with its line; the limits are exact.
* Reader/writer lock: exclusion, exact counts, no sleep without a cause, writers first.
* (not modelled) Driver: exactly one outcome per run.

## 2. Modules

    RegisterRename <- MCRegisterRename           (TLC)
                   <- RegisterRenameProofs (TLAPS)
    InOrderWindow  <= InstructionWindow  <- MCInstructionWindow
                                         <- InstructionWindowProofs (TLAPS)
    StoreEquivalence <= DefUseChains     <- MCDefUseChains
                                         <- DefUseChainsProofs (TLAPS)
    ControlFile    <= ControlSets        <- MCControlSets
                                         <- ControlSetsProofs (TLAPS)
    ContainerRing  <- MCContainerRing
                   <- SchedulerRingLockProofs (TLAPS)
    MemoryAccess   <- InOrderMemory
                   <- LoadStoreQueue     <- MCLoadStoreQueue
                                         <- LoadStoreQueueProofs (TLAPS)
    InOrderMemory  <= LoadStoreQueue
    Scheduler      <- MCScheduler
                   <- SchedulerRingLockProofs (TLAPS)
    RubyCache      <- MCRubyCache
                   <- RubyCacheProofs (TLAPS)
    CacheMisses    <- MCCacheMisses
                   <- CacheMissesProofs (TLAPS)
    ReadersWriterLock <- MCReadersWriterLock
                      <- SchedulerRingLockProofs (TLAPS)

`<-` is EXTENDS, `<=` is "is implemented by" (INSTANCE with a refinement mapping). Each MC module extends the module it checks; the values of the constants are in the `.cfg` files.

### RegisterRename

One register class (integer, single or double, condition codes): `freelist` is the stack
`m_freelist[0 .. m_freelist_index]`, `decodeMap` and `retireMap` the two `reg_map_t`, `isReady`
the ready bits of `physical_file_t`, `window` the instructions between decode and retirement. An
instruction is a record of the fields `Decode` fills in. Actions are the calls in the life of an
instruction: `Decode`, `Schedule` (which tests sources from the last to the first and sleeps on
the first one not ready), `WaitForData`, `Complete` (execution and write-back: `setInt`, `setReady`,
`WakeupChain`), `Retire` (`retireRegisters`) and `Squash` (`UnwindRegisters` of the youngest).

Not every source is waited for before an instruction issues. `testSourceReadiness` starts a store, a
swap and an ldstub at `WAIT_2ND_STAGE` and a compare-and-swap at `WAIT_1ST_STAGE`, behind the data
registers: the field `issue` says how many sources `Schedule` tests. Such an access looks at all of
them when it has its address (`data`: when it is cacheable), and waits at stage `early`
(`EARLY_STORE_STAGE`, `EARLY_ATOMIC_STAGE`) on the first that is not ready, from the first to the
last and with every source asked again each time it is woken (`TestData`). A store that is not
cacheable completes without its data register: `data` is false and its sources beyond `issue` are
never asked.

Abstractions: a squash to an older instruction is a run of `Squash` steps, and one can stop at any
point, so every squash distance is covered; scheduler, execution and write-back are one step, and
the order in which ready instructions complete is arbitrary; the stages of loads and stores in the
queue and the cache are inside `Complete`, and an instruction that has trapped without writing its
registers is one that stays `ready` until it is squashed. An instruction has any list of
distinct destinations the constants allow: `arf_double_t` allocates a pair. Faults injected in the
map corrupt it by design and are left out, as is `Reset`, used only by a rollback that is not
built.

### InOrderWindow and InstructionWindow

`InstructionWindow` follows `pseq_t::advanceCycle`: `phase` is the stage called next. `window` is
`m_window`, the four `last...` variables the indices of `iwindow_t`; `fetchPerCycle` and
`decodePerCycle` are the `FiniteCycle` delay rings, of `min_power_of_two` entries, that tell decode
and dispatch how many instructions are due. Instructions complete in any order in the execute
phase and may raise an exception; only one is kept, by `RaiseException`. The next retirement stage
starts with the squash to it (`Recover`, which is `partialSquash` with `iwindow_t::squash`), then
retires up to `MaxRetire` done instructions; a trap, an injected squash or a reload of all state
ends it with a full squash (`RetireAndSquash`).

Facts about the program that the code does not know until later are fields of an instruction:
`wrong` (fetch did not go where this control instruction goes) and `stale` (this load read memory
before an older store wrote it; `storeSearch` finds it when the store executes). `history` stands
for the predictor state a control instruction carries.

Abstractions: an instruction completes in one step and is ready to retire in the next cycle
(`RETIRE_STAGES` is 1); several loads misspeculated against one store raise their replays in one
step, as `storeSearch` does; decode may stop short only while decoded instructions are in flight,
since only they hold registers (`RegisterRename!NoRegisterLeak`); the line buffer and caches are
the choice of where a fetch group ends; the predictor state is one history, which a branch shifts,
a correction flips, a call pushes to and a return pops. `popAgain` marks a mispredicted return for which `Retire` will
find its target one level up the stack (`controlop.C:346`). `STALE_DATA_SPECULATION` is off, `ras_t::PRECISE_CALL`
on. There is one sequencer: `last_fetch_is_call` and `last_d_call_instr` are static variables of the fetch
function, which several would share.

A restore fetched right behind a call takes the push of the call back (`UndoesPush`, `pseq.C:993`): it pops the
state fetch runs on and rewrites the state the call has kept (`WithPushUndone`), while the restore itself has kept the
state from before (`HistoryKept`). The two static variables are one, `lastCall`. No squash and no retirement
clears them, so the call may be `gone`, deleted; the write then goes to memory that is free, or that the
restore has been given (when the allocator hands it the call's), and the model lets both happen. A call to the next
but one instruction, which pushes nothing, is not told from the others.

`InOrderWindow` is the promise: a queue in program order, and a recovery that cuts it at the
oldest instruction that must be the last. It has neither ring, cycles, delay rings nor pending
exception. Under the mapping the wrapped slots become positions and the pending exception must
name the oldest cause at the moment the code handles it.

### StoreEquivalence and DefUseChains

`DefUseChains` is `system_t::add` and `analyzeChains` in the build the campaign uses
(`DEPENDENCE_ANALYSIS`, `MEM_OPTIMIZATION`, neither `USE_LIST` nor `LIMIT_NUM_LOADS`). `chain` is
the heap of `def_use_chain_t`, `addressChains` and `pcChains` the two maps of lists. `Write` ends
the chain at the address, lets `removeFromPcChains` merge it into the first equal chain of its pc,
and pushes a new chain on both lists; `Read` adds a use, the low bits of its pc, as the code's mask
does. `StartAnalysis`, `AnalyzeAddress` and `Report` are the steps of `analyzeChains`; Simics is
stopped while it runs and the driver quits after it, so it ends the behaviour. `AddCycle` keeps the
random sample of a full class as a nondeterministic choice.

`StoreEquivalence` keeps no chains: it holds the store each address contains and the number of ended
stores of each class (pc, uses). A store outside the recorded range is ignored by both, as `add` ignores it.

### ControlFile and ControlSets

`ControlSets` is `arf_control_t`. `retireSet` and `decodeSet` are `m_retire_rf` and `m_decode_rf`,
`isReady` the `CONTROL_ISREADY` register of each set, `contents` the other registers, `window` the
instructions between decode and retirement and `simics` the registers of the functional simulator
that opal is compared with. The kinds of instruction differ in when their set is filled: a `write`
when it executes (`INIT_CONTROL`, `WRITE_CONTROL`, `FINALIZE_CONTROL`), a store to the MMU
(`order`) and an instruction opal does not implement (`functional`) when they retire, a `failed`
one never; a `read` and a `trap` take no set. `Retire` contains `checkAllState`, which the build
runs after every retirement (`PSEQ_MAX_UNCHECKED` is 1): it puts Simics' registers into the
architected set, over whatever a late finalization left there. `Trap` is `takeTrap` with the full
squash before it.

Abstractions: sleeping on a set that is not ready is the wait list of `RegisterRename`; here
`Execute` is enabled when the source is ready. The order of execution is arbitrary, and a squash to
any older instruction is a run of `Squash` steps. What an instruction writes is in its `op`. Injected faults in a control register corrupt it by
design and are left out.

`ControlFile` is the promise: one file, each instruction taking effect on it in program order, no
sets and no flags. Its `Perform` says what an instruction must read: what the closest older write
left.

### ContainerRing

`ContainerRing` is one register type of `arf_container_t`: `slots` is `m_rename_map`, `index`
`m_rename_index`. Decode takes a slot for the source, one for the register that will be freed and
one for the destination; nothing gives slots back. `Retire` and `Squash` know the physical
registers only through the slots, as `freeRegister`, `writeRetireMap` and `writeDecodeMap` do. The
`displaced` and `given` fields of an instruction are history, read only by the properties.

Abstractions: the parts of a container (eight doubles, or %y with the condition codes) are renamed
as a whole, from a pool of their own, and blocks do not overlap partially. Which free register a
destination gets is arbitrary; the free lists are in `RegisterRename`. `MaxAge` bounds how many
slots are taken while an instruction stays in flight. It is no limit of the code, and both runs let it
exceed the ring: an instruction behind which the whole ring was taken is `Lapped`. `misled` is history: a
lapped instruction that writes has retired or been squashed, through slots that are perhaps not its own.

### MemoryAccess, InOrderMemory and LoadStoreQueue

`LoadStoreQueue` is `lsq_t` with the memory instructions of `memop.C`. `inst` are the instructions
in flight by sequence number, `lsq` the hashed lists, `content`, `freeList` and `recent` the memory
of the store objects that `m_depend` points to: a store is deleted `RecentRetired` retirements after
its own and the object is given to the next one decoded. `Execute` inserts the instruction, searches
the list and does all that follows, `Settle` running the `Wakeup`s that it causes to their end;
`DataArrives` is the late data register of a store, `CacheAnswers` the line, `Retire` and `Recover`
the retirement of the oldest and the squash behind an exception. `MemoryAccess` says what an access
reads and writes, and `InOrderMemory` the promise: instructions access memory one after the other.
The refinement maps what the last retired instruction has read. `LoadStoreQueueProofs` has the proofs.

Two variables are history. `misfed` holds the instructions in flight that the queue itself has fed wrong data, in one
of the ways section 3 lists (`Intact` says when a bypass is right, `WokenMisfed` and the conditions in `Execute` and
`DataArrives` when it was not), or whose source it has lost: the object `m_depend` names was given to another store.
`misread` is the same of the last retired instruction. No action depends on them. A property that excuses a misfed
instruction still says that nobody else is disturbed, and that it retires in its place with its own write done right.

Abstractions: the data of a unit of memory is the number of the instruction that wrote it; the cache
may answer at any time after it was asked; `Fetch` picks any operation of the program's. Accesses to
devices or with a trap do not enter the queue and are left out, and so are `STALE_DATA` and injected
faults. Two switches of the code become constants: `LateData` names the kinds of instruction whose
data register may come after the address, `RegUnits` is the width of one register of
`m_data_storage`.

### Scheduler

`ready` is the list of `scheduler_t` ordered by the cycle of decoding, `ring` the lists of
`m_cycle_wait_list` and `events` the sorted list behind them; a waiter is a member of sequences, and
`Without` is `RemoveWaitQueue`. `Execute` is the method of that name, all of it: the issue of up to
`MAX_EXECUTE` instructions, then `queueAdvance` and the `WakeupChain`s, in which each woken
instruction may complete, wait elsewhere or post an event again (`Outcomes`). The stages that come
before it in a cycle are `DecodeInst`, `MakeReady`, `Resume` and `SquashFrom`. What the loops of the code
build (`Scheduled`, `QueuedAll`, `Without`) are recursive functions.

Abstractions: the registers that make an instruction ready are in `RegisterRename`; which of several
equal units is taken is not said; `actor_t` is a way of getting the same `Wakeup`.

### RubyCache

`rubycache_t` with its two `pipepool_t`: `pool` are the requests ruby has been asked for, `delayed`
those that found the limit reached. `Access` joins a request, hits, misses or is delayed; `Complete`
takes the first request of the line that ruby names; `Wakeup` retries the delayed in order until
ruby is not ready. Ruby is external: `asked` counts what it owes. `Resume` is the wake-up of an
access that hit when it was retried, which the scheduler delivers. When ruby is not ready a load or a store
makes its access again; a fetch goes on as after a hit, because `pseq.C:905` converts the status, `NOT_READY`
which is 2, to `true`.

### CacheMisses

The caches of a processor that runs without ruby: `generic_cache_template` and `mshr_t` for an
instruction and a data cache over a second level. A `miss_t` is a record with the state `queued`,
`wait`, `transfer`, `prefetch` or `victim`. `Access`, `Fetch` and `PrefetchForStore` are the three
ways into `Read`, `Write` and `Prefetch`; `Tick` is called on each level once per cycle in the order
of `advanceCycle`, ends waits and sends the next queued miss down, and the scheduler ends transfers (`Filled`, which
swaps the victim out and unhooks the waiters). `WakeupChain` wakes them one by one: the first in the step that
fills, the others, at stage `woken`, by a `WakeNext` each, in any order. What a woken load sets going at once comes in between: a
store that waited for the register it writes makes its access (`Accessed` with priority `Store` is enabled
then, and nothing else is), may take a register or bring a kept line back, and puts the line out again when the
cache has one way. A miss of the first level waits on one of the second as an
instruction does, so the levels compose through the same wait lists; such a waiter sets going no access when it is
woken, and those of the second level are woken in one step.

Abstractions: replacement chooses any victim of the set; the dirty bits, used for statistics and
nothing else, are left out, and so are stream buffers (the configurations have none), `Warmup` and
`OracleAccess`. A transfer that `CacheAccessDone` starts, from within `scheduler_t::Execute`, may end one cycle
later than in the code, where `getCycle()` is still the cycle before; the distances on a bus are the same. `m_hist_active`,
a statistic that `mshr.C:816` indexes by the number of active registers, is left out. `CanMiss` is where the code's error stops the simulation: with fewer registers than
lines outstanding there is no next access.

### ReadersWriterLock

`urwlock_t`: an action is the stretch of a method from where it gets `m_mutex` to where it gives it
up, at its end or in `pthread_cond_wait`. `Signal` wakes any one sleeper of the condition variable
that readers and writers share; wake-ups may be spurious. A program says which methods each thread
calls. Opal's Makefile does not name `urwlock.C` among its sources: what is modelled is the lock the library has for a
program that links it. The specification is `LockSpec` (`LockInit`, `LockNext`, `lockVars`), for its proofs share a module
with those of `ContainerRing`.

## 3. Runs

| run | bounds | distinct states | shows |
|---|---|---|---|
| `rename` | 5 physical, 2 logical registers, reserve 1, 3 in flight, 3 lists of destinations, 4 ways to read | 1,081,560 | safety of renaming; the head completes |
| `window` | ring of 4, window 3, fetch/decode/retire 2 per cycle, dispatch 1, stages 2 and 1, no calls | 999,168 | ring, batches, exceptions, stalls, refinement of `InOrderWindow` |
| `window_live` | ring of 3, window 2, fetch 2 per cycle, stages 1 and 1, 2 predictor states, all six kinds | 239,820 | progress of retirement and fetch, predictor state kept and restored |
| `control_sets` | 4 sets, window of 4, 2 registers, 6 operations | 1,578,992 | order of the ring, ready flags, refinement of `ControlFile`; a full ring empties |
| `containers` | window of 2, 8 slots, 2 registers, 4 physical, 2 operations; age at most 12 | 474,912 | slots are lost by a lap only, and parts by what uses them afterwards |
| `container_lap` | as above with 1 operation, age at most 16 | violation | squashed instructions lap the ring |
| `chains` | 5 stores, 2 recorded store pcs, 2 addresses, 1 use per chain, classes remember 2 | 1,109,907 | indexes, classes, refinement of `StoreEquivalence` |
| `load_store_queue` | 3 instructions, all in flight, 2 lines of 3 units in one bucket, registers of 2, 4 operations, 1 misprediction | 449,611 | values, refinement of `InOrderMemory`, everything retires |
| `scheduler` | 3 instructions, 5 cycles, ring of 2, latencies 1, 2 and 3, width 2, 2 units | 2,188,063 | lists, age order, latencies |
| `ruby_cache` | 2 instructions and fetch, 2 lines, limit 1, 3 cycles | 348,484 | pools, the limit, answers, every miss ends |
| `cache_misses` | 2 instructions and fetch, 1 code and 2 data lines (one is both), 1 way, 2 registers (IL1: 1), 4 accesses | 466,785 | registers and lists of both levels, buses, every miss ends with its line |
| `rwlock` | 4 threads, 3 programs | 1,561 | exclusion, causes of sleep, writers first |

Why the bounds are enough. Renaming: five physical registers for two logical ones and a reserve of
one let the free list run down to where decode stops, a pair is allocated with two registers left,
and three instructions give a reader a writer to wait for and another to be squashed behind it. An
instruction reads nothing, both registers before it issues, or one or both after.
Window: four slots with up to three in flight wrap every index within two batches (`MaxDelay`, 2^15 - 1,
bounds what the assumption admits, so that the ring sizes are a finite set; the configurations delay by 1 and 2); two fetched and
one dispatched per cycle leave a remainder in every delay ring; three scheduled instructions allow
a misprediction and a replay that name the same index, the tie `raiseException` breaks. The predictor
state is of one bit, so that the two instructions that fit in the window of `window_live` differ in it; a call and the
restore behind it are fetched in one group, in two, or after the call was deleted. `window` has no calls, for its
properties do not look at the predictor. Chains: five stores at two pcs and two
addresses let one pc have a chain in use at one address while an equal one ends at the other, end
out of the order of creation, and fill a class of two beyond its sample; analysis then merges
across addresses. Store pc 3 is outside the recorded range; load pcs 2 and 4 share their low bits.

Control sets: with four of them and a window of four, decode is held up by the ring before it is
held up by the window, every index wraps, and the set before set 0 is reached. Two registers let a copy of the wrong
set show in the register the instruction does not write. The number of sets must be a power of two
(`SetsAssumption`): `(0 - 1) % m_rf_count` is unsigned. Containers: a window of two gives the eight
slots that the factor of four in the code's size leaves; the retirement or squash of an instruction
with the other still in flight needs no third. An age of up to twelve goes four slots past the lap, so that a
lapped instruction meets one that is not and retires or is squashed. The constraint `Trusted` stops behind that: of what
follows nothing is claimed.

Load/store queue: the operations are a store and a load of a whole line, which is wider than a register, a swap of
its first word, whose data may come late, and an ldstub of another line of the same bucket. They cover one another or are
covered in part, so each outcome of `addressOverlap` and each way of waiting is met, between two instructions
and with a third in between; and each way of being misfed but the loss of the source is reached: the late
swap, the ldstub that has not executed, the part of a wide store. A store is deleted as soon as
it retires (`RecentRetired` 0), but its object can mislead `storeSearch` only with a fourth instruction, which this run
does not have; what is claimed of the others then is proved (section 4), for all sizes. Scheduler: a latency below the length of
the ring, the same and above, two types that contend for a unit, and a width of two of three ready.
`ruby_cache`: with a limit of one any second line is delayed, and a retry can meet a limit reached
again by a newer miss. `cache_misses`: with one way each fill has a victim; the bus of the first level
takes two cycles, so that two lines contend for it; two data registers let one be held by a prefetch
while a demand uses the other; code and data share a line, whose miss below then has both caches on its list; and four
accesses let two loads wait for one line, which a store between their wake-ups puts out again.
Reader/writer lock: the three programs are everything at once with two threads that upgrade, a single
writer among readers, and writers only; four threads give each side a holder and a sleeper while a
third changes the flag.

Deadlock is checked except where the bounded program ends: `chains` with its report,
`load_store_queue` with the last instruction, `scheduler` and `ruby_cache` with the last cycle.

### Properties

Each property is stated in words above its definition; a conjunction of several is the one checked.
`RegisterRename`: `TypeOK`, `NoRegisterLeak`, `ProgramOrderMaps`, `BookkeepingExact` (wait lists, ready bits,
counts), `HeadCompletes` (liveness). `InstructionWindow`: `WindowConsistent` (ring, batches, squash),
`ExceptionCoversHazards`, `StallHasCause`, `SpecHistoryKept`, `ImplementsInOrder`
(refinement), `RetirementProgress`, `FetchRestarts` (liveness). `DefUseChains`: `ChainsConsistent`
(the indexes agree, one chain in use, pilots distinct), `EveryStoreOnce`, `ImplementsEquivalence`
(refinement). `ControlSets`: `RingInProgramOrder`, `ReadyTracksWriter`, `ImplementsFile`
(refinement), `RingDrains` (liveness). `ContainerRing`: `SlotsKeptUntilLapped`, `PartsConsistent`, and `SlotsKept`,
which fails.
`LoadStoreQueue`: `QueueConsistent`, `NoStaleValue`, `ImplementsMemory` (refinement), `AllRetire`
(liveness). `Scheduler`: `ListsConsistent`, `OldestFirst`, `ExecutesWhenDue` (both action properties).
`RubyCache`: `PoolConsistent`, `CountIsOutstanding`, `AnswersFindRequests`, `EveryMissEnds`
(liveness). `CacheMisses`: `MissesConsistent`, `BusCarriesOneLine`, `WokenWithLine` (action
property), `EveryMissEnds` (liveness). `ReadersWriterLock`: `LockSafe`, `SleepingReaderHasCause`,
`WritersFirst`, `WriterGetsIn` (liveness). Each is broken by at least one mutant of the code, defined
before the operator it stands for.

### Fairness

`RegisterRename!FairSpec`: weak fairness of `Schedule(i)` and `Complete(i)`. The sequencer
schedules in every cycle whatever was decoded, and its scheduler gives a ready instruction a unit
sooner or later. Nothing is assumed of decode, retirement or squash, nor of `WaitForData`: what an access has to
wait for late comes from older instructions.

`InstructionWindow!FairSpec`: weak fairness of `Next` (every stage is called in every cycle);
strong fairness of the completion of the oldest instruction (a squash or the end of the cycle interrupts an execution,
but not for ever; for the younger nothing is assumed), of `Wakeup` (the cache answers a miss it has) and of fetching a group that is
not empty (the line that just arrived is in the line buffer, so fetch does not miss on it again).

`ControlSets!FairSpec`: weak fairness of `Retire`, `Trap` and each `Execute(i)`: the sequencer
executes and retires in every cycle what it can. Nothing is assumed of decode or squash.

`LoadStoreQueue!FairSpec`: weak fairness of fetching, of retirement and recovery, and of each
instruction's execution, data and cache line: each happens in some later cycle.

`RubyCache!FairSpec`: weak fairness of each answer of ruby and of each `Resume`; strong fairness of
the retry that finds ruby ready, for ruby is not busy in every cycle. `CacheMisses!FairSpec`: weak
fairness of the steps of a cycle, `Step`, the wake-up of the next waiter among them; nothing is assumed of the program.

`ReadersWriterLock!FairSpec`: a holder releases (weak fairness), and a thread that is awake and may
enter again and again gets the mutex (strong fairness of `Resume`).

`Scheduler` needs none: the clock is in the model, and `ExecutesWhenDue` says in which cycle.

### The container ring can be lapped

`container_lap` fails, and that is what the code does. `arf.h:541` sizes the ring of slots at four
times the window ("for safty sake, make it big enough") and `arf.h:608` calls it the array of
inflight instructions, but the index that `readDecodeMap` and `allocateRegister` advance is not
moved back by a squash. An instruction that waits at the head while 512 younger `umulcc`, or 341
`lddfa`, are decoded and squashed finds its slots overwritten (window of 256), and retirement then
frees and maps registers of another instruction. `containers` and the theorems of section 4 show that this is
the only way it goes wrong: an instruction that is not lapped keeps its slots whatever happens to others, and the
registers stay right until a lapped instruction uses its slots.

### Where the code departs from what the properties could say

The models do what the code does in the following places, and the properties or the constants of the
runs are chosen around them. Each shows when the stated condition is lifted.

* `urwlock.C:219`: `m_writer_waiting` is one flag; the first waiting writer to enter lowers it for
  all, so readers may pass a second writer. `WritersFirst` therefore speaks of a single writer.
* `urwlock.C:191`: the signal of the last reader may wake a reader, and an upgrade lowers the flag of
  writers that wait already, which they raise only before their loop. `WriterGetsIn` is claimed for
  programs in which only writers share the lock, and holds there.
* `memop.C:2040, 3556`: a swap whose data register comes late stores what it read. `memop.C:2056, 2987`: who
  bypasses from an `ldstub` whose line has not come gets its source register. Both are misfed, in the run too.
* `memop.C:1234` copies from the start of a wider store's data as `m_data_storage` is laid out in
  registers: a word loaded from a block store gets the wrong part, and is misfed.
* `lsq.C:382`: `m_depend` is read 40 retirements and more after the store was deleted, when its object may
  have been given to a younger store; a replay is then missed. A reader is misfed from the moment its object is given
  away, whether or not it would have been replayed. With 256 instructions in flight and 40 kept it can happen.
* `pseq.C:3594`: what posts itself again for the next cycle while `Execute` walks the ring comes back to the
  slot being walked, and is delivered a whole turn (`EVENT_QUEUE_SIZE` cycles) later, not in the next cycle as
  `pseq.h:312` says. `ExecutesWhenDue` follows the code for posted events.
* `controlop.C:350`: a mispredicted return that retires writes its popped state over the speculative
  state, which by then is that of the controls fetched behind it; fetch predicts from it until the
  next squash. `SpecHistoryKept` allows this step, and only while such controls are in flight.
* `pseq.C:1000`: a restore that takes back the push of a call keeps the state from before it (`nextPC_cwp` runs
  first), so a squash that ends at the restore brings the push back. `SpecHistoryKept` allows fetch to run on the
  popped state until then. `pseq.C:1004` writes through a pointer to a call that may have been deleted.
* `scheduler.C:121` counts an instruction that finds no unit against the width.
* `rubycache.C:216`: a load never joins a fetch of the line though the comment at 187 says reads
  merge. The second request is why `Complete` may answer the other one first.
* `mshr.C:868`: the processor never asks whether a register is free; the error stops the simulation.
* `pseq.C:930`: the line buffer names the line when the fetch misses, so that after a squash a fetch
  hits it before it came. `WokenWithLine` makes an exception for it.
* `wait.C:94` with `mshr.C:350`: a waiter behind others in the list may be woken when its line has been put out again by what
  those before it set going. `WokenWithLine` speaks of the moment the list is unhooked; of later waiters nothing
  is claimed, and `MissesConsistent` holds between any two wake-ups.
* `mshr.C:894`: `IsAddressInCache` asks the lower cache, as its comment suspects; it decides only
  whether a prefetch is worth sending.

## 4. Proofs

`RegisterRenameProofs` proves of `RegisterRename!Spec`, for every number of registers, every
reserve and every finite or infinite set of operand lists that satisfy the two assumptions:

* `TypeCorrect`: `Spec => []TypeOK`;
* `RegistersNeverLeak`: `Spec => []NoRegisterLeak`;
* `MapsFollowProgramOrder`: `Spec => []ProgramOrderMaps`.

`CountsAssumption` says that there are at least as many physical as logical registers, which
`pseq.C` configures. `ListsAssumption` says that an instruction names no register twice as
destination and takes at most one register more than the reserve: that is how the reserves (4, 16
and 2) relate to what one instruction allocates, and without it a free list at the reserve
underflows.

`NoRegisterLeak` alone is not inductive: when an instruction retires it frees the register it
displaced, and nothing in `NoRegisterLeak` says that this register is the retire map's. The
invariant therefore contains `ProgramOrderMaps`, which says of each displaced register who owns
it: the closest older writer or the retire map. Retiring the head then swaps the owner of exactly
one register, and a squash of the youngest hands its registers back. `ProgramOrderMaps` needs
ownership in turn, to conclude from equal registers that the writers are equal. The theorem
`Invariance` proves the two together over `TypeOK`; each action has its own lemma.

The second half of `RegisterRenameProofs` builds on that invariant and proves `BookkeepingIsExact`: no lost wakeup,
exact ready bits, exact rename counts. Its invariant adds two facts about readiness.
`ReadyTracksOwner`: a register of the retire map is ready, and one an instruction of the window
allocated is ready exactly when that instruction has completed. `SourcesTested`: the sources an
instruction has already tested are ready (of an access that waits for its data, those it issued with: `Confirmed`),
the one it waits for is not, at issue or later, one that has left `Schedule` has none left to test, and one that
completed has its data if it asks for them. That no wakeup is lost then needs no induction of its own: by
`ProgramOrderMaps` the register waited for is the retire map's or an older instruction's, it is not
ready, so it is an older instruction's that has not completed. A register freed and allocated again
cannot break this, because the owners are distinct. The rename counts change by one for each
register allocated or freed, and the lemmas on cardinality give the rest.

`ControlSetsProofs` proves of `ControlSets!Spec`, for every number of sets that is a power of two up
to 2^15, every window and every set of operations, registers and values:

* `TypeCorrect`: `Spec => []TypeOK`;
* `RingOrdered`: `Spec => []RingInProgramOrder`;
* `ReadyFlags`: `Spec => []ReadyTracksWriter`.

`RingInProgramOrder` contains its own induction: the last conjunct, that no later instruction holds
a set that is live before it, is preserved by `Decode` because `RegsAvailable` keeps the new set
from being the architected one and the sets between the two indices are consecutive. The ready
flags need the order of the ring, to know that the set `Retire` or `Squash` clears is no other
instruction's; `DestOwned` says whose it is: the set current at any place is the architected one
or was taken by an instruction up to there. And the invariant adds `DoneInOrder`: an instruction executes only when every older
one that takes a set has written it, so a `write` that is done has only such instructions before
it. With that, retirement never clears a set that a younger instruction still has to copy.

`ControlSetsProofs` also proves `Refinement`: `Spec => ImplementsFile`. Its invariant adds
`SimicsAgrees`, that the functional simulator's registers are those of the architected set, and
`WritesCopy`, that a set that has been written differs from the set before it only in the register
written. From these `SourceShowsFile` concludes that a ready source set shows, register by
register, what the closest older write left; each action of `ControlSets` then is the step of the
same meaning of `ControlFile`.

`SchedulerRingLockProofs` proves of `ReadersWriterLock!LockSpec`, for any finite set of threads:
`LockCounts` (the counts are those of the holders), `LockExcludes` (a writer is alone),
`LockNeverRefuses` (no operation of a holder takes an error path), together `LockIsSafe`, and
`LockSleepersHaveCause`: a reader sleeps only while a writer is in or announced. The lock's mutex
makes a call one step, so the invariant speaks of whole calls; what has to be added is which
threads stand between a wakeup and the test they repeat. `LockPrefersWriter` proves the action
property `WritersFirst`: in a program of one writer the flag is up as long as that writer is in its
loop (`FlagFitsWriter`), for nobody else lowers it.

It also proves of `ContainerRing!Spec`, for every size of the ring and the window,
any registers and any number of slots taken behind an instruction:

* `SlotsAreKept`: `Spec => []SlotsKeptUntilLapped`, an instruction in flight that is not lapped has its slots;
* `PartsStayConsistent`: `Spec => []PartsConsistent`, every physical register has one owner, though retirement and
  squash know the registers only through the slots, until one of them has used those of a lapped instruction.

An instruction's slots are counted back from the index (`Placed`), so the slots decode takes next are apart
from those of an instruction as long as no more than a whole ring were taken behind it (`PlacedAndKept`); that of two instructions one is
lapped takes nothing from the other. While `misled` is false, every retirement or squash of one that writes hands back
what decode recorded, and ownership follows as for the maps of renaming: the owners are apart, every
register has one, and a displaced register belongs to the closest older writer or the retire map.

And it proves of `Scheduler!SchedulerSpec`, for any types, units, latencies, width and length of the ring
and any bounds:

* `ListsAgree`: `SchedulerSpec => []ListsConsistent`;
* `InstructionsInTime`: `SchedulerSpec => ExecutesWhenDue`;
* `OldestGoFirst`: `SchedulerSpec => OldestFirst`.

The invariant, `SchedulerIInv`, names for each instruction that waits the cycle in which it is woken
(`Wakes`): `due`, or for one that posts itself the cycle before it, or a turn of the ring later if its slot
was being walked. `Located` says that the queues are a function of these cycles. Each is in one queue; one in
the ring stands in the slot of its cycle, less than a turn ahead (so two that share a slot have the same
cycle); one in an event has the cycle of that event; the events are in order and none is past. That no list
holds anybody twice is in `Apart`, and `Each` says that nobody is in the ring and in an event. From this the
slot and the first event that `Execute` wakes hold exactly the instructions of this cycle (`WokenAre`), which is
`ExecutesWhenDue`, and what is put back while they are walked goes to an empty slot (`PutBack`). The ready
list holds the ready instructions, each once and by priority (`ReadyOK`); the oldest go first because whoever
is before an instruction in it has no more rivals for their unit.

A recursive function is defined as a choice, which says nothing until a function with that equation is known to
exist. `LeastExists` (numbers are well-founded) gives the induction, `UpTo`, and `Recursion` the existence,
from steps given as functions instead of operators; `WithoutKeeps`, `ScheduledKeeps` and `QueuedAllKeeps` say
then what each loop keeps: types, members, orders and `Located`.

`DefUseChainsProofs` proves of `DefUseChains!Spec`, for any program text and addresses and any bounds:

* `ChainsStayConsistent`: `Spec => []ChainsConsistent`.

The four parts need one another. That `removeFromPcChains` finds the chain it erases needs it to be on
the list of its own pc; that `pop_back` removes the same chain needs it to be the last of its address,
which is the one in use; that what is left is still in step needs a chain to be on no other list and
once on its own. The lists say the last because they are in the order of the cycles (`Increasing`), which
appending, popping and erasing keep. No two chains that have ended are alike because a chain that ends
is compared with every chain of its pc, and all of them are on the list. During the analysis an address
that was visited has no chain in use and one that was not has one (`InUse`). `EndedOK` (a chain ends and
merges) and `PushedOK` (a chain is started) carry the argument for both `Write` and `AnalyzeAddress`.

* `StoresCountedOnce`: `Spec => []EveryStoreOnce`;
* `ChainsImplementClasses`: `Spec => ImplementsEquivalence`.

The populations are summed as a cardinality: `Members` has one element for each store a chain stands
for, and a chain that merges takes its elements out and puts as many in (`AddsUp`). A sample can be
duplicated only by a store that is still a chain, or by one sampled before, so `Sampled` says that no
sample is on the heap; and a chain that merges brings no samples because a chain in use stands for its
own store only. For the refinement, the counts of `StoreEquivalence` are the same cardinalities class
by class: a store that ends adds one to its class whether its chain merges (`EndsCounts`) or stays the
first of its class, and changes no other.

`InstructionWindowProofs` proves of `InstructionWindow!Spec`, for every size of the ring and the window,
every width of the stages and all stages and penalties up to 2^15 - 1:

* `WindowStaysConsistent`: `Spec => []WindowConsistent`;
* `HazardsAreCovered`: `Spec => []ExceptionCoversHazards`;
* `StallsHaveCause`: `Spec => []StallHasCause`;
* `PredictorFollowsWindow`: `Spec => SpecHistoryKept`;
* `Refinement`: `Spec => ImplementsInOrder`.

Positions are offsets from `m_last_retired`, which turns the four indices into three numbers that grow
from stage to stage (`InRing`). That a delay ring holds as many instructions as are between two stages
is the hardest part: a sum over a ring that is squashed in the middle. `Due` says it without a sum:
there is a number of instructions left after each cycle ahead, which begins with all of them, falls by
what is due in that cycle and ends at none (`Counts`, `Ordered`); a stage takes its share off the front,
an insertion goes to the end, and the squash is a cut of that sequence. `Covered` is
`ExceptionCoversHazards` by offsets, and needs `ExceptionFits` (what the pending exception names is
scheduled, and a control if it is a misprediction) and `Sound` (only the scheduled execute) to survive
the exception that replaces an older one. `Stopped` says that only the youngest can be an instruction that
stops fetch, and that the status names it; `Penalty` that a stall after a squash is not longer than the
penalty, in the arithmetic modulo the ring of cycles.

The predictor's theorem is an action property: each action keeps the state fetch predicts from that of
the last control in the window, but for the retiring return and the restore behind a call that `SpecHistoryKept` names. For
the restore that starts a group the invariant has to know that the call fetch remembers, unless it is gone, is the
youngest instruction (`CallKnown`): the state it rewrites is then no longer that of the last control. The refinement
adds `Caused`: what a pending exception names is a cause that the abstract queue sees. With `Covered` it
is the oldest one, so `Recover` cuts the queue where `InOrderWindow` does.

`RubyCacheProofs` proves of `RubyCache!Spec`, for any instructions, lines, limit and number of cycles:

* `PoolsStayConsistent`: `Spec => []PoolConsistent`;
* `CountStaysExact`: `Spec => []CountIsOutstanding`;
* `EveryAnswerFindsRequest`: `Spec => []AnswersFindRequests`.

Ruby's answer names a line and may be given to another request of the line than the one it answers.
That a request is found all the same needs a count: the answers owed for a line, as a set of tokens
(`Owed`), are as many as the requests of the line in the pool (`Matched`). The other parts are counts
of entries too: the instruction requests in the pool are `count`, a waiting instruction is on one
request and a delayed one in the delayed pool once (`Waits`, `Delays`).

`CacheMissesProofs` proves of `CacheMisses!Spec`, for any instructions, lines, sizes, latencies and bus cycles:

* `MissesAgree`: `Spec => []MissesConsistent`;
* `OneLineOnTheBus`: `Spec => []BusCarriesOneLine`;
* `WokenHaveTheirLine`: `Spec => WokenWithLine`.

A list of registers is its set and its length: `Ordered` says that no two registers of a level have the
same line, so the hash table finds the one of a line and taking it out or replacing it takes out or
replaces that element and no other. Only `Chosen` and `Idle` look at the order, and the proofs need of them
that they take a queued and a kept register. On the sets the invariant has, for each level, that the two
counters are cardinalities and the list fits (`Counted`), that no line is in the cache and in a register
(`InOnePlace`), and `OneBus`, which is stronger than the property: transfers are whole bus times apart
and end by `busFree`, which is why the next one, placed at `busFree`, meets none. `Started` (after the
scheduler has executed, every transfer has time left) keeps the ageing of a cycle from taking a time below
zero. Between the levels, `Listed` says that the waiters of a level are those its lists hold, and `Linked`
that a miss waits for the second level exactly when it is on the list of a miss there, of no lower
priority. `Linked` needs a fact no property states (`SecondOK`): nothing is prefetched into the second
level, so a miss there that has its line finds waiters to hand it to, and a line it keeps has none.
`Structure` is what survives between the calls of one action, an upgrade and the miss it raises, or an
end of transfer and the two it starts; all of it holds between the wake-ups of one list (who is `woken` is on no list
any more: `Unhooked`). `lineBuffer = target[Sequencer]` makes the exception of `WokenWithLine` as narrow as it is.

`LoadStoreQueueProofs` proves of `LoadStoreQueue!Spec`, for every window, number of buckets, program and bound:

* `QueueStaysConsistent`: `Spec => []QueueConsistent`;
* `NothingStale`: `Spec => []NoStaleValue`;
* `MemoryInOrder`: `Spec => ImplementsMemory`.

None has a condition on the program or the sizes. Every action is a change of a few instructions (`Prepared`) followed by
the wake-ups it makes (`Settled`), and `Settling` shows once for all of them that those on a list whose
store is done are woken, and nobody else. `QueueInv` adds to the property that only one who reads waits,
and for a store that covers or meets it, and that every number, object and value is one that exists.

`NoStaleValue` and `ImplementsMemory` claim nothing of what a misfed instruction has read. The three ways of being
fed wrong data and the loss of the source are those of section 3, and the theorems say that there is no fifth: an
instruction that is not one of these has read right, also when others before or behind it have not.

`NoStaleValue` speaks of the instructions that have completed, and is not inductive. `FreshOK` adds those
under way, unit by unit: one that waits does so for the closest older store with a known address, and one
that has asked the cache has no such store. A store that executes late breaks it for just the younger
loads that read from something older, and `storeSearch` must find all of them. It compares the number in
the object `m_depend` points to. `DependOK` says of a reader that is not misfed that the object is of a store in flight that covers it,
or that a retired store was the last to have it: in either case the number is that of the data. `HeapSafe` says
that a store in flight or kept is the only one with its object and that the object is
not free, through any order of allocation and deletion. The refinement follows: when the oldest retires
there is no older store, so `FreshOK` says that it has read memory.

Only model-checked is liveness under fairness (`HeadCompletes`, `RetirementProgress`, `FetchRestarts`,
`RingDrains`, `AllRetire`, `EveryMissEnds`, `WriterGetsIn`): the prover has no rule for ENABLED.

## 5. What the plan has left

Modelled and checked: renaming, window, profiler, control and container registers, load/store queue,
scheduler, both kinds of miss handling, the reader/writer lock. Proved: the safety of renaming, control
sets, containers, the profiler, the window, the load/store queue, the scheduler, both kinds of miss handling and
the lock, and all four refinements of an abstract specification. No safety property of a passing run is left
without a proof.

## 6. Not modelled

* What moves data without deciding anything: SPARC semantics and static decode, trace readers,
  statistics, Simics glue, the vendored Verilog, the text-processing scripts, the numeric comparison
  of outputs. They are most of the repository's lines and have no state that the rest depends on.
* Branch prediction tables are hints; that their histories are restored is in `InstructionWindow`.
  The return stack's own array and its exception table, which chooses among predictions, are not.
* The TLB is an array with random replacement; a miss of it is a trap, a kind of instruction in the
  window.
* Diagnosis and multi-core replay: `MULTICORE_DIAGNOSIS_ONLY` is 0 in the build modelled.
* The injection driver waits for Simics' stops in one loop per outcome, and the campaign scripts
  submit files: their hard part is what Simics and the file system do, which the repository does not
  show.
* The mutex and the thread switch under `urwlock_t` are pthreads and assembly.

Two limits of the profiler are in the model but no property speaks of them: loads whose pcs agree in
20 bits are one use, and a store outside a narrowed recorded range leaves later loads with the store
before it; nothing in the repository says whether that is meant.
