--------------------------- MODULE LoadStoreQueue ---------------------------
(***************************************************************************)
(* The load/store queue of opal (system/lsq.C) and the memory instructions *)
(* that use it (system/memop.C, the memory stages of dynamic.C).           *)
(*                                                                         *)
(* Memory instructions execute in any order.  When its address is known an *)
(* instruction enters the queue: a load takes its data from the closest    *)
(* older store of the same place, waits for it, or reads memory; a store   *)
(* that comes late replays the younger loads that should have seen it.     *)
(* Stores change memory when they retire (the functional simulator steps,  *)
(* pseq.C:2078, before Retire).                                            *)
(*                                                                         *)
(* An instruction is known by its sequence number; squashed numbers are    *)
(* given out again (decrementSequenceNumber), so the instructions in       *)
(* flight are retired + 1 .. fetched.  Waiting instructions are woken      *)
(* inside the step that wakes them (Wakeup calls Schedule), so a step may  *)
(* advance several.  Left out: accesses to devices and accesses that trap, *)
(* which do not enter the queue, and injected faults.                      *)
(***************************************************************************)
EXTENDS MemoryAccess, FiniteSetsExt, SequencesExt

CONSTANTS
    Window,         \* IWINDOW_WIN_SIZE: instructions in flight
    Buckets,        \* LSQ_HASH_SIZE
    RecentRetired,  \* PSEQ_RECENT_RETIRE_SIZE: retired instructions kept before they are deleted
    RegUnits,       \* units of a register of m_data_storage
    LateData,       \* the kinds whose data register may be written after the address registers
    LastSeq,        \* bound: the program ends after this many instructions
    Mispredictions  \* bound: how often other exceptions than replays squash instructions

ASSUME LoadStoreQueueAssumption ==
    /\ {Window, Buckets, RegUnits, LastSeq} \subseteq Nat \ {0}
    /\ RecentRetired \in Nat
    /\ LateData \subseteq {"store", "swap", "ldstub"}
    /\ Mispredictions \in Nat

VARIABLES
    memory,     \* the architected memory
    retired,    \* the number of the last retired instruction
    result,     \* what it read
    misread,    \* history: whether it was misfed
    inst,       \* the instructions in flight, retired + 1 .. fetched
    lsq,        \* m_queue: the lists of the buckets, from first to last
    exception,  \* the pending exception: the first instruction to squash, or 0
    content,    \* the sequence number in each store object ever allocated
    freeList,   \* listalloc_t's lists of free objects, of stores and of atomics, next to use first
    recent,     \* the retired stores not deleted yet, with their objects
    squashes,   \* how many exceptions other than replays there were
    misfed      \* history: the instructions in flight that the queue has given wrong
                \* data, or of which it has lost where the data came from

vars == <<memory, retired, result, misread, misfed, inst, lsq, exception, content, freeList, recent, squashes>>

heap == <<content, freeList, recent>>

Nothing == <<>>

\* store_inst_t and atomic_inst_t have allocators of their own.
Pools == {"store", "atomic"}

\* "fetched": an address register is missing.  "lsqWait", "overlap": on the wait
\* list of the store wait.  "early": the data register is missing (EARLY_STORE,
\* EARLY_ATOMIC).  "cache": the cache has been asked (CACHE_MISS, CACHE_NOTREADY).
Stages == {"fetched", "lsqWait", "overlap", "early", "cache", "complete"}

InFlight == DOMAIN inst
Fetched == retired + Cardinality(InFlight)
Op(i) == inst[i].op
At(i) == inst[i].stage
BucketOf(op) == op.line % Buckets

\* Mutant of SameLine: lines that share a bucket are taken for one.
SameBucket(i, j) == BucketOf(Op(i)) = BucketOf(Op(j))

SameLine(i, j) == Op(i).line = Op(j).line

\* addressOverlap, the two ways it is not zero.
Exact(i, j) == SameLine(i, j) /\ Op(i).offset = Op(j).offset /\ Op(i).size <= Op(j).size
Overlaps(i, j) == SameLine(i, j) /\ Units(Op(i)) \cap Units(Op(j)) # {}

\* getStoreValueReady, and isDataValid for a store: storeDataToCache has run.
DataValid(i) == At(i) \in {"cache", "complete"}

Init ==
    /\ memory = InitialMemory
    /\ retired = 0
    /\ result = Nothing /\ misread = FALSE /\ misfed = {}
    /\ inst = <<>>
    /\ lsq = [b \in 0 .. Buckets - 1 |-> <<>>]
    /\ exception = 0
    /\ content = <<>>
    /\ freeList = [p \in Pools |-> <<>>]
    /\ recent = {}
    /\ squashes = 0

----------------------------------------------------------------------------
(***************************************************************************)
(* The heap of store objects.  A load remembers the store it depends on by *)
(* its address (m_depend); nothing clears the address when the store       *)
(* retires and is deleted.                                                 *)
(***************************************************************************)
Pool(op) == IF Atomic(op) THEN "atomic" ELSE "store"

\* Operator new: the first free object, or a new one.
NewObject(op) == IF freeList[Pool(op)] = <<>> THEN Len(content) + 1 ELSE Head(freeList[Pool(op)])

\* The objects of the stores among some instructions in flight.
Objects(s) == {[seq |-> i, pool |-> Pool(Op(i)), object |-> inst[i].object] : i \in {k \in s : Writes(Op(k))}}

\* The mth of some numbers.
Nth(numbers, m) == CHOOSE n \in numbers : Cardinality(numbers \cap 1 .. n) = m

\* Operator delete of some stores, the youngest first: each object becomes the
\* first free one of its list.
Freed(deleted) ==
    [p \in Pools |->
        LET mine == {d \in deleted : d.pool = p}
            seqs == {d.seq : d \in mine}
        IN  [m \in 1 .. Cardinality(seqs) |-> (CHOOSE d \in mine : d.seq = Nth(seqs, m)).object] \o freeList[p]]

\* getDepend()->getSequenceNumber(), as long as somebody's object is there.
DependSeq(i) == content[inst[i].depend]

----------------------------------------------------------------------------
(***************************************************************************)
(* Data.                                                                   *)
(***************************************************************************)
\* A unit no access has: what the source register of an ldstub held.
SourceRegister == LineUnits

\* What a store object holds for unit u of its data: the third source register
\* for a store or a swap (storeDataToCache), and for an ldstub until it has
\* executed; then the ones it writes (writeValue).
StoreData(j, stage, u) ==
    IF Op(j).kind = "ldstub" /\ stage # "complete" THEN <<j, SourceRegister>> ELSE <<j, u>>

\* lsqBypass: i takes the data of j.  The wider data are shifted down when they
\* are in one register; of several registers the first ones are taken.
Bypassed(i, j, stage) ==
    LET skipped == IF Op(j).size > RegUnits /\ Op(i).size < RegUnits THEN RegUnits - Op(i).size ELSE 0
    IN  [u \in Units(Op(i)) |-> StoreData(j, stage, u + skipped)]

\* Whether those are the data that j writes where i reads: not when j is an ldstub
\* that has not executed, nor when a part of more than a register is wanted.
Intact(i, j, stage) ==
    /\ Op(j).kind = "ldstub" => stage = "complete"
    /\ ~ (Op(j).size > RegUnits /\ Op(i).size < RegUnits)

\* What storeDataToCache leaves in the instruction's own data.
OwnData(i) == [u \in Units(Op(i)) |-> StoreData(i, "cache", u)]

\* Mutant of Completed: an atomic forgets that the queue gave it the data.
CompletedFromMemory(r, mem) ==
    [r EXCEPT !.stage = "complete", !.wait = 0,
              !.value = IF Reads(r.op) THEN ReadMemory(mem, r.op) ELSE @]

\* Complete: an instruction that reads has its data from the queue
\* (EVENT_LSQ_BYPASS) or takes them from memory.
Completed(r, mem) ==
    [r EXCEPT !.stage = "complete", !.wait = 0,
              !.value = IF Reads(r.op) /\ @ = Nothing THEN ReadMemory(mem, r.op) ELSE @]

----------------------------------------------------------------------------
(***************************************************************************)
(* The wakeups that a completion makes.                                    *)
(***************************************************************************)
\* Mutant of Woken: a chain wakes its first waiter only.
WokenFirst(done, lacking) ==
    {{i \in InFlight : At(i) = "lsqWait" /\ inst[i].wait \in done /\ \A k \in InFlight : inst[k].wait = inst[i].wait => i <= k}}

\* The instructions on the wait lists of those in done and, in turn, of those woken
\* that are not lacking a source and complete.  There is one such set.
Woken(done, lacking) ==
    LET waiting == {i \in InFlight : At(i) = "lsqWait"}
    IN  {woken \in SUBSET waiting : woken = {i \in waiting : inst[i].wait \in done \cup (woken \ lacking)}}

\* The instructions become next.  Those that complete by it wake the instructions
\* that wait for their data (wakeupDependentLoads), which take the data and
\* complete; an atomic that lacks a source waits for it instead.
Settle(next) ==
    LET done == {i \in DOMAIN next : next[i].stage = "complete" /\ At(i) # "complete"}
        late == {i \in InFlight : At(i) = "lsqWait" /\ Op(i).kind \in LateData}
    IN  \E lacking \in SUBSET late :
            \E woken \in Woken(done, lacking) :
                /\ lacking \subseteq woken
                /\ inst' = [i \in DOMAIN next |->
                     IF i \notin woken THEN next[i]
                     ELSE [next[i] EXCEPT
                             !.stage = IF i \in lacking THEN "early" ELSE "complete",
                             !.wait = 0,
                             !.value = Bypassed(i, inst[i].wait, "complete")]]

\* The waiting instructions that this step wakes with the wrong data.
WokenMisfed ==
    {k \in InFlight \cap DOMAIN inst' :
        At(k) = "lsqWait" /\ inst'[k].stage # "lsqWait" /\ ~ Intact(k, inst[k].wait, "complete")}

\* continueExecution: the ways an access can go that has nothing to wait for.  Its
\* data register may be missing, the cache may miss.
Continued(r, mem) ==
    {Completed(r, mem), [r EXCEPT !.stage = "cache", !.wait = 0]}
        \cup {[r EXCEPT !.stage = "early", !.wait = 0] : kind \in {r.op.kind} \cap LateData}

----------------------------------------------------------------------------
(***************************************************************************)
(* The queue.                                                              *)
(***************************************************************************)
\* Mutant of Inserted: always at the head.
InsertedAtHead(i) == [lsq EXCEPT ![BucketOf(Op(i))] = <<i>> \o @]

\* doInsert: before the first older member, behind all if there is none.
Inserted(i) ==
    LET list == lsq[BucketOf(Op(i))]
        older == SelectInSeq(list, LAMBDA j : j < i)
    IN  [lsq EXCEPT ![BucketOf(Op(i))] = InsertAt(list, IF older = 0 THEN Len(list) + 1 ELSE older, i)]

\* Mutant of Removed: only the head of a list leaves.
RemovedHead(queue, gone) ==
    [b \in 0 .. Buckets - 1 |->
        IF queue[b] # <<>> /\ Head(queue[b]) \in gone THEN Tail(queue[b]) ELSE queue[b]]

\* A list without some instructions: the mth of those that stay.
Without(list, gone) ==
    LET stay == {n \in DOMAIN list : list[n] \notin gone}
    IN  [m \in 1 .. Cardinality(stay) |-> list[Nth(stay, m)]]

Removed(queue, gone) == [b \in 0 .. Buckets - 1 |-> Without(queue[b], gone)]

\* Mutant of LoadSearch: the oldest such store.
LoadSearchOldest(i) ==
    LET list == lsq[BucketOf(Op(i))]
        found == SelectLastInSeq(list, LAMBDA j : j < i /\ Writes(Op(j)) /\ Overlaps(i, j))
    IN  IF found = 0 THEN 0 ELSE list[found]

\* loadSearch: the first older store in the list that shares a unit, 0 if none.
LoadSearch(i) ==
    LET list == lsq[BucketOf(Op(i))]
        found == SelectInSeq(list, LAMBDA j : j < i /\ Writes(Op(j)) /\ Overlaps(i, j))
    IN  IF found = 0 THEN 0 ELSE list[found]

\* Mutants of Misspeculated: loads that took data from any store are spared, and
\* atomics are.
MisspeculatedUnbypassed(i) ==
    {j \in ToSet(lsq[BucketOf(Op(i))]) : j > i /\ Reads(Op(j)) /\ Overlaps(i, j) /\ inst[j].depend = 0}

MisspeculatedLoads(i) ==
    {j \in ToSet(lsq[BucketOf(Op(i))]) :
        /\ j > i /\ Op(j).kind = "load" /\ Overlaps(i, j)
        /\ (inst[j].depend = 0 \/ i > DependSeq(j))}

\* storeSearch: the younger loads that share a unit and depend on nothing or on
\* something older than the store.
Misspeculated(i) ==
    {j \in ToSet(lsq[BucketOf(Op(i))]) :
        /\ j > i /\ Reads(Op(j)) /\ Overlaps(i, j)
        /\ (inst[j].depend = 0 \/ i > DependSeq(j))}

\* raiseException keeps the oldest exception.
Raised(victims) == Min(victims \cup ({exception} \ {0}))

----------------------------------------------------------------------------
(***************************************************************************)
(* The instructions.                                                       *)
(***************************************************************************)
Fetch(op) ==
    LET i == Fetched + 1
        object == IF Writes(op) THEN NewObject(op) ELSE 0
    IN  /\ i <= LastSeq
        /\ Cardinality(InFlight) < Window
        /\ inst' = [j \in InFlight \cup {i} |->
               IF j # i THEN inst[j]
               ELSE [op |-> op, stage |-> "fetched", wait |-> 0, depend |-> 0,
                     object |-> object, value |-> Nothing]]
        /\ IF ~ Writes(op) THEN UNCHANGED heap
           ELSE /\ content' = IF object > Len(content) THEN Append(content, i)
                              ELSE [content EXCEPT ![object] = i]
                /\ freeList' = IF freeList[Pool(op)] = <<>> THEN freeList
                               ELSE [freeList EXCEPT ![Pool(op)] = Tail(@)]
                /\ UNCHANGED recent
        /\ misfed' = misfed \cup {k \in InFlight : Writes(op) /\ inst[k].depend = object}
        /\ UNCHANGED <<memory, retired, result, misread, lsq, exception, squashes>>

\* The search finds store j: take its data, wait for them, or wait for its
\* retirement when it does not have them all.
Depending(i, j) ==
    LET r == [inst[i] EXCEPT !.depend = inst[j].object]
        bypassed == [r EXCEPT !.value = Bypassed(i, j, At(j))]
    IN  IF ~ Exact(i, j) THEN {[inst[i] EXCEPT !.stage = "overlap", !.wait = j]}
        ELSE IF ~ DataValid(j) THEN {[r EXCEPT !.stage = "lsqWait", !.wait = j]}
        ELSE {Completed(bypassed, memory)}
                \cup {[bypassed EXCEPT !.stage = "early"] : kind \in {Op(i).kind} \cap LateData}

\* The address is known: load_inst_t::Execute, store_inst_t::Execute.
Execute(i) ==
    /\ At(i) = "fetched"
    /\ lsq' = Inserted(i)
    /\ exception' = IF Writes(Op(i)) /\ Misspeculated(i) # {} THEN Raised(Misspeculated(i)) ELSE exception
    /\ LET j == IF Reads(Op(i)) THEN LoadSearch(i) ELSE 0
       IN  \E r \in IF j = 0 THEN Continued(inst[i], memory) ELSE Depending(i, j) :
               /\ Settle([inst EXCEPT ![i] = r])
               /\ misfed' = misfed \cup WokenMisfed
                                \cup {k \in {i} : r.value # Nothing /\ j # 0 /\ ~ Intact(i, j, At(j))}
    /\ UNCHANGED <<memory, retired, result, misread, heap, squashes>>

\* The data register is written: storeDataWakeup.  The data go where an atomic
\* that bypassed keeps what it has read.
DataArrives(i) ==
    LET r == [inst[i] EXCEPT !.value = IF @ = Nothing THEN Nothing ELSE OwnData(i)]
    IN  /\ At(i) = "early"
        /\ \E s \in {Completed(r, memory), [r EXCEPT !.stage = "cache"]} : Settle([inst EXCEPT ![i] = s])
        /\ misfed' = misfed \cup WokenMisfed \cup {k \in {i} : inst[i].value # Nothing}
        /\ UNCHANGED <<memory, retired, result, misread, lsq, exception, heap, squashes>>

\* The line arrives, or the cache takes the request at last and has it.
CacheAnswers(i) ==
    /\ At(i) = "cache"
    /\ Settle([inst EXCEPT ![i] = Completed(inst[i], memory)])
    /\ misfed' = misfed \cup WokenMisfed
    /\ UNCHANGED <<memory, retired, result, misread, lsq, exception, heap, squashes>>

----------------------------------------------------------------------------
\* pushRetiredInstruction keeps the last RecentRetired instructions and deletes
\* the one before them.
Remembered(i) ==
    LET all == recent \cup Objects({i})
        kept == {d \in all : d.seq + RecentRetired > i}
    IN  /\ recent' = kept
        /\ freeList' = Freed(all \ kept)
        /\ UNCHANGED content

\* The oldest instruction retires: the functional simulator steps, the
\* instruction leaves the queue, and the loads that waited for it go on
\* (wakeupOverlapLoads).
Retire ==
    LET i == retired + 1
        mem == WriteMemory(memory, Op(i), i)
        waiting == {k \in InFlight : At(k) = "overlap" /\ inst[k].wait = i}
    IN  /\ i \in InFlight /\ exception = 0
        /\ At(i) = "complete"
        /\ memory' = mem
        /\ retired' = i
        /\ result' = inst[i].value /\ misread' = (i \in misfed)
        /\ lsq' = Removed(lsq, {i})
        /\ \E resumed \in [waiting -> UNION {Continued(inst[k], mem) : k \in waiting}] :
               /\ \A k \in waiting : resumed[k] \in Continued(inst[k], mem)
               /\ Settle([k \in InFlight \ {i} |-> IF k \in waiting THEN resumed[k] ELSE inst[k]])
        /\ misfed' = (misfed \ {i}) \cup WokenMisfed
        /\ Remembered(i)
        /\ UNCHANGED <<exception, squashes>>

\* An instruction that is not one of memory squashes those from k on.
Mispredict(k) ==
    /\ squashes < Mispredictions
    /\ squashes' = squashes + 1
    /\ k \in InFlight
    /\ exception' = Raised({k})
    /\ UNCHANGED <<memory, retired, result, misread, misfed, inst, lsq, heap>>

\* The window squashes from its tail to the instruction of the exception; each
\* one leaves the queue and the wait lists and is deleted (Squash).
Recover ==
    LET squashed == exception .. Fetched
    IN  /\ exception # 0
        /\ exception' = 0
        /\ inst' = [i \in InFlight \ squashed |-> inst[i]]
        /\ lsq' = Removed(lsq, squashed)
        /\ freeList' = Freed(Objects(squashed))
        /\ misfed' = misfed \ squashed
        /\ UNCHANGED <<memory, retired, result, misread, content, recent, squashes>>

Next ==
    \/ \E op \in Ops : Fetch(op)
    \/ \E i \in InFlight : Execute(i) \/ DataArrives(i) \/ CacheAnswers(i) \/ Mispredict(i)
    \/ Retire
    \/ Recover

Spec == Init /\ [][Next]_vars

\* The scheduler issues every ready instruction, registers are written in the end
\* and the memory system answers.  Nothing makes the front end or the retirement
\* stop.
FairSpec ==
    /\ Spec
    /\ WF_vars(\E op \in Ops : Fetch(op)) /\ WF_vars(Retire) /\ WF_vars(Recover)
    /\ \A i \in 1 .. LastSeq :
           WF_vars(i \in InFlight /\ (Execute(i) \/ DataArrives(i) \/ CacheAnswers(i)))

----------------------------------------------------------------------------
(***************************************************************************)
(* Properties.                                                             *)
(***************************************************************************)
Values == {Nothing} \cup UNION {[Units(op) -> (0 .. LastSeq) \X (0 .. LineUnits)] : op \in Ops}

\* The state stays in its types: a waiting instruction names one in flight, the
\* queue names instructions in flight and a live store has an object.
TypeOK ==
    /\ memory \in Memory
    /\ retired \in 0 .. LastSeq /\ Fetched \in retired .. LastSeq
    /\ InFlight = retired + 1 .. Fetched
    /\ \A i \in InFlight :
           /\ Op(i) \in Ops /\ At(i) \in Stages
           /\ inst[i].wait \in InFlight \cup {0}
           /\ {inst[i].depend, inst[i].object} \subseteq 0 .. Len(content)
           /\ inst[i].value \in Values
    /\ result \in Values /\ misread \in BOOLEAN
    /\ misfed \subseteq InFlight
    /\ exception \in InFlight \cup {0}
    /\ squashes \in 0 .. Mispredictions
    /\ \A b \in 0 .. Buckets - 1 : ToSet(lsq[b]) \subseteq InFlight

\* Each list of the queue holds the instructions with known addresses of its
\* bucket once, from the youngest to the oldest: doInsert finds the place of one
\* that executes late, and squashed and retired ones leave (memop.C:156, 217).
QueueInProgramOrder ==
    \A b \in 0 .. Buckets - 1 :
        /\ ToSet(lsq[b]) = {i \in InFlight : At(i) # "fetched" /\ BucketOf(Op(i)) = b}
        /\ \A m, n \in DOMAIN lsq[b] : m < n => lsq[b][m] > lsq[b][n]

\* The writers before i, with known addresses, of a unit that i reads.
WritersBefore(i, u) ==
    {j \in InFlight : j < i /\ Writes(Op(j)) /\ At(j) # "fetched" /\ SameLine(i, j) /\ u \in Units(Op(j))}

\* What an instruction has read is never stale by more than the stores whose
\* addresses are unknown: unit by unit it is of the closest older store that has
\* executed, or of memory, unless the instruction is about to be replayed
\* (lsq.C:365, "Replay all that data misspeculated").
NoStaleValue ==
    \A i \in InFlight :
        At(i) = "complete" /\ Reads(Op(i)) /\ i \notin misfed /\ (exception = 0 \/ i < exception) =>
            \A u \in Units(Op(i)) :
                LET writers == WritersBefore(i, u)
                IN  inst[i].value[u] = IF writers = {} THEN ReadMemory(memory, Op(i))[u] ELSE <<Max(writers), u>>

\* An instruction that waits is on the list of an older store that has yet to
\* make the step that wakes it: to complete, or to retire.
WaitersHaveWaker ==
    \A i \in InFlight :
        /\ At(i) \in {"lsqWait", "overlap"} =>
               /\ inst[i].wait \in InFlight /\ inst[i].wait < i /\ Writes(Op(inst[i].wait))
               /\ Overlaps(i, inst[i].wait)
        /\ At(i) = "lsqWait" => At(inst[i].wait) # "complete"

\* The queue, the wait lists and the stages of the instructions agree (lsq.C:91,
\* memop.C:1253), after any late execution, wakeup and squash.
QueueConsistent == TypeOK /\ QueueInProgramOrder /\ WaitersHaveWaker

\* In the order they retire the instructions read and write memory as if each
\* had waited for the one before it, whatever order they executed in.
InOrder == INSTANCE InOrderMemory WITH memory <- memory, count <- retired, result <- result

ImplementsMemory == InOrder!Spec

\* Every instruction of the program retires: no replay goes on for ever and no
\* wait list keeps an instruction.
AllRetire == <>(retired = LastSeq)
=============================================================================
