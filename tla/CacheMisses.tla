---------------------------- MODULE CacheMisses ----------------------------
(***************************************************************************)
(* The caches of a processor without ruby (cache.C) and the registers of   *)
(* their misses (mshr.C): an instruction cache and a data cache over one   *)
(* second-level cache over memory.                                         *)
(*                                                                         *)
(* A miss_t is queued, waits for the cache below, is transferred over the  *)
(* bus of its mshr, and then keeps the line that the new one has replaced, *)
(* or the one that was prefetched, until it is allocated again.  The       *)
(* register of a miss of the first level waits like an instruction in the  *)
(* list of one of the second.  Every list of registers is entered at its   *)
(* head (SetMRU) and left at its tail, free ones are at the very end of    *)
(* the present list, so one sequence in the order of the last SetMRU       *)
(* stands for all of them.  A set of a cache is a set of lines whose       *)
(* victim is any; dirty bits, used in statistics only, are left out, and   *)
(* so are stream buffers, of which the configuration has none.             *)
(***************************************************************************)
EXTENDS Integers, Sequences, FiniteSets, SequencesExt

CONSTANTS Insts,         \* loads and stores
          Sequencer,     \* who waits for fetches
          CodeLines,     \* lines fetched from
          DataLines,     \* lines loaded and stored
          Ways,          \* Ways[m]: lines of a cache
          Entries,       \* Entries[m]: m_max_misses
          Latency,       \* Latency[m]: of what the mshr fetches from
          BusCycles,     \* BusCycles[m]: m_bus_cycles
          LastAccess     \* bound on the accesses of a behaviour

Mshrs    == {"IL1", "DL1", "L2"}
Waiters  == Insts \cup {Sequencer}
Lines    == CodeLines \cup DataLines
Nothing  == "nothing"         \* no line, no waiter

\* mshr_priority_t, from low to high.
Prefetch   == 1
ToCache    == 2
InstDemand == 3
DataDemand == 4
Store      == 5

ASSUME MissesAssumption ==
    /\ Sequencer \notin Insts
    /\ Nothing \notin Lines
    /\ LastAccess \in Nat
    /\ \A f \in {Ways, Entries, Latency, BusCycles} : f \in [Mshrs -> Nat \ {0}]

VARIABLES mshr,       \* per cache: its lines, its registers, their counts and when the bus is free
          stage,      \* of the waiters
          target,     \* the line a waiter has accessed last
          lineBuffer, \* m_last_fetch_physical_address
          turn,       \* what the cycle has come to
          accesses

vars == <<mshr, stage, target, lineBuffer, turn, accesses>>

\* "woken": out of the list of a miss whose waiters are being woken, not yet woken.
Stages  == {"idle", "waiting", "woken", "served"}
\* The order of a cycle: what follows each part.
After   == [run |-> "L2", L2 |-> "IL1", IL1 |-> "DL1", DL1 |-> "end", end |-> "run"]

Outstanding == {"queued", "wait", "transfer"}
Present     == {"prefetch", "victim"}

Init ==
    /\ mshr = [m \in Mshrs |-> [cache |-> {}, misses |-> <<>>, active |-> 0, queued |-> 0, busFree |-> 0]]
    /\ stage = [w \in Waiters |-> "idle"]
    /\ target = [w \in Waiters |-> Nothing]
    /\ lineBuffer = Nothing
    /\ turn = "run"
    /\ accesses = 0

----------------------------------------------------------------------------
(***************************************************************************)
(* The registers of one mshr; s is the value of mshr they start from.      *)
(***************************************************************************)
Allocated(s, m) == {e.line : e \in ToSet(s[m].misses)}

\* Where the register of a line is, which the hash table finds, and the register.
HashMatch(s, m, line) == CHOOSE n \in DOMAIN s[m].misses : s[m].misses[n].line = line
Entry(s, m, line) == s[m].misses[HashMatch(s, m, line)]

Others(s, m, line) == RemoveAt(s[m].misses, HashMatch(s, m, line))

\* e takes the place of the register of its line, or the head of its list.
InPlace(s, m, e) ==
    [s EXCEPT ![m].misses = [n \in DOMAIN @ |-> IF @[n].line = e.line THEN e ELSE @[n]]]
SetMRU(s, m, e) == [s EXCEPT ![m].misses = <<e>> \o Others(s, m, e.line)]

Transferred(s, m, line, free) ==
    [InPlace(s, m, [Entry(s, m, line) EXCEPT !.state = "transfer", !.due = free]) EXCEPT ![m].busFree = free]

\* Mutant of ScheduleBusTransfer: it does not see that the bus is taken.
TransferAtOnce(s, m, line) == Transferred(s, m, line, Latency[m] + BusCycles[m])

\* The transfer ends when the bus has carried the line, after those before it.
ScheduleBusTransfer(s, m, line) ==
    Transferred(s, m, line, BusCycles[m] + (IF s[m].busFree <= Latency[m] THEN Latency[m] ELSE s[m].busFree))

\* What Fill may put out of a cache: nothing while there is room.
Victims(s, m) == IF Cardinality(s[m].cache) < Ways[m] THEN {Nothing} ELSE s[m].cache

Victim(line) == [line |-> line, state |-> "victim", priority |-> Prefetch, waiters |-> {}, due |-> 0]

Swapped(s, m, line, victim) ==
    [s EXCEPT ![m].cache = (@ \ {victim}) \cup {line},
              ![m].misses = (IF victim = Nothing THEN <<>> ELSE <<Victim(victim)>>) \o Others(s, m, line)]

\* Mutant of FillAndSwapOutVictim: RemoveOutstanding counts nothing.
FillUncounted(s, m, line, victim) == Swapped(s, m, line, victim)

\* The line goes to the cache and its register keeps the victim; the caller wakes who
\* waits for it.
FillAndSwapOutVictim(s, m, line, victim) ==
    [Swapped(s, m, line, victim) EXCEPT
        ![m].active = @ - (IF Entry(s, m, line).state \in Outstanding THEN 1 ELSE 0)]

Raised(s, m, line, p) ==
    LET e == [Entry(s, m, line) EXCEPT !.priority = p]
    IN  IF Entry(s, m, line).priority >= p THEN s
        ELSE IF e.state = "queued" THEN SetMRU(s, m, e) ELSE InPlace(s, m, e)

\* Mutant of UpgradePriorityIfNecessary: the level below does not hear of it.
UpgradeHere(s, m, line, p) == Raised(s, m, line, p)

\* A queued miss enters the queue of its new priority; one that waits hands the
\* priority to the miss below that it waits for.
UpgradePriorityIfNecessary(s, m, line, p) ==
    IF Entry(s, m, line).state = "wait" /\ Entry(s, m, line).priority < p
    THEN Raised(Raised(s, m, line, p), "L2", line, p)
    ELSE Raised(s, m, line, p)

\* The registers without the one that GetIdleMiss takes: a free one, or that of the
\* line kept longest.
Idle(s, m) ==
    LET misses == s[m].misses
        last == CHOOSE n \in DOMAIN misses :
                    /\ misses[n].state \in Present
                    /\ \A k \in n + 1 .. Len(misses) : misses[k].state \in Outstanding
    IN  IF Len(misses) < Entries[m] THEN misses ELSE RemoveAt(misses, last)

Kept(s, m, line) == line \in Allocated(s, m) /\ Entry(s, m, line).state \in Present

\* Miss, when it returns a register: of the line's outstanding miss or a new one.
\* It stops the simulation when all are active.
Missed(s, m, line, p, waiters) ==
    IF line \in Allocated(s, m)
    THEN LET t == UpgradePriorityIfNecessary(s, m, line, p)
         IN  InPlace(t, m, [Entry(t, m, line) EXCEPT !.waiters = @ \cup waiters])
    ELSE [s EXCEPT ![m].misses = <<[line |-> line, state |-> "queued", priority |-> p,
                                    waiters |-> waiters, due |-> 0]>> \o Idle(s, m),
                   ![m].active = @ + 1, ![m].queued = @ + 1]

CanMiss(s, m, line) == line \in Allocated(s, m) \/ s[m].active < Entries[m]

----------------------------------------------------------------------------
(***************************************************************************)
(* Accesses of the processor, at any time before the ticks of a cycle.     *)
(***************************************************************************)
\* Between two wake-ups of WakeupChain only what an instruction woken has set going is
\* under way.
NoneWoken == \A w \in Waiters : stage[w] # "woken"

\* Read and Write of a cache of the first level by w: a hit in the cache, a hit in a
\* line kept by a register, which goes back to the cache, or a miss.  A store that waits
\* for its data writes as soon as a load woken writes its register, before the next
\* waiter is woken.
Accessed(m, w, line, p) ==
    /\ turn = "run" /\ stage[w] \notin {"waiting", "woken"} /\ accesses < LastAccess
    /\ NoneWoken \/ p = Store
    /\ \/ line \in mshr[m].cache
          /\ stage' = [stage EXCEPT ![w] = "served"]
          /\ UNCHANGED mshr
       \/ line \notin mshr[m].cache /\ Kept(mshr, m, line)
          /\ \E victim \in Victims(mshr, m) : mshr' = FillAndSwapOutVictim(mshr, m, line, victim)
          /\ stage' = [stage EXCEPT ![w] = "served"]
       \/ line \notin mshr[m].cache /\ ~Kept(mshr, m, line) /\ CanMiss(mshr, m, line)
          /\ mshr' = Missed(mshr, m, line, p, {w})
          /\ stage' = [stage EXCEPT ![w] = "waiting"]
    /\ target' = [target EXCEPT ![w] = line]
    /\ accesses' = accesses + 1
    /\ UNCHANGED turn

Access(w, line, p) == Accessed("DL1", w, line, p) /\ UNCHANGED lineBuffer

\* A fetch of another line than the last.
Fetch(line) ==
    /\ line # lineBuffer
    /\ Accessed("IL1", Sequencer, line, InstDemand)
    /\ lineBuffer' = line

\* A fetch of the last line is served from the line buffer, without a look at the
\* cache: also when a squash has ended the wait for that line.
FetchAgain ==
    /\ turn = "run" /\ NoneWoken /\ stage[Sequencer] = "idle" /\ lineBuffer # Nothing
    /\ stage' = [stage EXCEPT ![Sequencer] = "served"]
    /\ UNCHANGED <<mshr, target, lineBuffer, turn, accesses>>

\* A store whose data is not ready asks for its line; nobody waits for it.
PrefetchForStore(line) ==
    /\ turn = "run" /\ NoneWoken /\ accesses < LastAccess
    /\ line \notin mshr["DL1"].cache
    /\ \/ Kept(mshr, "DL1", line)
          /\ mshr' = SetMRU(mshr, "DL1", Entry(mshr, "DL1", line))
       \/ ~Kept(mshr, "DL1", line) /\ CanMiss(mshr, "DL1", line)
          /\ mshr' = Missed(mshr, "DL1", line, Prefetch, {})
    /\ accesses' = accesses + 1
    /\ UNCHANGED <<stage, target, lineBuffer, turn>>

\* Mutant of Left: the waiter stays in the list.
NotLeft(w, m) == mshr

\* RemoveWaitQueue, from the list of a miss.
Left(w, m) == InPlace(mshr, m, [Entry(mshr, m, target[w]) EXCEPT !.waiters = @ \ {w}])

\* A squash takes the waiter out of the list it is in; the miss goes on.
Squash(w) ==
    /\ turn = "run" /\ NoneWoken /\ stage[w] = "waiting"
    /\ mshr' = Left(w, IF w = Sequencer THEN "IL1" ELSE "DL1")
    /\ stage' = [stage EXCEPT ![w] = "idle"]
    /\ UNCHANGED <<target, lineBuffer, turn, accesses>>

----------------------------------------------------------------------------
(***************************************************************************)
(* The end of a transfer, and the ticks.                                   *)
(***************************************************************************)
\* A miss that has its line in the cache below goes on to its own bus.
CacheAccessDone(s, line, waiters) ==
    LET step(t, m) == IF m \in waiters THEN ScheduleBusTransfer(t, m, line) ELSE t
    IN  step(step(s, "IL1"), "DL1")

\* The stages when a list of waiters has been unhooked and the first is woken.
Waking(waiters, first) ==
    [w \in Waiters |-> IF w = first THEN "served" ELSE IF w \in waiters THEN "woken" ELSE stage[w]]

\* The fill, after which the registers have changed, and the start of the wake-up of
\* the list.  Misses of the first level, in the list of one of the second, set going
\* no access when they are woken.
Filled(m, line, victim) ==
    LET s == FillAndSwapOutVictim(mshr, m, line, victim)
        waiters == Entry(mshr, m, line).waiters
    IN  IF m = "L2"
        THEN mshr' = CacheAccessDone(s, line, waiters) /\ UNCHANGED stage
        ELSE /\ mshr' = s
             /\ \/ waiters = {} /\ UNCHANGED stage
                \/ \E first \in waiters : stage' = Waking(waiters, first)

\* WakeupChain goes on to the next waiter.
WakeNext(w) ==
    /\ turn = "run" /\ stage[w] = "woken"
    /\ stage' = [stage EXCEPT ![w] = "served"]
    /\ UNCHANGED <<mshr, target, lineBuffer, turn, accesses>>

\* The line has come over the bus.
BusTransferDone(m) ==
    /\ turn = "run" /\ NoneWoken
    /\ \E e \in ToSet(mshr[m].misses) :
           /\ e.state = "transfer" /\ e.due = 0
           /\ \/ e.priority # Prefetch
                 /\ \E victim \in Victims(mshr, m) : Filled(m, e.line, victim)
              \/ e.priority = Prefetch
                 /\ mshr' = [SetMRU(mshr, m, [e EXCEPT !.state = "prefetch"]) EXCEPT ![m].active = @ - 1]
                 /\ UNCHANGED stage
    /\ UNCHANGED <<target, lineBuffer, turn, accesses>>

\* The miss that Tick takes: of the highest priority, the one queued longest.
Chosen(m) ==
    LET misses == mshr[m].misses
        queue(p) == {n \in DOMAIN misses : misses[n].state = "queued" /\ misses[n].priority = p}
        top == CHOOSE p \in Prefetch .. Store : queue(p) # {} /\ \A q \in p + 1 .. Store : queue(q) = {}
    IN  misses[CHOOSE n \in queue(top) : \A k \in queue(top) : k <= n]

\* Mutant of Ready: the last queued miss is left.
ReadyForTwo(m) ==
    /\ mshr[m].busFree < Latency[m]
    /\ mshr[m].queued > 1
    /\ m # "L2" => mshr["L2"].active < Entries["L2"]

\* Tick leaves when the bus is taken, nothing is queued, or the level below has no
\* register free.
Ready(m) ==
    /\ mshr[m].busFree < Latency[m]
    /\ mshr[m].queued > 0
    /\ m # "L2" => mshr["L2"].active < Entries["L2"]

\* The chosen miss asks below, where it hits, gets back a line kept by a register, or
\* waits in the list of a miss; memory has all lines.
Sent(m) ==
    \E e \in {Chosen(m)} :
        LET p == IF e.priority = Prefetch THEN ToCache ELSE e.priority
            s == [SetMRU(mshr, m, e) EXCEPT ![m].queued = @ - 1]
        IN  \/ m = "L2" /\ mshr' = ScheduleBusTransfer(s, m, e.line)
            \/ m # "L2" /\ e.line \in mshr["L2"].cache
               /\ mshr' = ScheduleBusTransfer(s, m, e.line)
            \/ m # "L2" /\ e.line \notin mshr["L2"].cache /\ Kept(mshr, "L2", e.line)
               /\ \E victim \in Victims(mshr, "L2") :
                      mshr' = ScheduleBusTransfer(FillAndSwapOutVictim(s, "L2", e.line, victim), m, e.line)
            \/ m # "L2" /\ e.line \notin mshr["L2"].cache /\ ~Kept(mshr, "L2", e.line)
               /\ mshr' = Missed(InPlace(s, m, [e EXCEPT !.state = "wait"]), "L2", e.line, p, {m})

NextTurn == turn' = After[turn]

Tick(m) ==
    /\ turn = m
    /\ IF Ready(m) THEN Sent(m) ELSE UNCHANGED mshr
    /\ NextTurn
    /\ UNCHANGED <<stage, target, lineBuffer, accesses>>

\* The scheduler has executed what is due; the ticks follow.
Executed ==
    /\ turn = "run" /\ NoneWoken
    /\ \A m \in Mshrs : \A e \in ToSet(mshr[m].misses) : e.state = "transfer" => e.due > 0
    /\ NextTurn
    /\ UNCHANGED <<mshr, stage, target, lineBuffer, accesses>>

\* Times are kept relative to the cycle.
Aged(e) == IF e.state = "transfer" THEN [e EXCEPT !.due = @ - 1] ELSE e

EndCycle ==
    /\ turn = "end"
    /\ mshr' = [m \in Mshrs |-> [mshr[m] EXCEPT
                    !.misses = [n \in DOMAIN @ |-> Aged(@[n])],
                    !.busFree = IF @ > 0 THEN @ - 1 ELSE 0]]
    /\ NextTurn
    /\ UNCHANGED <<stage, target, lineBuffer, accesses>>

Step ==
    \/ \E m \in Mshrs : BusTransferDone(m) \/ Tick(m)
    \/ \E w \in Waiters : WakeNext(w)
    \/ Executed
    \/ EndCycle

Next ==
    \/ \E w \in Insts, line \in DataLines, p \in {DataDemand, Store} : Access(w, line, p)
    \/ \E line \in CodeLines : Fetch(line)
    \/ FetchAgain
    \/ \E line \in DataLines : PrefetchForStore(line)
    \/ \E w \in Waiters : Squash(w)
    \/ Step

Spec == Init /\ [][Next]_vars

\* The sequencer advances cycle after cycle.
FairSpec == Spec /\ WF_vars(Step)

----------------------------------------------------------------------------
(***************************************************************************)
(* Properties.                                                             *)
(***************************************************************************)
TypeOK ==
    /\ \A m \in Mshrs :
           /\ mshr[m].cache \subseteq Lines /\ Cardinality(mshr[m].cache) <= Ways[m]
           /\ mshr[m].misses \in Seq([line : Lines, state : Outstanding \cup Present, priority : Prefetch .. Store,
                                      waiters : SUBSET (Waiters \cup Mshrs), due : Nat])
           /\ mshr[m].busFree \in Nat
    /\ stage \in [Waiters -> Stages]
    /\ target \in [Waiters -> Lines \cup {Nothing}]
    /\ lineBuffer \in Lines \cup {Nothing}
    /\ turn \in DOMAIN After
    /\ accesses \in 0 .. LastAccess

Count(m, states) == Cardinality({n \in DOMAIN mshr[m].misses : mshr[m].misses[n].state \in states})

\* VerifyMSHR: the counts that the callers go by are those of the lists, and there
\* are not more registers than there were made (mshr.C:584).
CountsMatchLists ==
    \A m \in Mshrs :
        /\ mshr[m].active = Count(m, Outstanding)
        /\ mshr[m].queued = Count(m, {"queued"})
        /\ Len(mshr[m].misses) <= Entries[m]

\* A line is in one place of a level: in the cache, or in one register (Fill asserts
\* that it does not find it, cache.C:324).
LineInOnePlace ==
    \A m \in Mshrs :
        /\ Cardinality(Allocated(mshr, m)) = Len(mshr[m].misses)
        /\ Allocated(mshr, m) \cap mshr[m].cache = {}

\* Who waits is in the list of the miss of his line, and only then; the register of
\* a miss that waits below is in the list of that miss, which has at least its
\* priority, though either may have been upgraded since.
WaitsOnItsMiss ==
    /\ \A m \in {"IL1", "DL1"} : \A e \in ToSet(mshr[m].misses) :
           /\ e.waiters = {w \in (IF m = "IL1" THEN {Sequencer} ELSE Insts) : stage[w] = "waiting" /\ target[w] = e.line}
           /\ e.waiters # {} => e.state \in Outstanding /\ e.priority > ToCache
           /\ e.state = "wait" => /\ e.line \in Allocated(mshr, "L2")
                                  /\ m \in Entry(mshr, "L2", e.line).waiters
                                  /\ Entry(mshr, "L2", e.line).priority >= e.priority
    /\ \A e \in ToSet(mshr["L2"].misses) :
           \A m \in e.waiters : /\ e.state \in {"queued", "transfer"}
                                /\ e.line \in Allocated(mshr, m) /\ Entry(mshr, m, e.line).state = "wait"

\* The registers of the three levels, the lists of waiters and the caches agree, in
\* whatever order lines arrive, are upgraded, squashed and kept (mshr.C:615, 904).
MissesConsistent == TypeOK /\ CountsMatchLists /\ LineInOnePlace /\ WaitsOnItsMiss

\* A bus carries a line at a time: transfers end at least its cycles apart, and none
\* after the time the bus is known to be taken (mshr.C:1006).
BusCarriesOneLine ==
    \A m \in Mshrs :
        LET due(n) == mshr[m].misses[n].due
            moving == {n \in DOMAIN mshr[m].misses : mshr[m].misses[n].state = "transfer"}
        IN  /\ \A n \in moving : due(n) <= mshr[m].busFree
            /\ \A n, k \in moving : n # k => due(n) >= due(k) + BusCycles[m] \/ due(k) >= due(n) + BusCycles[m]

\* Whoever is served at once, or leaves the list of a miss to be woken, has his line in
\* his cache then, even when he has left the list of another miss or others joined and
\* left his (mshr.C:343).  Of who is woken behind others nothing more holds: a store
\* that they set going may have put the line out again.  The exception is a fetch from
\* the line buffer (pseq.C:930).
WokenWithLine ==
    [][\A w \in Waiters :
           stage[w] \in {"idle", "waiting"} /\ stage'[w] \in {"woken", "served"} =>
               \/ target'[w] \in mshr'[IF w = Sequencer THEN "IL1" ELSE "DL1"].cache
               \/ w = Sequencer /\ stage[w] = "idle" /\ target'[w] = lineBuffer]_vars

\* Who waits is woken, or squashed.
EveryMissEnds == \A w \in Waiters : stage[w] = "waiting" ~> stage[w] \in {"idle", "served"}
=============================================================================
