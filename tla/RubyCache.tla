----------------------------- MODULE RubyCache -----------------------------
(***************************************************************************)
(* The misses of a processor in the memory system (system/rubycache.C),    *)
(* kept in two pools (pipepool.C, pipestate.C): the requests that ruby has *)
(* been asked for, and those delayed because MEMORY_OUTSTANDING_REQUESTS   *)
(* are outstanding.  Loads of a line share a request; stores never do.     *)
(*                                                                         *)
(* The memory instructions and the sequencer, which fetches, are the       *)
(* waiters.  Ruby is external: it may not be ready, it may hit, and it     *)
(* answers every miss in the end, naming only the line (complete).         *)
(***************************************************************************)
EXTENDS Integers, Sequences, FiniteSets, SequencesExt

CONSTANTS
    Insts,          \* memory instructions
    Sequencer,      \* pseq_t, the waiter of instruction fetches
    Lines,
    Types,          \* of the memory instructions: "load", "store", "atomic"
    MaxOutstanding, \* MEMORY_OUTSTANDING_REQUESTS
    LastCycle       \* bound on the cycles

ASSUME RubyCacheAssumption ==
    /\ Sequencer \notin Insts
    /\ Types \subseteq {"load", "store", "atomic"}
    /\ MaxOutstanding \in Nat \ {0}
    /\ LastCycle \in Nat

VARIABLES
    now,        \* getLocalCycle
    pool,       \* m_request_pool, from its head
    delayed,    \* m_delayed_pool, from its head
    count,      \* m_mshr_count
    scheduled,  \* m_is_scheduled: Wakeup is in the scheduler's queue
    asked,      \* ruby: the misses not answered yet, by line and type
    stage       \* of each waiter

vars == <<now, pool, delayed, count, scheduled, asked, stage>>

Waiters == Insts \cup {Sequencer}
AllTypes == Types \cup {"ifetch"}

\* "waiting": on the list of a request.  "delayed": in the pool of the delayed.
\* "queued": a delayed access hit, the scheduler will wake it.  "done": served or
\* squashed.
Stages == {"idle", "waiting", "delayed", "queued", "done"}

Init ==
    /\ now = 0
    /\ pool = <<>> /\ delayed = <<>>
    /\ count = 0
    /\ scheduled = FALSE
    /\ asked = [r \in Lines \X AllTypes |-> 0]
    /\ stage = [w \in Waiters |-> "idle"]

----------------------------------------------------------------------------
\* insertOrdered: before the first request that was not posted earlier.
Inserted(list, r) ==
    LET place == SelectInSeq(list, LAMBDA e : e.posted >= r.posted)
    IN  InsertAt(list, IF place = 0 THEN Len(list) + 1 ELSE place, r)

Request(w, type, line, list) ==
    [line |-> line, type |-> type, waiter |-> w, posted |-> now, list |-> list]

\* The outstanding request that an access joins, 0 if it makes one of its own: the
\* first one of the line, unless it is for the other cache or the access writes.
Matching(type, line) ==
    LET first == SelectInSeq(pool, LAMBDA e : e.line = line)
        joins == /\ first # 0
                 /\ type \notin {"store", "atomic"}
                 /\ (type = "ifetch") = (pool[first].type = "ifetch")
    IN  IF joins THEN first ELSE 0

\* access, when it finds a request to join.
Join(w, type, line) ==
    /\ Matching(type, line) # 0
    /\ pool' = [pool EXCEPT ![Matching(type, line)].list = @ \cup {w}]
    /\ stage' = [stage EXCEPT ![w] = "waiting"]
    /\ UNCHANGED <<count, asked>>

\* Mutant of Full: one more than the limit.
FullLate(type) == type # "ifetch" /\ count > MaxOutstanding

\* An instruction fetch has a request of its own.
Full(type) == type # "ifetch" /\ count >= MaxOutstanding

\* access, when ruby hits while it is asked (the fast path).
Hit(w, type, line, then) ==
    /\ Matching(type, line) = 0 /\ ~ Full(type)
    /\ stage' = [stage EXCEPT ![w] = then]
    /\ UNCHANGED <<pool, count, asked>>

\* access, when ruby misses.
Miss(w, type, line) ==
    /\ Matching(type, line) = 0 /\ ~ Full(type)
    /\ pool' = Inserted(pool, Request(w, type, line, {w}))
    /\ count' = IF type = "ifetch" THEN count ELSE count + 1
    /\ asked' = [asked EXCEPT ![<<line, type>>] = @ + 1]
    /\ stage' = [stage EXCEPT ![w] = "waiting"]

\* access, when too many misses are outstanding.
Delay(w, type, line) ==
    /\ Matching(type, line) = 0 /\ Full(type)
    /\ delayed' = Inserted(delayed, Request(w, type, line, {}))
    /\ stage' = [stage EXCEPT ![w] = "delayed"]
    /\ UNCHANGED <<pool, count, asked>>

\* access.  When ruby is not ready nothing changes: a load or store makes its access
\* again, a fetch goes on as after a hit (pseq.C:905 takes any status but 0 for one).
Access(w, type, line) ==
    /\ stage[w] = "idle"
    /\ (w = Sequencer) = (type = "ifetch")
    /\ \/ Delay(w, type, line)
       \/ (Join(w, type, line) \/ Hit(w, type, line, "done") \/ Miss(w, type, line)) /\ UNCHANGED delayed
    /\ UNCHANGED <<now, scheduled>>

----------------------------------------------------------------------------
\* Mutant of Complete: the kind of the answer is counted, not of the request.
CompleteCounted(line, type) ==
    LET n == SelectInSeq(pool, LAMBDA e : e.line = line)
    IN  /\ asked[<<line, type>>] > 0
        /\ n # 0
        /\ asked' = [asked EXCEPT ![<<line, type>>] = @ - 1]
        /\ pool' = RemoveAt(pool, n)
        /\ count' = IF type = "ifetch" THEN count ELSE count - 1
        /\ scheduled' = (scheduled \/ delayed # <<>>)
        /\ stage' = [w \in Waiters |-> IF w \in pool[n].list THEN "done" ELSE stage[w]]
        /\ UNCHANGED <<now, delayed>>

\* Mutant of Complete: every request of the line goes with the first one.
CompleteLine(line, type) ==
    LET n == SelectInSeq(pool, LAMBDA e : e.line = line)
    IN  /\ asked[<<line, type>>] > 0
        /\ n # 0
        /\ asked' = [asked EXCEPT ![<<line, type>>] = @ - 1]
        /\ pool' = SelectSeq(pool, LAMBDA e : e.line # line)
        /\ count' = IF pool[n].type = "ifetch" THEN count ELSE count - 1
        /\ scheduled' = (scheduled \/ delayed # <<>>)
        /\ stage' = [w \in Waiters |-> IF w \in pool[n].list THEN "done" ELSE stage[w]]
        /\ UNCHANGED <<now, delayed>>

\* Mutant of Complete: the delayed requests are not told.
CompleteSilent(line, type) ==
    LET n == SelectInSeq(pool, LAMBDA e : e.line = line)
    IN  /\ asked[<<line, type>>] > 0
        /\ n # 0
        /\ asked' = [asked EXCEPT ![<<line, type>>] = @ - 1]
        /\ pool' = RemoveAt(pool, n)
        /\ count' = IF pool[n].type = "ifetch" THEN count ELSE count - 1
        /\ scheduled' = scheduled
        /\ stage' = [w \in Waiters |-> IF w \in pool[n].list THEN "done" ELSE stage[w]]
        /\ UNCHANGED <<now, delayed>>

\* complete: ruby answers a miss of the line.  The first request of the line is
\* taken for it, and a delayed one may go on in the next cycle.
Complete(line, type) ==
    LET n == SelectInSeq(pool, LAMBDA e : e.line = line)
    IN  /\ asked[<<line, type>>] > 0
        /\ n # 0
        /\ asked' = [asked EXCEPT ![<<line, type>>] = @ - 1]
        /\ pool' = RemoveAt(pool, n)
        /\ count' = IF pool[n].type = "ifetch" THEN count ELSE count - 1
        /\ scheduled' = (scheduled \/ delayed # <<>>)
        /\ stage' = [w \in Waiters |-> IF w \in pool[n].list THEN "done" ELSE stage[w]]
        /\ UNCHANGED <<now, delayed>>

\* Wakeup, when ruby is ready: the first delayed request is made again, if there
\* is room for it.
Wakeup ==
    /\ scheduled
    /\ IF count >= MaxOutstanding \/ delayed = <<>>
       THEN scheduled' = FALSE /\ UNCHANGED <<pool, delayed, count, asked, stage>>
       ELSE LET r == Head(delayed)
            IN  /\ \/ Join(r.waiter, r.type, r.line)
                   \/ Hit(r.waiter, r.type, r.line, "queued")
                   \/ Miss(r.waiter, r.type, r.line)
                /\ delayed' = Tail(delayed)
                /\ scheduled' = (delayed' # <<>>)
    /\ UNCHANGED now

\* Mutant of WakeupNotReady: it is not queued again.
WakeupDropped ==
    /\ scheduled /\ count < MaxOutstanding /\ delayed # <<>>
    /\ delayed' = Inserted(Tail(delayed), Head(delayed))
    /\ scheduled' = FALSE
    /\ UNCHANGED <<now, pool, count, asked, stage>>

\* Wakeup, when ruby is not: the request goes back and Wakeup is queued again.
WakeupNotReady ==
    /\ scheduled /\ count < MaxOutstanding /\ delayed # <<>>
    /\ delayed' = Inserted(Tail(delayed), Head(delayed))
    /\ UNCHANGED <<now, pool, count, scheduled, asked, stage>>

\* The scheduler wakes an instruction whose delayed access hit.
Resume(w) ==
    /\ stage[w] = "queued"
    /\ stage' = [stage EXCEPT ![w] = "done"]
    /\ UNCHANGED <<now, pool, delayed, count, scheduled, asked>>

\* Mutant of Squash: the delayed request stays.
SquashFromList(w) ==
    /\ stage[w] \in {"waiting", "delayed", "queued"}
    /\ pool' = [n \in DOMAIN pool |-> [pool[n] EXCEPT !.list = @ \ {w}]]
    /\ UNCHANGED delayed
    /\ stage' = [stage EXCEPT ![w] = "done"]
    /\ UNCHANGED <<now, count, scheduled, asked>>

\* A waiter is squashed (memory_inst_t::Squash, pseq_t::partialSquash): it leaves
\* the list it is on, and squashInstruction takes its delayed request away.
Squash(w) ==
    /\ stage[w] \in {"waiting", "delayed", "queued"}
    /\ pool' = [n \in DOMAIN pool |-> [pool[n] EXCEPT !.list = @ \ {w}]]
    /\ delayed' = LET match == SelectInSeq(delayed, LAMBDA r : r.waiter = w)
                  IN  IF match = 0 THEN delayed ELSE RemoveAt(delayed, match)
    /\ stage' = [stage EXCEPT ![w] = "done"]
    /\ UNCHANGED <<now, count, scheduled, asked>>

\* The next cycle: an instruction accesses memory once, the sequencer fetches until
\* it misses once a cycle.
Tick ==
    /\ now < LastCycle
    /\ now' = now + 1
    /\ stage' = [stage EXCEPT ![Sequencer] = IF @ = "done" THEN "idle" ELSE @]
    /\ UNCHANGED <<pool, delayed, count, scheduled, asked>>

Next ==
    \/ \E w \in Waiters, type \in AllTypes, line \in Lines : Access(w, type, line)
    \/ \E line \in Lines, type \in AllTypes : Complete(line, type)
    \/ Wakeup \/ WakeupNotReady
    \/ \E w \in Waiters : Resume(w) \/ Squash(w)
    \/ Tick

Spec == Init /\ [][Next]_vars

\* Ruby answers every miss and is ready again and again; the scheduler wakes what
\* is in its queue.
FairSpec ==
    /\ Spec
    /\ \A line \in Lines, type \in AllTypes : WF_vars(Complete(line, type))
    /\ SF_vars(Wakeup)
    /\ \A w \in Insts : WF_vars(Resume(w))

----------------------------------------------------------------------------
(***************************************************************************)
(* Properties.                                                             *)
(***************************************************************************)
Requests == [line : Lines, type : AllTypes, waiter : Waiters, posted : 0 .. LastCycle, list : SUBSET Waiters]

\* The state stays in its types.
TypeOK ==
    /\ now \in 0 .. LastCycle
    /\ pool \in Seq(Requests) /\ delayed \in Seq(Requests)
    /\ count \in 0 .. MaxOutstanding
    /\ scheduled \in BOOLEAN
    /\ asked \in [Lines \X AllTypes -> Nat]
    /\ stage \in [Waiters -> Stages]

\* The limit counts the requests of instructions that are outstanding, also when an
\* answer for one cache is taken for a request of the other.
CountIsOutstanding == count = Cardinality({n \in DOMAIN pool : pool[n].type # "ifetch"})

\* A waiter is on the list of one request, has one delayed request, or neither,
\* as its stage says; no squashed one is left anywhere (rubycache.C:595).
EachWaitsOnce ==
    \A w \in Waiters :
        /\ Cardinality({n \in DOMAIN pool : w \in pool[n].list}) = IF stage[w] = "waiting" THEN 1 ELSE 0
        /\ Cardinality({n \in DOMAIN delayed : delayed[n].waiter = w}) = IF stage[w] = "delayed" THEN 1 ELSE 0

\* Every answer finds a request of its line: otherwise complete stops the
\* simulation (rubycache.C:495).
AnswersFindRequests ==
    \A line \in Lines :
        \A type \in AllTypes : asked[<<line, type>>] > 0 => \E n \in DOMAIN pool : pool[n].line = line

\* A delayed request has somebody who will try it again: Wakeup is queued, or an
\* answer is outstanding that will queue it.
DelayedIsRemembered == delayed # <<>> => scheduled \/ count = MaxOutstanding

\* The pools, the lists of waiters and the queued Wakeup agree (rubycache.C:176 to
\* 621), so no waiter is held twice, held when squashed, or forgotten.
PoolConsistent == TypeOK /\ EachWaitsOnce /\ DelayedIsRemembered

\* Every access is served in the end.
EveryMissEnds == \A w \in Insts : stage[w] \in {"waiting", "delayed", "queued"} ~> stage[w] = "done"
=============================================================================
