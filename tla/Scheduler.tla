----------------------------- MODULE Scheduler -----------------------------
(***************************************************************************)
(* The scheduler of opal (system/scheduler.C) on wait lists (system/wait.h *)
(* and wait.C) and a ring of cycles (system/finitecycle.h).                *)
(*                                                                         *)
(* An instruction whose registers are there enters the ready list, which   *)
(* is ordered by the cycle of its decoding.  Once a cycle Execute looks at *)
(* the first MaxExecute of them, starts those that find a functional unit  *)
(* and queues them for the end of their latency; then it wakes what is     *)
(* queued for this cycle: in the ring if the latency was short, else in    *)
(* the list of events.                                                     *)
(*                                                                         *)
(* DecodeInst, MakeReady, Resume and SquashFrom are the stages of the      *)
(* cycle that come before Execute (pseq_t::advanceCycle), in any order.    *)
(***************************************************************************)
EXTENDS Integers, Sequences, FiniteSets, SequencesExt

CONSTANTS
    Types,      \* fu_type_t
    Units,      \* functional units
    UnitOf,     \* CONFIG_ALU_MAPPING: the unit of a type
    NumAlus,    \* CONFIG_NUM_ALUS: how many of a unit there are
    Latency,    \* CONFIG_ALU_LATENCY: the latency of a type
    MaxExecute, \* MAX_EXECUTE
    QueueSize,  \* EVENT_QUEUE_SIZE
    LastSeq,    \* bound on the instructions in flight
    LastCycle   \* bound on the cycles

ASSUME SchedulerAssumption ==
    /\ UnitOf \in [Types -> Units]
    /\ NumAlus \in [Units -> Nat \ {0}]
    /\ Latency \in [Types -> Nat \ {0}]
    /\ {MaxExecute, QueueSize, LastSeq, LastCycle} \subseteq Nat \ {0}

VARIABLES
    now,    \* the cycle, m_local_cycles
    inst,   \* the instructions in flight, in program order
    ready,  \* the wait list of the scheduler, without its sentinel
    ring,   \* m_cycle_wait_list
    events  \* the event queue from m_queue_head to m_queue_tail

schedulerVars == <<now, inst, ready, ring, events>>

\* "waiting": for a register.  "issued", "posted": queued until a cycle, by
\* Execute or by postEvent.  "elsewhere": waits for a store or a cache line.
States == {"waiting", "ready", "issued", "posted", "elsewhere", "complete"}

InFlight == DOMAIN inst
State(i) == inst[i].state
Unit(i) == UnitOf[inst[i].type]

SchedulerInit ==
    /\ now = 0
    /\ inst = <<>>
    /\ ready = <<>>
    /\ ring = [s \in 0 .. QueueSize - 1 |-> <<>>]
    /\ events = <<>>

----------------------------------------------------------------------------
(***************************************************************************)
(* Lists.                                                                  *)
(***************************************************************************)
\* Mutant of Ordered: at the tail.
OrderedLast(list, i) == Append(list, i)

\* InsertOrderedWaitQueue: from the back, before those with a greater priority.
Ordered(list, i) ==
    LET notAfter == SelectLastInSeq(list, LAMBDA j : inst[j].priority <= inst[i].priority)
    IN  InsertAt(list, notAfter + 1, i)

\* schedule, for some instructions one after the other.
Scheduled(list, some) ==
    LET after[n \in 0 .. Len(some)] == IF n = 0 THEN list ELSE Ordered(after[n - 1], some[n])
    IN  after[Len(some)]

\* Mutant of EventAdded: always a new event, before one of the same cycle.
EventAddedAnew(queue, i, cycle) ==
    InsertAt(queue, SelectLastInSeq(queue, LAMBDA e : e.cycle < cycle) + 1, [cycle |-> cycle, list |-> <<i>>])

\* queueInsert of the long latencies: into the event of that cycle, at its head,
\* or into a new event.
EventAdded(queue, i, cycle) ==
    LET same == SelectInSeq(queue, LAMBDA e : e.cycle = cycle)
        earlier == SelectLastInSeq(queue, LAMBDA e : e.cycle < cycle)
    IN  IF same # 0 THEN [queue EXCEPT ![same].list = <<i>> \o @]
        ELSE InsertAt(queue, earlier + 1, [cycle |-> cycle, list |-> <<i>>])

\* Mutant of Queued: the ring is used for a latency of its size.
QueuedTooLong(queues, i, latency) ==
    IF latency <= QueueSize
    THEN [queues EXCEPT !.ring[(now + latency) % QueueSize] = Append(@, i)]
    ELSE [queues EXCEPT !.events = EventAdded(@, i, now + latency)]

\* queueInsert.
Queued(queues, i, latency) ==
    IF latency < QueueSize
    THEN [queues EXCEPT !.ring[(now + latency) % QueueSize] = Append(@, i)]
    ELSE [queues EXCEPT !.events = EventAdded(@, i, now + latency)]

\* Mutant of Without: a list keeps the squashed instructions that are not at its head.
WithoutHead(list, gone) == IF list # <<>> /\ Head(list) \in gone THEN Tail(list) ELSE list

\* The instructions that wait for nothing any more leave every list (RemoveWaitQueue).
Without(list, gone) ==
    LET kept[n \in 0 .. Len(list)] ==
            IF n = 0 THEN <<>>
            ELSE kept[n - 1] \o (IF list[n] \in gone THEN <<>> ELSE <<list[n]>>)
    IN  kept[Len(list)]

----------------------------------------------------------------------------
(***************************************************************************)
(* The stages before Execute.                                              *)
(***************************************************************************)
DecodeInst(type) ==
    /\ Len(inst) < LastSeq
    /\ inst' = Append(inst, [type |-> type, state |-> "waiting", priority |-> now, due |-> 0])
    /\ UNCHANGED <<now, ready, ring, events>>

\* The last register is there: dynamic_inst_t::Schedule in READY_STAGE.
MakeReady(i) ==
    /\ State(i) = "waiting"
    /\ inst' = [inst EXCEPT ![i].state = "ready"]
    /\ ready' = Ordered(ready, i)
    /\ UNCHANGED <<now, ring, events>>

\* A memory instruction is woken by a retiring store or by the memory system.  It
\* completes, or the cache refuses the access and postEvent queues it for the next
\* cycle: latency 1 - 1.
Resume(i) ==
    /\ State(i) = "elsewhere"
    /\ \/ /\ inst' = [inst EXCEPT ![i].state = "complete"]
          /\ UNCHANGED ring
       \/ /\ inst' = [inst EXCEPT ![i].state = "posted", ![i].due = now + 1]
          /\ ring' = [ring EXCEPT ![now % QueueSize] = Append(@, i)]
    /\ UNCHANGED <<now, ready, events>>

\* The window squashes the instructions from k on.  An event stays when its list
\* becomes empty.
SquashFrom(k) ==
    LET gone == k .. Len(inst)
    IN  /\ inst' = SubSeq(inst, 1, k - 1)
        /\ ready' = Without(ready, gone)
        /\ ring' = [s \in 0 .. QueueSize - 1 |-> Without(ring[s], gone)]
        /\ events' = [n \in DOMAIN events |-> [events[n] EXCEPT !.list = Without(@, gone)]]
        /\ UNCHANGED now

----------------------------------------------------------------------------
(***************************************************************************)
(* Execute.                                                                *)
(***************************************************************************)
\* The ready instructions that Execute takes from the list.
LookedAt == SubSeq(ready, 1, IF Len(ready) < MaxExecute THEN Len(ready) ELSE MaxExecute)

\* Mutant of Issued: the last of the instructions looked at go first.
IssuedYoungest ==
    {LookedAt[n] : n \in {m \in DOMAIN LookedAt :
        Cardinality({k \in m + 1 .. Len(LookedAt) : Unit(LookedAt[k]) = Unit(LookedAt[m])}) < NumAlus[Unit(LookedAt[m])]}}

\* Those among them that find a functional unit of theirs free.
Issued ==
    {LookedAt[n] : n \in {m \in DOMAIN LookedAt :
        Cardinality({k \in 1 .. m - 1 : Unit(LookedAt[k]) = Unit(LookedAt[m])}) < NumAlus[Unit(LookedAt[m])]}}

\* queueInsert of those that are issued, one after the other.
QueuedAll(queues, some) ==
    LET after[n \in 0 .. Len(some)] ==
            IF n = 0 THEN queues ELSE Queued(after[n - 1], some[n], Latency[inst[some[n]].type])
    IN  after[Len(some)]

\* What is woken in this cycle: the slot of the ring, then the first event.
Woken(queues) ==
    queues.ring[now % QueueSize]
        \o (IF queues.events # <<>> /\ Head(queues.events).cycle = now THEN Head(queues.events).list ELSE <<>>)

\* The queues when their chains are detached, before anybody is woken.
Detached(queues) ==
    [ring |-> [queues.ring EXCEPT ![now % QueueSize] = <<>>],
     events |-> IF queues.events # <<>> /\ Head(queues.events).cycle = now THEN Tail(queues.events) ELSE queues.events]

\* What becomes of an instruction that executes; "posted" when the cache refuses
\* the access (NOT_READY).
Outcomes == {"complete", "elsewhere", "posted"}

\* A cycle of the scheduler.  Those of Issued are queued in the order of the list.
\* Of the instructions that are woken, some post themselves for the next cycle:
\* again in the slot of this one.  They write registers that others wait for, which
\* become ready, in any order.
Execute ==
    LET queues == QueuedAll([ring |-> ring, events |-> events], Without(LookedAt, InFlight \ Issued))
        woken == Woken(queues)
        detached == Detached(queues)
    IN  /\ now < LastCycle
        /\ now' = now + 1
        /\ \E outcome \in [ToSet(woken) -> Outcomes],
              filled \in SetToAllKPermutations({i \in InFlight : State(i) = "waiting"}) :
               /\ woken = <<>> => filled = <<>>
               /\ ready' = Scheduled(Without(ready, Issued), filled)
               /\ ring' = [detached.ring EXCEPT ![now % QueueSize] =
                               Without(woken, {i \in ToSet(woken) : outcome[i] # "posted"})]
               /\ events' = detached.events
               /\ inst' = [i \in InFlight |->
                     CASE i \in ToSet(woken) ->
                            [inst[i] EXCEPT !.state = outcome[i],
                                            !.due = IF outcome[i] = "posted" THEN now + 1 ELSE @]
                       [] i \in Issued ->
                            [inst[i] EXCEPT !.state = "issued", !.due = now + Latency[inst[i].type]]
                       [] i \in ToSet(filled) -> [inst[i] EXCEPT !.state = "ready"]
                       [] OTHER -> inst[i]]

SchedulerNext ==
    \/ \E type \in Types : DecodeInst(type)
    \/ \E i \in InFlight : MakeReady(i) \/ Resume(i) \/ SquashFrom(i)
    \/ Execute

SchedulerSpec == SchedulerInit /\ [][SchedulerNext]_schedulerVars

----------------------------------------------------------------------------
(***************************************************************************)
(* Properties.                                                             *)
(***************************************************************************)
\* The state stays in its types.
SchedulerTypeOK ==
    /\ now \in 0 .. LastCycle
    /\ inst \in Seq([type : Types, state : States, priority : 0 .. LastCycle, due : Nat])
    /\ ready \in Seq(InFlight)
    /\ ring \in [0 .. QueueSize - 1 -> Seq(InFlight)]
    /\ events \in Seq([cycle : Nat, list : Seq(InFlight)])

\* How often an instruction stands in a list.
Times(i, list) == Cardinality({n \in DOMAIN list : list[n] = i})

Queues(i) ==
    Cardinality({s \in DOMAIN ring : Times(i, ring[s]) # 0}) + Cardinality({n \in DOMAIN events : Times(i, events[n].list) # 0})

\* An instruction is in the list that its stage says, once, and in no other, after
\* any mixture of squashes and of wakeups that put it back in the list that is
\* being woken (wait.C:94).
EachWaitsOnce ==
    \A i \in InFlight :
        /\ Times(i, ready) = IF State(i) = "ready" THEN 1 ELSE 0
        /\ Queues(i) = IF State(i) \in {"issued", "posted"} THEN 1 ELSE 0
        /\ \A s \in DOMAIN ring : Times(i, ring[s]) <= 1

\* The ready list is in the order of decoding (OrderedList): also when the
\* instructions that found no unit are put back before those not looked at.
ReadyInDecodeOrder ==
    \A m, n \in DOMAIN ready : m < n => inst[ready[m]].priority <= inst[ready[n]].priority

\* What is issued executes when its latency is over, no sooner (scheduler.C:225)
\* and no later, through the ring or through the list of events.  What posts itself
\* for the next cycle (pseq.C:3594) may go to the slot whose chain is being woken,
\* and waits for a turn of the ring at most.
ExecutesWhenDue ==
    [][now' # now =>
           \A i \in InFlight :
               /\ State(i) = "ready" => inst'[i].state \in {"ready", "issued"}
               /\ State(i) = "issued" => (inst'[i] # inst[i] <=> inst[i].due = now)
               /\ State(i) = "posted" /\ inst'[i] = inst[i] => now < inst[i].due + QueueSize - 1]_schedulerVars

\* Each cycle has one event, and they are in their order.
EventsInOrder == \A m, n \in DOMAIN events : m < n => events[m].cycle < events[n].cycle

\* The wait list, the ring and the list of events agree with the instructions and
\* are in their orders, whoever squashes or puts back an instruction while a list
\* is being walked (scheduler.C:96, wait.C:94).
ListsConsistent == SchedulerTypeOK /\ EachWaitsOnce /\ ReadyInDecodeOrder /\ EventsInOrder

\* No instruction starts while one decoded in an earlier cycle is ready for the
\* same unit and is left behind.
Starts(i) == i \in DOMAIN inst' /\ State(i) = "ready" /\ inst'[i].state = "issued"

OldestFirst ==
    [][\A i, j \in InFlight :
           Starts(i) /\ State(j) = "ready" /\ Unit(j) = Unit(i) /\ inst[j].priority < inst[i].priority => Starts(j)]_schedulerVars
=============================================================================
