------------------------- MODULE ReadersWriterLock -------------------------
(***************************************************************************)
(* urwlock_t of opal/common/urwlock.C: a lock that many readers or one     *)
(* writer may hold, built from a mutex, two counts, a flag and one         *)
(* condition variable that readers and writers share.                      *)
(*                                                                         *)
(* Every method runs under m_mutex from its first line to its last, except *)
(* inside pthread_cond_wait.  An action is therefore the stretch of one    *)
(* method between two points where it gives the mutex up: from its start,  *)
(* or from the return of pthread_cond_wait, to its end or to the next      *)
(* pthread_cond_wait.  Which thread gets the mutex next is the choice of   *)
(* the thread in LockNext.                                                 *)
(*                                                                         *)
(* The callers keep to the header's rules: a thread asks for the lock only *)
(* when it does not hold it, releases what it holds, upgrades a read lock  *)
(* and downgrades a write lock.                                            *)
(***************************************************************************)
EXTENDS Naturals, FiniteSets

CONSTANTS
    Threads,    \* the threads that share the lock
    Programs    \* the programs: which methods each thread calls

\* "upgrade": upgrade_read_lock and downgrade_write_lock.
Methods == {"read", "write", "upgrade"}

ASSUME ThreadsAssumption ==
    /\ IsFiniteSet(Threads)
    /\ Programs \subseteq [Threads -> SUBSET Methods]

VARIABLES
    calls,          \* the program, which does not change
    readerCount,    \* m_reader_count
    writerCount,    \* m_writer_count
    writerWaiting,  \* m_writer_waiting: one flag for all the writers that wait
    pc,             \* what each thread does
    asleep          \* the threads that sleep on m_lock_free_cv

lockVars == <<calls, readerCount, writerCount, writerWaiting, pc, asleep>>

\* "toRead" and "toWrite": inside the while loop of a method that asks for the lock.
Places == {"idle", "toRead", "reading", "toWrite", "writing"}

At(place) == {t \in Threads : pc[t] = place}
Goes(t, place) == pc' = [pc EXCEPT ![t] = place]

Calling(method) == {t \in Threads : method \in calls[t]}

LockInit ==
    /\ calls \in Programs
    /\ readerCount = 0
    /\ writerCount = 0
    /\ writerWaiting = FALSE
    /\ pc = [t \in Threads |-> "idle"]
    /\ asleep = {}

(***************************************************************************)
(* The condition variable.  A signal wakes one of the threads asleep,      *)
(* whichever; nobody remembers a signal that finds none.                   *)
(***************************************************************************)
Signal == \/ asleep = {} /\ UNCHANGED asleep
          \/ \E t \in asleep : asleep' = asleep \ {t}

\* Mutant of Broadcast: one thread is woken instead of all.
BroadcastToOne == Signal

\* Mutant of Broadcast: the writer that leaves wakes nobody.
BroadcastToNone == UNCHANGED asleep

Broadcast == asleep' = {}

\* POSIX lets pthread_cond_wait return without a signal.
SpuriousWakeup(t) ==
    /\ t \in asleep
    /\ asleep' = asleep \ {t}
    /\ UNCHANGED <<readerCount, writerCount, writerWaiting, pc>>

Wait(t) == asleep' = asleep \cup {t}

----------------------------------------------------------------------------
(***************************************************************************)
(* Reading.                                                                *)
(***************************************************************************)
\* Mutant of TryRead: a writer that holds the lock does not keep a reader out.
TryReadBesideWriter(t) ==
    /\ UNCHANGED <<writerCount, writerWaiting>>
    /\ \/ /\ writerWaiting
          /\ Goes(t, "toRead")
          /\ Wait(t)
          /\ UNCHANGED readerCount
       \/ /\ ~ writerWaiting
          /\ Goes(t, "reading")
          /\ readerCount' = readerCount + 1
          /\ UNCHANGED asleep

\* Mutant of TryRead: a writer that waits does not keep a reader out.
TryReadPastWaiting(t) ==
    /\ UNCHANGED <<writerCount, writerWaiting>>
    /\ \/ /\ writerCount > 0
          /\ Goes(t, "toRead")
          /\ Wait(t)
          /\ UNCHANGED readerCount
       \/ /\ writerCount = 0
          /\ Goes(t, "reading")
          /\ readerCount' = readerCount + 1
          /\ UNCHANGED asleep

\* One turn of the loop of read_lock.
TryRead(t) ==
    /\ UNCHANGED <<writerCount, writerWaiting>>
    /\ \/ /\ writerWaiting \/ writerCount > 0
          /\ Goes(t, "toRead")
          /\ Wait(t)
          /\ UNCHANGED readerCount
       \/ /\ ~ writerWaiting /\ writerCount = 0
          /\ Goes(t, "reading")
          /\ readerCount' = readerCount + 1
          /\ UNCHANGED asleep

ReadLock(t) == t \in Calling("read") /\ pc[t] = "idle" /\ TryRead(t)

ResumeRead(t) == pc[t] = "toRead" /\ t \notin asleep /\ TryRead(t)

ReadUnlock(t) ==
    /\ pc[t] = "reading"
    /\ readerCount > 0
    /\ readerCount' = readerCount - 1
    /\ Goes(t, "idle")
    /\ IF readerCount' = 0 /\ writerWaiting THEN Signal ELSE UNCHANGED asleep
    /\ UNCHANGED <<writerCount, writerWaiting>>

----------------------------------------------------------------------------
(***************************************************************************)
(* Writing.                                                                *)
(***************************************************************************)
\* Mutant of TryWrite: the count of writers grows and readers alone are waited for.
TryWriteBesideWriter(t, flag, readersLeft) ==
    /\ readerCount' = readersLeft
    /\ \/ /\ readersLeft > 0
          /\ Goes(t, "toWrite")
          /\ Wait(t)
          /\ writerWaiting' = flag
          /\ UNCHANGED writerCount
       \/ /\ readersLeft = 0
          /\ Goes(t, "writing")
          /\ writerWaiting' = FALSE
          /\ writerCount' = writerCount + 1
          /\ UNCHANGED asleep

\* One turn of the loop of write_lock and upgrade_read_lock, with the flag and
\* the count of readers as the method has set them before.
TryWrite(t, flag, readersLeft) ==
    /\ readerCount' = readersLeft
    /\ \/ /\ writerCount > 0 \/ readersLeft > 0
          /\ Goes(t, "toWrite")
          /\ Wait(t)
          /\ writerWaiting' = flag
          /\ UNCHANGED writerCount
       \/ /\ writerCount = 0 /\ readersLeft = 0
          /\ Goes(t, "writing")
          /\ writerWaiting' = FALSE
          /\ writerCount' = 1
          /\ UNCHANGED asleep

WriteLock(t) == t \in Calling("write") /\ pc[t] = "idle" /\ TryWrite(t, TRUE, readerCount)

\* The flag is raised before the loop only: a writer that goes back to sleep
\* leaves it as it finds it.
ResumeWrite(t) ==
    /\ pc[t] = "toWrite"
    /\ t \notin asleep
    /\ TryWrite(t, writerWaiting, readerCount)

WriteUnlock(t) ==
    /\ pc[t] = "writing"
    /\ writerCount > 0 /\ readerCount = 0
    /\ writerCount' = 0
    /\ Goes(t, "idle")
    /\ Broadcast
    /\ UNCHANGED <<readerCount, writerWaiting>>

Upgrade(t) ==
    /\ t \in Calling("upgrade")
    /\ pc[t] = "reading"
    /\ readerCount > 0
    /\ TryWrite(t, TRUE, readerCount - 1)

\* Mutant of Downgrade: the thread is not counted as a reader.
DowngradeUncounted(t) ==
    /\ t \in Calling("upgrade")
    /\ pc[t] = "writing"
    /\ writerCount > 0 /\ readerCount = 0
    /\ writerCount' = 0
    /\ Goes(t, "reading")
    /\ Broadcast
    /\ UNCHANGED <<readerCount, writerWaiting>>

Downgrade(t) ==
    /\ t \in Calling("upgrade")
    /\ pc[t] = "writing"
    /\ writerCount > 0 /\ readerCount = 0
    /\ writerCount' = 0
    /\ readerCount' = 1
    /\ Goes(t, "reading")
    /\ Broadcast
    /\ UNCHANGED writerWaiting

\* The early returns: the caller does not hold what it releases, says the
\* count.  The call returns an error and changes nothing.
Refused(t) ==
    /\ \/ pc[t] = "reading" /\ readerCount = 0
       \/ pc[t] = "writing" /\ (writerCount = 0 \/ readerCount # 0)

----------------------------------------------------------------------------
Release(t) == ReadUnlock(t) \/ WriteUnlock(t) \/ Downgrade(t)

Reenter(t) == ResumeRead(t) \/ ResumeWrite(t)

Step(t) == \/ ReadLock(t) \/ WriteLock(t) \/ Upgrade(t)
           \/ Release(t) \/ Reenter(t) \/ SpuriousWakeup(t)

LockNext == (\E t \in Threads : Step(t)) /\ UNCHANGED calls

LockSpec == LockInit /\ [][LockNext]_lockVars

\* A thread that is awake in the loop gets the mutex in the end, however often
\* others take it before; a thread that holds the lock releases it in the end.
\* Nothing is assumed of new calls and of wakeups without a signal.
FairSpec == /\ LockSpec
            /\ \A t \in Threads : SF_lockVars(Reenter(t) /\ UNCHANGED calls)
                                /\ WF_lockVars((ReadUnlock(t) \/ WriteUnlock(t)) /\ UNCHANGED calls)

----------------------------------------------------------------------------
(***************************************************************************)
(* Properties.                                                             *)
(***************************************************************************)
LockTypeOK ==
    /\ calls \in Programs
    /\ readerCount \in Nat
    /\ writerCount \in {0, 1}
    /\ writerWaiting \in BOOLEAN
    /\ pc \in [Threads -> Places]
    /\ asleep \subseteq At("toRead") \cup At("toWrite")

\* A writer is alone: no other writer and no reader holds the lock.
Exclusion ==
    \A t, u \in Threads : pc[t] = "writing" /\ u # t => pc[u] \notin {"reading", "writing"}

\* The counts are those of the threads that hold the lock, through upgrades and
\* downgrades too.
CountsMatchHolders ==
    /\ readerCount = Cardinality(At("reading"))
    /\ writerCount = Cardinality(At("writing"))

\* No release is refused: a thread that holds the lock can give it up, whatever
\* the others did in between (urwlock.C:180 and the early returns like it).
NeverRefused == \A t \in Threads : ~ Refused(t)

\* What the lock promises its holders (urwlock.h:85), through any mixture of
\* locking, upgrades and downgrades.
LockSafe == LockTypeOK /\ CountsMatchHolders /\ Exclusion /\ NeverRefused

\* No reader sleeps without a cause: a writer holds the lock or one has
\* announced itself.  (The flag is cleared only by a writer that gets in, and a
\* writer that leaves wakes all; for a sleeping writer it is not so, see
\* WriterGetsIn.)
SleepingReaderHasCause ==
    asleep \cap At("toRead") # {} => writerWaiting \/ writerCount > 0

\* Writers come first (urwlock.C:156, "give priority to writers"): a reader is let
\* in only when no writer is in the loop of write_lock or upgrade_read_lock.  The
\* flag is one for all the writers and write_lock lowers it for all of them, so
\* this can be said of programs with a single writer only.
WritersFirst ==
    [][Cardinality(Calling("write") \cup Calling("upgrade")) <= 1 =>
           \A t \in Threads : pc[t] \in {"idle", "toRead"} /\ pc'[t] = "reading" => At("toWrite") = {}]_lockVars

\* When a writer waits, a writer gets in: the writer that leaves wakes everybody.
\* It is so without threads that hold the lock as readers only.  The last reader
\* that leaves wakes one thread and only if the flag is up (urwlock.C:188): the one
\* may be a reader that sleeps again, and the flag may have been lowered by a
\* writer that got in before the one that waits.
WriterGetsIn ==
    Calling("read") \cup Calling("upgrade") = {} /\ At("toWrite") # {} ~> At("writing") # {}
=============================================================================
