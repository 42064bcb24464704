---------------------------- MODULE InOrderWindow ----------------------------
(***************************************************************************)
(* What the front end and the instruction window of a sequencer promise    *)
(* together: a queue of instructions in program order, each fetched, then  *)
(* decoded, then scheduled in that order, completed in any order, retired  *)
(* from the head only.  An instruction after which fetch went the wrong    *)
(* way (wrong), or that read a value an older store still had to write     *)
(* (stale), never retires: recovery cuts the queue at the oldest such      *)
(* place.  InstructionWindow implements this with a ring of pointers, two  *)
(* delay rings of batch sizes and one pending exception.                   *)
(***************************************************************************)
EXTENDS Integers, Sequences

CONSTANTS Capacity,    \* instructions the queue can hold
          Scheduled,   \* instructions that can be scheduled and not retired
          Stoppers,    \* kinds of instruction that nothing is fetched behind
          Groups       \* what one cycle can fetch: sequences of instructions

VARIABLE queue         \* the instructions in flight, oldest first

\* Instructions of a stage; stages are in order along the queue.
Staged(stage) == {k \in DOMAIN queue : queue[k].stage = stage}

\* The positions that must become the youngest: a resolved wrong prediction,
\* or the instruction before one that has to run again.
Causes ==
    {k \in 0 .. Len(queue) :
        \/ k > 0 /\ queue[k].done /\ queue[k].wrong
        \/ k < Len(queue) /\ queue[k + 1].stale}

\* The instructions of one stage up to a position enter the next.
Advance(from, to, last) ==
    queue' = [k \in DOMAIN queue |->
        IF k \in Staged(from) /\ k <= last THEN [queue[k] EXCEPT !.stage = to]
        ELSE queue[k]]

Init == queue = <<>>

Fetch(group) ==
    /\ Len(queue) + Len(group) <= Capacity
    /\ queue # <<>> => queue[Len(queue)].kind \notin Stoppers
    /\ queue' = queue \o group

Decode(last) == last \in Staged("fetched") /\ Advance("fetched", "decoded", last)

\* What is scheduled is the front of the queue.
Schedule(last) ==
    /\ last \in Staged("decoded") /\ last <= Scheduled
    /\ Advance("decoded", "scheduled", last)

\* An instruction completes; scheduled younger ones may turn out stale.
Complete(k, stale) ==
    /\ k \in Staged("scheduled") /\ ~queue[k].done
    /\ stale \subseteq {j \in Staged("scheduled") : j > k}
    /\ queue' = [j \in DOMAIN queue |->
           IF j = k THEN [queue[j] EXCEPT !.done = TRUE]
           ELSE IF j \in stale THEN [queue[j] EXCEPT !.stale = TRUE]
           ELSE queue[j]]

Recover ==
    \E last \in Causes :
        /\ \A k \in Causes : last <= k
        /\ queue' = [k \in 1 .. last |->
               IF k = last /\ queue[k].done THEN [queue[k] EXCEPT !.wrong = FALSE]
               ELSE queue[k]]

\* The head leaves; it may take everything behind it along (trap, reload).
Retire ==
    /\ queue # <<>> /\ queue[1].done /\ Causes = {}
    /\ queue' \in {Tail(queue), <<>>}

Next ==
    \/ \E group \in Groups : Fetch(group)
    \/ \E last \in 1 .. Capacity : Decode(last) \/ Schedule(last)
    \/ \E k \in 1 .. Capacity : \E stale \in SUBSET (1 .. Capacity) : Complete(k, stale)
    \/ Recover
    \/ Retire

Spec == Init /\ [][Next]_queue
===============================================================================
