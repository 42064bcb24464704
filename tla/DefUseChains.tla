---------------------------- MODULE DefUseChains ----------------------------
(***************************************************************************)
(* The profiling pass of emerald (system_t, def_use_chain_t): every store  *)
(* of the program text starts a chain, the loads of its address are its    *)
(* uses, and the next store to the address ends it.  A chain that ends     *)
(* equal to an earlier one of the same pc is deleted and counted in that   *)
(* one's population.  What remains are the pilots, the stores the faults   *)
(* are injected in.                                                        *)
(*                                                                         *)
(* A chain is named by its cycle, counted in recorded stores.  The heap of *)
(* chains, the list of each address and the list of each pc are separate   *)
(* state: the same chain is reached from both lists, and removing it must  *)
(* keep them in step.                                                      *)
(***************************************************************************)
EXTENDS Integers, SequencesExt

CONSTANTS
    StorePcs,      \* pcs of the stores inside TEXT_START .. TEXT_END
    LoadPcs,       \* pcs of the loads in that range
    RecordPcs,     \* RECORD_TEXT_START .. RECORD_TEXT_END
    Addresses,     \* logical addresses of the space analyzed (heap or stack)
    TagSpace,      \* a use keeps the pc modulo this (pc & 0xFFFFF)
    ClassSize,     \* MAX_EQUIVALENT_CLASS_SIZE: cycles a chain remembers
    MaxStores,     \* bound: stores recorded
    MaxUses        \* bound: uses of one chain

ASSUME BoundsAssumption ==
    /\ StorePcs \subseteq Nat \ {0} /\ LoadPcs \subseteq Nat /\ RecordPcs \subseteq Nat
    /\ Addresses \subseteq Nat /\ IsFiniteSet(Addresses)
    /\ TagSpace \in Nat \ {0} /\ ClassSize \in Nat \ {0}
    /\ MaxStores \in Nat /\ MaxUses \in Nat

VARIABLES
    phase,         \* "tracking", "analyzing" or "reported"
    cycle,         \* stores recorded so far
    chain,         \* the chains on the heap, by cycle
    addressChains, \* address_chains: an entry per address stored to
    pcChains,      \* pc_chains: an entry per pc that stored
    toAnalyze      \* addresses the loop of analyzeChains has still to visit

vars == <<phase, cycle, chain, addressChains, pcChains, toAnalyze>>

Cycle == 1 .. MaxStores

Tag(pc) == pc % TagSpace

Chain == [pc : StorePcs, uses : Seq(0 .. TagSpace - 1), done : BOOLEAN,
          population : Nat, equalized : Seq(Cycle)]

(***************************************************************************)
(* Helpers                                                                 *)
(***************************************************************************)

NewChain(pc) ==
    [pc |-> pc, uses |-> <<>>, done |-> FALSE, population |-> 0, equalized |-> <<>>]

\* Mutant of IsChainEqual: a chain still in use passes for an equal one.
IsUseEqual(c, d) == c.uses = d.uses

\* is_chain_equal: only a chain that has ended can absorb another.
IsChainEqual(c, d) == c.done /\ c.uses = d.uses

\* Mutant of AddCycle: a full class no longer counts.
AddCycleFull(c, i) ==
    IF Len(c.equalized) < ClassSize
    THEN {[c EXCEPT !.population = @ + 1, !.equalized = Append(@, i)]}
    ELSE {c}

\* add_cycle: the class grows by the store of cycle i.  A full class keeps a
\* sample: i is dropped, or it takes the place of one of the first cycles.
AddCycle(c, i) ==
    LET grown == [c EXCEPT !.population = @ + 1]
        longer == Append(c.equalized, i)
        last == IF ClassSize = 1 THEN 1 ELSE ClassSize - 1
    IN  IF Len(c.equalized) < ClassSize
        THEN {[grown EXCEPT !.equalized = longer]}
        ELSE {grown} \cup {[grown EXCEPT !.equalized = RemoveAt(longer, k)] : k \in 1 .. last}

\* Mutant of SetDefDone: the chain is left in use.
SetDefLater(i) == chain

\* set_def_done: chain i takes no more uses.
SetDefDone(i) == [chain EXCEPT ![i].done = TRUE]

\* Mutant of EqualTo: only the chains started before i are compared.
EqualBefore(heap, i) ==
    LET list == pcChains[heap[i].pc]
    IN  {k \in DOMAIN list : list[k] < i /\ IsChainEqual(heap[list[k]], heap[i])}

\* The places, in the list of its pc, of the chains chain i is equal to.
EqualTo(heap, i) ==
    LET list == pcChains[heap[i].pc]
    IN  {k \in DOMAIN list : list[k] # i /\ IsChainEqual(heap[list[k]], heap[i])}

\* Mutant of Erased: the place to erase is left at its first value.
ErasedFirst(pc, i) == [pcChains EXCEPT ![pc] = Tail(@)]

\* The pc lists with chain i erased, by its place, from that of pc.
Erased(pc, i) ==
    LET list == pcChains[pc]
    IN  [pcChains EXCEPT ![pc] = RemoveAt(list, CHOOSE k \in DOMAIN list : list[k] = i)]

\* The chains, the address lists and the pc lists after the last chain of
\* address a has ended and removeFromPcChains has merged it into the first
\* chain it is equal to, if there is one.
Ended(a) ==
    LET last  == Last(addressChains[a])
        done  == SetDefDone(last)
        equal == EqualTo(done, last)
        twin  == pcChains[chain[last].pc][Min(equal)]
    IN  IF equal = {}
        THEN {[chain |-> done, addresses |-> addressChains, pcs |-> pcChains]}
        ELSE {[chain     |-> [i \in DOMAIN chain \ {last} |-> IF i = twin THEN c ELSE done[i]],
               addresses |-> [addressChains EXCEPT ![a] = Front(@)],
               pcs       |-> Erased(chain[last].pc, last)] :
              c \in AddCycle(done[twin], last)}

\* lists with i pushed on the list of key, which is created if need be.
Pushed(lists, key, i) ==
    [k \in DOMAIN lists \cup {key} |->
        IF k # key THEN lists[k]
        ELSE IF k \in DOMAIN lists THEN Append(lists[k], i) ELSE <<i>>]

(***************************************************************************)
(* Actions                                                                 *)
(***************************************************************************)

Init ==
    /\ phase = "tracking"
    /\ cycle = 0
    /\ chain = <<>>
    /\ addressChains = <<>>
    /\ pcChains = <<>>
    /\ toAnalyze = {}

\* add of a WRITE: end the chain the address holds, then start the new one.
\* A store outside the recorded range returns first and changes nothing.
Write(pc, a) ==
    /\ phase = "tracking"
    /\ cycle < MaxStores
    /\ pc \in RecordPcs
    /\ cycle' = cycle + 1
    /\ \E after \in IF a \in DOMAIN addressChains
                    THEN Ended(a)
                    ELSE {[chain |-> chain, addresses |-> addressChains, pcs |-> pcChains]} :
          /\ chain' = [i \in DOMAIN after.chain \cup {cycle'} |->
                          IF i = cycle' THEN NewChain(pc) ELSE after.chain[i]]
          /\ addressChains' = Pushed(after.addresses, a, cycle')
          /\ pcChains' = Pushed(after.pcs, pc, cycle')
    /\ UNCHANGED <<phase, toAnalyze>>

\* add of a READ: a use of the chain the address holds.  A load of an address
\* never stored to is ignored.
Read(pc, a) ==
    /\ phase = "tracking"
    /\ a \in DOMAIN addressChains
    /\ LET last == Last(addressChains[a]) IN
       /\ ~chain[last].done
       /\ Len(chain[last].uses) < MaxUses
       /\ chain' = [chain EXCEPT ![last].uses = Append(@, Tag(pc))]
    /\ UNCHANGED <<phase, cycle, addressChains, pcChains, toAnalyze>>

\* analyzeChains starts when the profiled program is over.
StartAnalysis ==
    /\ phase = "tracking"
    /\ phase' = "analyzing"
    /\ toAnalyze' = DOMAIN addressChains
    /\ UNCHANGED <<cycle, chain, addressChains, pcChains>>

\* One turn of its loop, in the order of the map: end the address's chain.
AnalyzeAddress ==
    /\ phase = "analyzing"
    /\ toAnalyze # {}
    /\ LET a == Min(toAnalyze) IN
       /\ toAnalyze' = toAnalyze \ {a}
       /\ \E after \in Ended(a) :
             /\ chain' = after.chain
             /\ addressChains' = after.addresses
             /\ pcChains' = after.pcs
    /\ UNCHANGED <<phase, cycle>>

\* The loop is over: each pc's pilots and populations are printed.
Report ==
    /\ phase = "analyzing"
    /\ toAnalyze = {}
    /\ phase' = "reported"
    /\ UNCHANGED <<cycle, chain, addressChains, pcChains, toAnalyze>>

Next ==
    \/ \E a \in Addresses : \/ \E pc \in StorePcs : Write(pc, a)
                            \/ \E pc \in LoadPcs : Read(pc, a)
    \/ StartAnalysis
    \/ AnalyzeAddress
    \/ Report

Spec == Init /\ [][Next]_vars

(***************************************************************************)
(* Properties                                                              *)
(***************************************************************************)

\* Type invariant of the heap of chains and of the two indexes over it.
TypeOK ==
    /\ phase \in {"tracking", "analyzing", "reported"}
    /\ cycle \in 0 .. MaxStores
    /\ DOMAIN chain \subseteq 1 .. cycle
    /\ \A i \in DOMAIN chain : chain[i] \in Chain
    /\ DOMAIN addressChains \subseteq Addresses
    /\ \A a \in DOMAIN addressChains : addressChains[a] \in Seq(DOMAIN chain)
    /\ DOMAIN pcChains \subseteq RecordPcs
    /\ \A pc \in DOMAIN pcChains : pcChains[pc] \in Seq(DOMAIN chain)
    /\ toAnalyze \subseteq DOMAIN addressChains

\* Where chain i is listed in an index.
Listed(lists, i) ==
    {kp \in {<<k, p>> : k \in DOMAIN lists, p \in 1 .. MaxStores} :
        kp[2] \in DOMAIN lists[kp[1]] /\ lists[kp[1]][kp[2]] = i}

\* The two indexes never disagree about the heap: a chain is in exactly one
\* address list and in exactly one pc list, that of its own pc, and no list
\* holds a deleted chain.  removeFromPcChains unlinks a chain from both by
\* different means (pop_back, erase by position) and frees it.
IndexesAgree ==
    /\ \A i \in DOMAIN chain :
          /\ Cardinality(Listed(addressChains, i)) = 1
          /\ \E p \in 1 .. MaxStores : Listed(pcChains, i) = {<<chain[i].pc, p>>}
    /\ \A a \in DOMAIN addressChains : Range(addressChains[a]) \subseteq DOMAIN chain
    /\ \A pc \in DOMAIN pcChains : Range(pcChains[pc]) \subseteq DOMAIN chain

\* While the program runs, an address that was stored to holds exactly one
\* chain in use, its last: the list the code insists cannot be empty when a
\* load comes ("size cannot be zero", then exit) never is, whichever chains
\* were merged away.
OneChainInUse ==
    phase = "tracking" =>
        \A a \in DOMAIN addressChains :
            /\ addressChains[a] # <<>>
            /\ \A k \in DOMAIN addressChains[a] :
                  chain[addressChains[a][k]].done <=> k < Len(addressChains[a])

\* The stores that some chains of a heap stand for: each its own, as number 0, and
\* its population.
Members(heap, chains) == UNION {{i} \X (0 .. heap[i].population) : i \in chains}

\* Every store is accounted for once: it is a pilot or it was merged into one,
\* so the chains and their populations add up to the stores recorded, and no
\* cycle is both a pilot and a sample, or a sample twice.
EveryStoreOnce ==
    /\ cycle = Cardinality(Members(chain, DOMAIN chain))
    /\ \A i, j \in DOMAIN chain :
          /\ i \notin Range(chain[j].equalized)
          /\ i # j => Range(chain[i].equalized) \cap Range(chain[j].equalized) = {}
    /\ \A i \in DOMAIN chain :
          /\ IsInjective(chain[i].equalized)
          /\ Len(chain[i].equalized) = Min({ClassSize, chain[i].population})

\* The classes are the coarsest the comparison allows: no two chains of a pc
\* that have ended have the same uses, and at the report all have ended.
\* Chains are compared only when one ends, so a pair missed then would be
\* reported as two pilots.
PilotsDistinct ==
    /\ \A i, j \in DOMAIN chain :
          /\ chain[i].done /\ chain[j].done
          /\ chain[i].pc = chain[j].pc /\ chain[i].uses = chain[j].uses
          => i = j
    /\ phase = "reported" => \A i \in DOMAIN chain : chain[i].done

\* The lists and the heap agree and hold no more chains than they should: one in
\* use per address, and one per class that has ended (system.C:541).
ChainsConsistent == TypeOK /\ IndexesAgree /\ OneChainInUse /\ PilotsDistinct

\* The store an address holds, as the abstract specification names it.
OpenStore(a) ==
    IF a \notin DOMAIN addressChains \/ addressChains[a] = <<>>
    THEN [pc |-> 0, uses |-> <<>>]
    ELSE LET c == chain[Last(addressChains[a])]
         IN  IF c.done THEN [pc |-> 0, uses |-> <<>>] ELSE [pc |-> c.pc, uses |-> c.uses]

\* The class of a chain, and the chains of a heap that have ended in a class.
ClassOf(heap, i) == [pc |-> heap[i].pc, uses |-> heap[i].uses]
EndedIn(heap, c) == {i \in DOMAIN heap : heap[i].done /\ ClassOf(heap, i) = c}

\* The stores that have ended, counted by class.
EndedStores ==
    [c \in {ClassOf(chain, i) : i \in {j \in DOMAIN chain : chain[j].done}} |->
        Cardinality(Members(chain, EndedIn(chain, c)))]

Abstract == INSTANCE StoreEquivalence WITH
    StorePcs <- StorePcs \cap RecordPcs,
    LoadTags <- {Tag(pc) : pc \in LoadPcs},
    open <- [a \in Addresses |-> OpenStore(a)],
    classes <- EndedStores

\* The chains, merged in place as they end, implement the abstract
\* classification in which every ended store is kept and compared.
ImplementsEquivalence == Abstract!Spec
=============================================================================
