-------------------------- MODULE StoreEquivalence --------------------------
(***************************************************************************)
(* What the profiling pass promises the fault-injection campaign: every    *)
(* store ends up in exactly one class, the class of the stores made at the *)
(* same pc whose value was loaded by the same sequence of instructions,    *)
(* and a class knows how many stores it stands for.                        *)
(***************************************************************************)
EXTENDS Naturals, Sequences

CONSTANTS
    StorePcs,      \* instructions whose stores are recorded
    LoadTags,      \* names of the loading instructions
    Addresses      \* addresses profiled

VARIABLES
    open,          \* the store whose value an address holds, with its loads
    classes        \* the stores overwritten so far, counted by class

NoStore == [pc |-> 0, uses |-> <<>>]

Init ==
    /\ open = [a \in Addresses |-> NoStore]
    /\ classes = <<>>

\* How many stores a class stands for.
Population(store) == IF store \in DOMAIN classes THEN classes[store] ELSE 0

\* The classes once the store address a holds has ended.
ClassesAfter(a) ==
    IF open[a] = NoStore THEN classes
    ELSE [s \in DOMAIN classes \cup {open[a]} |->
             IF s = open[a] THEN Population(s) + 1 ELSE Population(s)]

\* The store at address a is overwritten by one made at pc.
Store(pc, a) ==
    /\ classes' = ClassesAfter(a)
    /\ open' = [open EXCEPT ![a] = [pc |-> pc, uses |-> <<>>]]

\* The value at address a is loaded.
Load(tag, a) ==
    /\ open[a] # NoStore
    /\ open' = [open EXCEPT ![a].uses = Append(@, tag)]
    /\ UNCHANGED classes

\* The program is over for the value at address a.
End(a) ==
    /\ open[a] # NoStore
    /\ classes' = ClassesAfter(a)
    /\ open' = [open EXCEPT ![a] = NoStore]

Next ==
    \E a \in Addresses :
        \/ \E pc \in StorePcs : Store(pc, a)
        \/ \E tag \in LoadTags : Load(tag, a)
        \/ End(a)

Spec == Init /\ [][Next]_<<open, classes>>
=============================================================================
