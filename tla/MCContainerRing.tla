-------------------------- MODULE MCContainerRing --------------------------
(***************************************************************************)
(* TLC instances of ContainerRing: a window of two instructions, a ring of *)
(* eight slots.                                                            *)
(***************************************************************************)
EXTENDS ContainerRing, TLC

CONSTANTS p1, p2, p3, p4, f0, f16

MCPhys == {p1, p2, p3, p4}
MCRegs == {f0, f16}
MCSymmetry == Permutations(MCPhys) \union Permutations(MCRegs)

\* An instruction may see the ring taken once around and some slots more.
OneLap == Size + 4

\* Nothing is claimed of what follows once a register was put back wrongly.
Trusted == ~misled
\* A long load holds the window while what follows it is squashed again and again.
Lap == 2 * Size
=============================================================================
