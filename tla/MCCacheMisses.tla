--------------------------- MODULE MCCacheMisses ---------------------------
(***************************************************************************)
(* One way and two or three registers per cache; a first-level bus that    *)
(* two lines contend for.                                                  *)
(***************************************************************************)
EXTENDS CacheMisses

MCWays      == [m \in Mshrs |-> 1]
MCEntries   == [m \in Mshrs |-> IF m = "IL1" THEN 1 ELSE 2]
MCLatency   == [m \in Mshrs |-> 1]
MCBusCycles == [m \in Mshrs |-> IF m = "L2" THEN 1 ELSE 2]
=============================================================================
