---------------------------- MODULE MCScheduler ----------------------------
(***************************************************************************)
(* A small machine for Scheduler: an adder and a multiplier share a unit,  *)
(* memory has one of its own.                                              *)
(***************************************************************************)
EXTENDS Scheduler

MCTypes == {"add", "mult", "memory"}
MCUnits == {"alu", "port"}
MCUnitOf == [t \in MCTypes |-> IF t = "memory" THEN "port" ELSE "alu"]
MCNumAlus == [u \in MCUnits |-> 1]

\* Short and long latencies: less than the ring, as much, and more.
MCLatency == [t \in MCTypes |-> CASE t = "add" -> 1 [] t = "memory" -> QueueSize [] t = "mult" -> QueueSize + 1]
=============================================================================
