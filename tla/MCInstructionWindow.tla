------------------------- MODULE MCInstructionWindow -------------------------
(***************************************************************************)
(* Instances of InstructionWindow for TLC.                                 *)
(***************************************************************************)
EXTENDS InstructionWindow
===============================================================================
