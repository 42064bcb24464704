--------------------------- MODULE MCControlSets ---------------------------
(***************************************************************************)
(* TLC instances of ControlSets.                                           *)
(***************************************************************************)
EXTENDS ControlSets

\* Two registers: one is set by writes and reset by the functional simulator,
\* the other is set by writes and by traps, so that a copy of the wrong set shows.
\* A trap comes from an instruction that has taken a set; one that has not
\* ("trap") leaves less to undo.
MCOps == {[kind |-> "read",  reg |-> "asi", val |-> 0], [kind |-> "write", reg |-> "asi", val |-> 1],
          [kind |-> "write", reg |-> "tl",  val |-> 1], [kind |-> "functional", reg |-> "asi", val |-> 0],
          [kind |-> "order", reg |-> "asi", val |-> 0], [kind |-> "failed", reg |-> "tl", val |-> 1]}
=============================================================================
