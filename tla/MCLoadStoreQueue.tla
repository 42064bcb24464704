-------------------------- MODULE MCLoadStoreQueue --------------------------
(***************************************************************************)
(* Small programs for LoadStoreQueue: a line of three words, registers of  *)
(* two, lines that share a bucket.                                         *)
(***************************************************************************)
EXTENDS LoadStoreQueue

Access(kind, line, offset, size) == [kind |-> kind, line |-> line, offset |-> offset, size |-> size]

\* A block wider than a register, stored and loaded as a whole, a swap of its
\* first word, which may bypass from the block and whose data may come late, and an
\* ldstub, which may bypass from another one before that has executed.
MCOps == {Access("store", 0, 0, 3), Access("load", 0, 0, 3), Access("swap", 0, 0, 1), Access("ldstub", 1, 0, 1)}
=============================================================================
