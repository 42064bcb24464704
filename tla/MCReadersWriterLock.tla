------------------------ MODULE MCReadersWriterLock ------------------------
(***************************************************************************)
(* Programs of four threads for ReadersWriterLock.                         *)
(***************************************************************************)
EXTENDS ReadersWriterLock

CONSTANTS t1, t2, t3, t4

MCThreads == {t1, t2, t3, t4}

Program(reading, writing, upgrading) ==
    LET who == [read |-> reading, write |-> writing, upgrade |-> upgrading]
    IN  [t \in MCThreads |-> {m \in Methods : t \in who[m]}]

\* Everything at once, with two that upgrade; one writer; writers only.
MCPrograms == {Program(MCThreads, {t1, t2, t3}, {t1, t2}),
               Program({t1, t2, t3}, {t1}, {}),
               Program({}, MCThreads, {})}
=============================================================================
