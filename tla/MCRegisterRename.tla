-------------------------- MODULE MCRegisterRename --------------------------
(***************************************************************************)
(* RegisterRename with two logical registers: an instruction writes none,  *)
(* one or both of them (arf_double_t writes a pair) and reads up to two,   *)
(* both before it issues, the second after it has issued (a store, one     *)
(* that is cacheable and one that is not) or both after (cas).             *)
(***************************************************************************)
EXTENDS RegisterRename

MCDestLists == {<<>>, <<1>>, <<1, 2>>}
MCReadKinds == {[sources |-> <<>>, issue |-> 0, data |-> TRUE],
                [sources |-> <<2, 1>>, issue |-> 2, data |-> TRUE],
                [sources |-> <<2, 1>>, issue |-> 1, data |-> FALSE],
                [sources |-> <<1, 2>>, issue |-> 0, data |-> TRUE]}
=============================================================================
