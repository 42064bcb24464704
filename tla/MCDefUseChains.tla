--------------------------- MODULE MCDefUseChains ---------------------------
(***************************************************************************)
(* DefUseChains on small numbers.  Store pcs 1, 2 and 3, of which 3 is out *)
(* of the recorded range; load pcs 2, 3 and 4, where 2 and 4 have the same *)
(* low bits; pcs 2 and 3 both load and store, as an atomic does.           *)
(***************************************************************************)
EXTENDS DefUseChains
=============================================================================
