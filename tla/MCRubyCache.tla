---------------------------- MODULE MCRubyCache ----------------------------
(***************************************************************************)
(* Instances of RubyCache for TLC.                                         *)
(***************************************************************************)
EXTENDS RubyCache

LoadsAndStores == {"load", "store"}
=============================================================================
