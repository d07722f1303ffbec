--------------------------- MODULE MCCombinators ----------------------------
(***************************************************************************)
(* Combinators with a few tasks.                                           *)
(***************************************************************************)
EXTENDS Combinators
=============================================================================
