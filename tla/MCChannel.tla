----------------------------- MODULE MCChannel ------------------------------
(***************************************************************************)
(* Channel with few handles and tasks.  Senders other than First are alike *)
(* and so are receivers, so they may be exchanged in the runs that check   *)
(* no liveness.                                                            *)
(***************************************************************************)
EXTENDS Channel, TLC

Symmetry == Permutations(Senders \ {First}) \cup Permutations(Receivers)
=============================================================================
