---------------------------- MODULE MCJoinHandle -----------------------------
(* Instances of JoinHandle for TLC: the .cfg files give the constants values. *)
EXTENDS JoinHandle
=============================================================================
