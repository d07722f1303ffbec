---------------------------- MODULE MCTaskFrames ----------------------------
(* Instances of TaskFrames for TLC: the .cfg files give the constants values. *)
EXTENDS TaskFrames
=============================================================================
