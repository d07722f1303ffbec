---------------------------- MODULE MCThisThread ----------------------------
(* Instances of ThisThreadExecutor: the .cfg files give the constants values. *)
EXTENDS ThisThreadExecutor
=============================================================================
