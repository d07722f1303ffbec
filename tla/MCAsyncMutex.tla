---------------------------- MODULE MCAsyncMutex ----------------------------
(* Instances of AsyncMutex for TLC: the .cfg files give the constants values. *)
EXTENDS AsyncMutex
=============================================================================
