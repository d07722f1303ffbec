---------------------------- MODULE MCThreadPool ----------------------------
(* Instances of ThreadPool for TLC: the .cfg files give the constants values. The
   threads differ by membership in Outside and the runs check liveness, so none of
   them declares symmetry. *)
EXTENDS ThreadPool
=============================================================================
