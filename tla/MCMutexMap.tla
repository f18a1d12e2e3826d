------------------------------ MODULE MCMutexMap ----------------------------
(* Instances of MutexMap for TLC; with liveness among the properties, no symmetry. *)
EXTENDS MutexMap, TLC
=============================================================================
