----------------------------- MODULE MCCacheAside ---------------------------
(* Instances of CacheAside for TLC; with liveness among the properties, no symmetry. *)
EXTENDS CacheAside, TLC
=============================================================================
