---------------------------- MODULE MCBTreeMutex ----------------------------
(* Instances of BTreeMutex for TLC. *)
EXTENDS BTreeMutex, TLC

\* Neither threads nor keys are ordered by the code.
TreeSymmetry == Permutations(Threads) \cup Permutations(Keys)
=============================================================================
