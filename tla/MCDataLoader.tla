---------------------------- MODULE MCDataLoader ----------------------------
(* Instances of DataLoader for TLC. *)
EXTENDS DataLoader, TLC

\* Neither the calls nor the keys are ordered by the code.
LoaderSymmetry == Permutations(Calls) \cup Permutations(Keys)
=============================================================================
