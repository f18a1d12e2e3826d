--------------------------- MODULE MCBulkExecute ---------------------------
(* Instances of BulkExecute for TLC. *)
EXTENDS BulkExecute, TLC

\* The calls are interchangeable: nothing in the code orders them.
CallSymmetry == Permutations(Calls)
=============================================================================
