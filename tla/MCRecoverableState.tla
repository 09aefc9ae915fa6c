------------------------- MODULE MCRecoverableState -------------------------
(* Instances of RecoverableState for TLC: see the .cfg files. *)
EXTENDS RecoverableState, TLC

Symmetry == Permutations(Texts) \cup Permutations(Windows)
=============================================================================
