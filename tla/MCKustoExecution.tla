-------------------------- MODULE MCKustoExecution --------------------------
(* Instances of KustoExecution for TLC: see the .cfg files. *)
EXTENDS KustoExecution, TLC

Symmetry == Permutations(Instances)
=============================================================================
