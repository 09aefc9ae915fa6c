---------------------- MODULE MCKustoLntPolicy ----------------------
(* The symmetric constants of the instances TLC checks. *)
EXTENDS KustoLntPolicy, TLC

Symmetry == Permutations(Windows) \cup Permutations(Clusters)
=============================================================================
