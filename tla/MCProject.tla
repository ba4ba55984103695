------------------------------ MODULE MCProject ------------------------------
(* Instances of ProjectController for TLC. *)
EXTENDS ProjectController, TLC

\* Clusters and IDs are interchangeable: no definition tells two of them apart.
Symmetry == Permutations(Clusters) \union Permutations(IDs)

=============================================================================
