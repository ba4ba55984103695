------------------------------- MODULE MCBranch -------------------------------
(* Instances of BranchController for TLC. *)
EXTENDS BranchController, TLC

\* Timeline IDs, and PostgreSQL versions, are interchangeable.
Symmetry == Permutations(IDs) \union Permutations(PGVersions)

\* The two children that are read again, and, where a fault may hit any of them, one
\* of the two Services as well (nothing depends on either, and both go through the
\* same steps).
Compute     == <<"ConfigMap", "Deployment">>
WithService == <<"ConfigMap", "Deployment", "PostgresService">>

===============================================================================
