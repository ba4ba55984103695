------------------------------ MODULE MCWorkload ------------------------------
(* Instances of WorkloadController for TLC. *)
EXTENDS WorkloadController, TLC

\* Specs, and images, are interchangeable.
Symmetry == Permutations(Specs) \union Permutations(Images)

\* One child of each sort: one that is created only, one whose content follows the
\* object's spec, one that cannot be applied; one that needs the credentials, one that
\* needs nothing, one that needs the parent.
ClusterChildren    == <<"JWTSecret", "StorageController", "ControllerService">>
PageserverChildren == <<"ConfigMap", "Service", "StatefulSet">>
SafekeeperChildren == createSafekeeperResources

===============================================================================
