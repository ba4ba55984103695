\* Two Branches of one name in two namespaces, each of a Project of its own; no fault.
CONSTANTS
    Computes = {c1, c2}
    Tenants = {"a", "b"}
    TenantOf <- OtherTenant
    IDOf <- SameID
    None = None
    Attachments <- Moves
    MaxGen = 0
    MaxEdits = 0
    MaxSecrets = 0
    MaxFaults = 0
SPECIFICATION Spec
INVARIANTS
    SpecOfThisDeployment
CHECK_DEADLOCK FALSE
