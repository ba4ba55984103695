\* One Branch, never edited after its creation; no fault.
CONSTANTS
    Tenants = {a}
    IDs = {t1, t2}
    NoID = NoID
    PGVersions = {p1}
    Kinds <- Compute
    Provisioned = TRUE
    MaxEdits = 1
    MaxFaults = 0
SPECIFICATION FairSpec
PROPERTIES
    DeploymentUpdated
CHECK_DEADLOCK FALSE
