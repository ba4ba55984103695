\* Three edits: a Branch is created, deleted and recreated around a call.
CONSTANTS
    Tenants = {a}
    IDs = {t1, t2, t3}
    NoID = NoID
    PGVersions = {p1, p2}
    Kinds <- Compute
    Provisioned = TRUE
    MaxEdits = 3
    MaxFaults = 0
SPECIFICATION Spec
SYMMETRY Symmetry
INVARIANTS
    QuiescentConverged
    StatusOfThisObject
PROPERTIES
    ImplementsIdentity
CHECK_DEADLOCK FALSE
