\* A Project and a Cluster that come late, and one fault anywhere; no symmetry, which
\* a temporal property does not allow.
CONSTANTS
    Tenants = {a}
    IDs = {t1, t2}
    NoID = NoID
    PGVersions = {p1}
    Kinds <- WithService
    Provisioned = FALSE
    MaxEdits = 1
    MaxFaults = 1
SPECIFICATION FairSpec
INVARIANTS
    TypeOK
    QuiescentConverged
    ComputeAfterTimeline
PROPERTIES
    SettlesOrWedged
CHECK_DEADLOCK FALSE
