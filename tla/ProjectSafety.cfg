\* Three edits and one fault: enough for an object to be created, deleted and
\* recreated around an in-flight call, and for a call to fail or the process to die.
CONSTANTS
    Clusters = {c1, c2}
    IDs = {t1, t2, t3}
    NoID = NoID
    MaxEdits = 3
    MaxFaults = 1
    MaxVersions = 20
SPECIFICATION Spec
SYMMETRY Symmetry
INVARIANTS
    TypeOK
    QuiescentConverged
    StatusOfThisObject
    NoUnrecordedTenant
PROPERTIES
    ImplementsIdentity
CHECK_DEADLOCK FALSE
