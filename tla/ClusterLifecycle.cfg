\* Three edits: a Cluster is created, deleted and recreated around a call.
CONSTANTS
    Kind = "Cluster"
    Children <- ClusterChildren
    Specs = {s1}
    Images = {i1}
    Fixed = Fixed
    Foreign = Foreign
    Provisioned = TRUE
    MaxEdits = 3
    MaxFaults = 0
SPECIFICATION Spec
SYMMETRY Symmetry
INVARIANTS
    TypeOK
    QuiescentConverged
PROPERTIES
    KeyWriteOnce
CHECK_DEADLOCK FALSE
