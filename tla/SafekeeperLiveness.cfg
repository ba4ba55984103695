\* No symmetry, which a temporal property does not allow.
CONSTANTS
    Kind = "Safekeeper"
    Children <- SafekeeperChildren
    Specs = {s1, s2}
    Images = {i1}
    Fixed = Fixed
    Foreign = Foreign
    Provisioned = TRUE
    MaxEdits = 2
    MaxFaults = 0
SPECIFICATION FairSpec
PROPERTIES
    SettlesOrRejected
CHECK_DEADLOCK FALSE
