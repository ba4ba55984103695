\* Two edits and one fault; no symmetry, which a temporal property does not allow.
CONSTANTS
    Clusters = {c1, c2}
    IDs = {t1, t2}
    NoID = NoID
    MaxEdits = 2
    MaxFaults = 1
    MaxVersions = 9
SPECIFICATION FairSpec
PROPERTIES
    Settles
CHECK_DEADLOCK FALSE
