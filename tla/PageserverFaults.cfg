\* A parent and credentials that come late, and one fault anywhere.
CONSTANTS
    Kind = "Pageserver"
    Children <- PageserverChildren
    Specs = {s1}
    Images = {i1, i2}
    Fixed = Fixed
    Foreign = Foreign
    Provisioned = FALSE
    MaxEdits = 2
    MaxFaults = 1
SPECIFICATION Spec
SYMMETRY Symmetry
INVARIANTS
    QuiescentConverged
CHECK_DEADLOCK FALSE
