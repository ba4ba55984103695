\* Two computes of one tenant; one of them is created or deleted, the tenant moves once,
\* its safekeepers change twice, and one fault hits any step.
CONSTANTS
    Computes = {c1, c2}
    Tenants = {"a"}
    TenantOf <- OneTenant
    IDOf <- OwnID
    None = None
    Attachments <- Moves
    MaxGen = 2
    MaxEdits = 1
    MaxSecrets = 0
    MaxFaults = 1
SPECIFICATION Spec
SYMMETRY Symmetry
INVARIANTS
    TypeOK
    AttachmentDelivered
    SafekeepersCurrentOrDefault
CHECK_DEADLOCK FALSE
