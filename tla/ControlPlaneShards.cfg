\* A tenant is split into two shards; no fault.
CONSTANTS
    Computes = {c1, c2}
    Tenants = {"a"}
    TenantOf <- OneTenant
    IDOf <- OwnID
    None = None
    Attachments <- Splits
    MaxGen = 0
    MaxEdits = 0
    MaxSecrets = 0
    MaxFaults = 0
SPECIFICATION Spec
INVARIANTS
    EveryShardConfigured
CHECK_DEADLOCK FALSE
