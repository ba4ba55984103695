\* One compute of a tenant that moves once and a timeline that gets other safekeepers;
\* the compute may be deleted and recreated, the JWT Secret too; two faults.
CONSTANTS
    Computes = {c1}
    Tenants = {"a"}
    TenantOf <- OneTenant
    IDOf <- OwnID
    None = None
    Attachments <- Moves
    MaxGen = 1
    MaxEdits = 2
    MaxSecrets = 2
    MaxFaults = 2
SPECIFICATION FairSpec
INVARIANTS
    AttachmentDelivered
PROPERTIES
    NotificationsSettle
CHECK_DEADLOCK FALSE
