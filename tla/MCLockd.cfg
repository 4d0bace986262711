SPECIFICATION Spec
CONSTANTS
    Clients <- MCClients
    Offered <- MCOffered
    MaxGeneration = 2
    MaxBacklog = 2
    MaxDamage = 1
    None = None
    Absent = Absent
    Damaged = Damaged
INVARIANTS
    AckedDurable
    ReportedIsDurable
PROPERTIES
    UnlockOnlyOnRequest
    ClientsServed
