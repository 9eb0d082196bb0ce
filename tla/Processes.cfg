SPECIFICATION FairSpec
CHECK_DEADLOCK FALSE
CONSTANTS
    eth0 = eth0
    eth1 = eth1
    Me = eth0
    Instances <- Interfaces
    Stored <- Others
    Seeds = {1, 2}
    Disturbances = 2
INVARIANTS
    TypeOK
    EndsForAReason
    TrustedFilterIsLocked
PROPERTIES
    IdentifierStable
    StartsAfterRfkill
    CallsReturn
    ChildDeathNoticed
    NoOrphans
