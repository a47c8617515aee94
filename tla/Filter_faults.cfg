CONSTANTS
    A = A
    B = B
    a = a
    b = b
    MAIN_LABEL = A
    BACKUP_LABEL = B
    NONE = NONE
    Mirroring = {TRUE, FALSE}
    NR_RETRIES = 2
    NR_RESTARTS = 2
    NR_SUM_SEC = 2
    Value = {a, b}
    Blank = a
    Junk = Junk
    Requests <- Parts
    NrSectors = 6
    Crashing = {A}
    Slow = {A}
    Failing = {B}
    Fragile <- Sectors
    MaxFaults = 2
    MaxRequests = 2
SPECIFICATION Spec
INVARIANTS
    ReadsAreRight
    MirrorsAgree
    Masked
PROPERTIES
    DropsFaulty
    Answered
CHECK_DEADLOCK FALSE
