CONSTANTS
    A = A
    B = B
    a = a
    b = b
    MAIN_LABEL = A
    BACKUP_LABEL = B
    NONE = NONE
    Mirroring = {FALSE}
    NR_RETRIES = 2
    NR_RESTARTS = 2
    NR_SUM_SEC = 2
    Value = {a, b}
    Blank = a
    Junk = Junk
    Requests <- Parts
    NrSectors = 6
    Crashing = {A}
    Slow = {}
    Failing = {}
    Fragile = {}
    MaxFaults = 2
    MaxRequests = 2
SPECIFICATION HSpec
PROPERTY
    RestartsAreNew
CHECK_DEADLOCK FALSE
