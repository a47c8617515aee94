\* Any interleaving of the calls of three processes, one of which may exit.
CONSTANTS
    a = a
    b = b
    c = c
    hw = hw
    Proc = {a, b, c}
    Task = {hw}
    ANY = ANY
    NONE = NONE
    PrivId <- Ids
    BITCHUNK_BITS = 2
    MaySend <- Pairs
    Traps <- Roles
    MayExit = {a}
    MaxAsyn = 2
SPECIFICATION Spec
INVARIANTS
    TypeOK
    QueuesMatch
    NoSenderMissed
    NoAsynMissed
    NoNotificationMissed
    NoCircle
    NobodyWaitsForDead
    MessageNotOverwritten
PROPERTIES
    AnsweredByCallee
