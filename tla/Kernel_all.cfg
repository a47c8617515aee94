CONSTANTS
    d = d
    e = e
    srv = srv
    u = u
    v = v
    hd = hd
    he = he
    line = line
    Proc = {d, e, srv, u, v}
    IDLE = IDLE
    NULL = NULL
    ANY = ANY
    SCHED = srv
    Scheduled = {u}
    Preemptible = {d, srv, u, v}
    Server = {d, e, srv}
    Traced = {v}
    Manager = {d}
    Asks <- Callees
    NR_SCHED_QUEUES = 3
    BootOrder <- Boot
    Priority <- Levels
    UserQueue = {1, 2}
    Quantum = 1
    Metered = {u}
    Bit = {hd, he}
    Hook = {hd, he}
    Line = {line}
    LineOf <- LinesOf
    Id = {1, 2}
    Owner <- Owners
    Reenable = {hd}
    Restless = {he}
SPECIFICATION KSpec
INVARIANTS
    ListsMatch
    RunsInTurn
    LineOpen
    ActiveIsKnown
PROPERTIES
    ImplementsRunQueues
    Rescheduled
    DeviceServed
CHECK_DEADLOCK FALSE
