\* Threads create threads; main waits for them all.
CONSTANTS
    Main = main
    Thread = {main, t1, t2, t3, t4}
    NULL = null
    MainWaits = TRUE
    MayCreate = {t1, t2, t3, t4}
    MayWait = {}
    MaxYields = 1
    NoSched <- fifo_init
    Admit <- fifo_admit
    RemoveFrom <- fifo_remove
    NextOf <- NextFifo
    Advance <- fifo_advance
    Qlen <- fifo_qlen
    Turns <- fifo_turns
SPECIFICATION FairSpec
INVARIANTS
    NoThreadLost
    FreedOnce
    AllExited
PROPERTIES
    ReadyRuns
    WaitReturns
