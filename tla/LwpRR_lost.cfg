\* The program of test_lwp.c, with threads that live for different times.
CONSTANTS
    Main = main
    Thread = {main, t1, t2, t3}
    NULL = null
    MainWaits = TRUE
    MayCreate = {}
    MayWait = {}
    MaxYields = 2
    NoSched <- Ring0
    Admit <- AdmitRR
    RemoveFrom <- RemoveRR
    NextOf <- NextRR
    Advance <- AdvanceRR
    Qlen <- QlenRR
    Turns <- TurnsRR
SPECIFICATION Spec
INVARIANTS
    AllExited
