\* An odd table: two even philosophers sit next to each other, and the waits
\* of one of the two may fail.
CONSTANTS
    N = 3
    Cycles = 1
    MayInterrupt = {0}
SPECIFICATION FairSpec
INVARIANTS
    ForkExclusion
    EatShownHoldsForks
    SomeoneCanStep
    ShownOnce
PROPERTIES
    Termination
CHECK_DEADLOCK FALSE
