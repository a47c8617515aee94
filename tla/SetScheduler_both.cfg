\* From one scheduler to the other and back, at any moment.
CONSTANTS
    Thread = {t1, t2, t3, t4}
    NULL = null
    Arguments = {"rr", "user", "NULL"}
SPECIFICATION ChangeSpec
INVARIANTS
    Linked
PROPERTIES
    OneQueue
