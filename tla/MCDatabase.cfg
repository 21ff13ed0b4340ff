CONSTANTS
    Threads = {t1, t2, t3}
    Keys = {3, 7919}
    DB_SIZE = 2
    INIT_ENTRIES = 2
    INIT_STRIDE = 7919
    Free = Free
    Absent = Absent
    MaxValue = 2
SPECIFICATION FairSpec
INVARIANTS
    TypeOK
    ChainsHoldEveryEntry
    OneEntryPerKey
PROPERTIES
    AtomicStore
    CallReturns
