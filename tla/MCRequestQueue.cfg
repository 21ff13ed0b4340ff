CONSTANTS
    Generators = {g1, g2}
    Workers = {w1, w2}
    REQ_QUEUE_SIZE = 3
    NoRequest = NoRequest
    Free = Free
SPECIFICATION FairSpec
INVARIANTS
    TypeOK
    NoUnderrun
    NoIdleWorkerWhileWorkQueued
    ServedRequestIsReal
PROPERTIES
    FifoSpec
    HeadIsTaken
