CONSTANTS
    Creation <- MCCreation
    Clients = {1, 3}
    Workers = {"w1", "w2"}
    Capacity = 3
    Nothing = Nothing
    Absent = Absent
    Paths <- MCPaths
    PathLength <- MCPathLength
    SearchPaths = {"/api/search"}
    XorOf <- MCXor
    UpdatingIterations = {1002, 1003, 1004, 2006}
    INIT_ENTRIES = 2
    INIT_STRIDE = 7919
    MaxRequests = 2
    Files <- MCFiles
    KeyOrder <- SortedKeys
    Unreadable = Unreadable
    AddrSpace = 64
    PageSize = 8
    FirstCapacity = 1
    Lines = 4
    CacheLine = 4
    Label <- MCLabel
SPECIFICATION PrefetchFairSpec
INVARIANTS
    TypeOK
    ValuesCountUpdates
    RequestsAreAccountedFor
    EveryThreadSeesOneTable
    HintsComeFromALoadedTable
PROPERTY EveryRequestIsAnswered
\* The clients have made their last request of the model, and all is answered.
CHECK_DEADLOCK FALSE
