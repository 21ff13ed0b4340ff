CONSTANTS
    Files <- MCFiles
    Names = {"f", "g", "h"}
    Unclosed = Unclosed
    Unreadable = Unreadable
    AddrSpace = 64
    PageSize = 8
    MAX_BUNDLES = 2
    MaxPages = 4
SPECIFICATION Spec
INVARIANTS
    TypeOK
    AdvisesThePagesOfTheFunction
