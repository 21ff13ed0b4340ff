CONSTANTS
    Files <- MCFilesAtPageEnd
    KeyOrder <- StartFirst
    Unreadable = Unreadable
    AddrSpace = 64
    AddrBases <- MCAddrBases
    Pcs <- MCPcs
    PageSize = 8
    FirstCapacity = 1
    Lines = 4
    CacheLine = 4
SPECIFICATION Spec
INVARIANT EndPageIsAfterTheBundle
