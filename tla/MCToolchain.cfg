CONSTANTS
    Modules <- MCModules
    Names <- MCNames
    THRESHOLD = 50
    Disassemblies <- MCDisassemblies
    LastFunction = 4096
SPECIFICATION ToolchainSpec
INVARIANTS
    ToolchainTypeOK
    NumbersTileTheModule
    BundlesAgreeWithCallGraph
    AgreesWithRepository
    AddressesHaveOneFunction
    MappedInOrder
    BundlesBecomeRanges
\* Both programs end.
CHECK_DEADLOCK FALSE
