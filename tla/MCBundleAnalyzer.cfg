CONSTANTS
    Binaries <- MCBinaries
    Thresholds = {2, 4, 9}
    Unknown = Unknown
    MaxDepth = 3
SPECIFICATION AnalyzerFairSpec
INVARIANTS
    AnalyzerTypeOK
    ReachableAddsUp
    OnlyMutualRecursionIsFatal
    HeavyCodeIsBundled
PROPERTY AnalysisEnds
\* main returns, or the recursion ends the process.
CHECK_DEADLOCK FALSE
