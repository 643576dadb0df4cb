SPECIFICATION MCSpec
CONSTANTS
    AvlNodes = {1, 2, 3, 4, 5, 6, 7, 8, 9, 10}
    AvlSetups <- MCAvlSetups
    FbScenes <- MCScenes
    MaxParalloc = 2
    MaxFd = 3
    FbRuns <- MCRuns
    SyncLoads <- MCLoads
    Unit = 2
CHECK_DEADLOCK FALSE
INVARIANTS FilesSafe BenchSafe
PROPERTY BenchEnds
