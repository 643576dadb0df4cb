CONSTANTS
    Tasks = {t1, t2}
    Mig = mig
    UnitsPerPage = 2
    PagesPerBlock = 2
    FileBlocks = 2
    PageThreshold = 1
    MaxSegments = 1
    SsdIds = {1, 2, 3}
    PageIds = {1, 2, 3, 4}
    MaxOps = 5
    Scenes <- MCScenes
SPECIFICATION Spec
SYMMETRY Symmetry
INVARIANTS ReadsRight CachesAgree CrashSafe SpaceExact
CHECK_DEADLOCK FALSE
