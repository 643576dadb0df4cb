SPECIFICATION MCSpec
CONSTANTS
    p1 = p1
    p2 = p2
    p3 = p3
    Procs = {p1, p2, p3}
    Affine = {p1}
    Calls <- MCCalls
    Granularity = 4
    MaxByte = 11
    Pollers = {p1, p2}
    Batches <- MCBatches
    PmemLen = 2
    MergeLimit = 3
    MaxOffset = 8
    MaxFaults = 2
    Callers = {p1, p2}
    Workers = {p1, p2}
    MaxCalls = 2
    Parents = {p1}
    Children = {p2, p3}
    Size = 1
INVARIANTS MutualExclusion NoLostWakeup ServicesSafe
PROPERTIES ImplementsRangeLock EveryRequestDecided ServicesEnd
