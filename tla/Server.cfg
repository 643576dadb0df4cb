CONSTANTS
    a1 = a1
    a2 = a2
    a3 = a3
    stop = stop
    noItem = noItem
    NoItem = noItem
    Calls = {a1, a2, a3, stop}
    Shutdown = stop
    Setups <- Situations
    Capacity = 2
    MaxHandle = 2
    Asked = {"open", "open_directory_handle", "close", "close_directory", "read", "write", "seek", "set_flags", "read_directory", "path"}
    MaxChunk = 2
    MaxSize = 8
    MaxPos = 9
    MaxFaults = 1
    Clients = {a1, a2}
    Servers = {1, 2}
    Backlog = 1
    w1 = w1
    w2 = w2
    Runners = {r1, r2}
    MigrateNum = 1
    Threshold = 0
SPECIFICATION MCSpec
INVARIANTS SlotsSafe Answers NothingLost OpenWhileUsed OffsetsKept HandshakeSafe LifeSafe
PROPERTIES CallsEnd SessionsEnd LifeEnds
CHECK_DEADLOCK FALSE
