CONSTANTS
    c1 = c1
    c2 = c2
    nobody = nobody
    Nobody = nobody
    Workers = {0, 1}
    Closer = 0
    Coroutines = {c1, c2}
    Setups <- Programs
SPECIFICATION LiveSpec
INVARIANTS NothingStranded Scheduled
PROPERTIES Completes
