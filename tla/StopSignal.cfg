CONSTANTS
    Writers = {w1}
    Runners = {r1, r2}
    MigrateNum = 1
    Threshold = 0
    MaxFaults = 1
SPECIFICATION Spec
PROPERTIES StopHeeded
CHECK_DEADLOCK FALSE
