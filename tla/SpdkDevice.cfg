CONSTANTS
  w1 = w1  w2 = w2  f = f  rd = rd  p0 = p0  p1 = p1  None = None
  Requests = {w1, w2, f, rd}
  QueuePairs = {p0, p1}
  AdminPoller = p0
  Kind <- AllKinds
  PollerOf <- AllPollers
  Reachable = {w1}
  Lba = 3  MaxTransfer = 7  Top = 11  Capacity = 9
  Buffers = 1  QueueDepth = 1
  Persistent = FALSE
  Loads <- MCLoads
  MaxFaults = 1
SPECIFICATION LiveSpec
INVARIANTS WritesKept Released PlanRight
PROPERTIES Ends
CHECK_DEADLOCK FALSE
