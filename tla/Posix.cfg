SPECIFICATION Spec
CONSTANTS
  Threads = {"main", "other"}
  Exiting = "main"
  Fds <- MCFds
  MaxSlots = 4
  MaxDeaths = 1
  Loads <- MCLoads
  Outages = {"refused", "missing"}
INVARIANT HandlesSafe
PROPERTY CallsReturn
CHECK_DEADLOCK FALSE
