SPECIFICATION Spec
CONSTANTS
  Threads = {"main", "other"}
  Exiting = "main"
  Fds <- MCFds
  MaxSlots = 4
  MaxDeaths = 1
  Loads <- MCLoads
  Outages = {"missing"}
PROPERTY HostOnlyAfterMiss
CHECK_DEADLOCK FALSE
