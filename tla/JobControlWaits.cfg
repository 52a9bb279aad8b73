SPECIFICATION Spec
CONSTANTS
  Pids = {1, 2}
  NoPid = 0
  Endings = {"fails"}
  JobSlots = 1
  MaxJobsInArray = 2
  ChildMax = 0
  Modes <- WaitModes
  MaxStops = 1
  MaxQueued = 1
CHECK_DEADLOCK FALSE
PROPERTY WaitReturns
