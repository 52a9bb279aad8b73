SPECIFICATION Spec
CONSTANTS
  Pids = {1, 2}
  NoPid = 0
  Endings = {"fails"}
  JobSlots = 1
  MaxJobsInArray = 2
  ChildMax = 0
  Modes <- UsualModes
  MaxStops = 1
  MaxQueued = 1
CHECK_DEADLOCK FALSE
INVARIANTS TypeOK JobsAgree IndicesTrue StatusKept ResultTrue
PROPERTIES AllAwaited
