SPECIFICATION Spec
CONSTANTS
  Pids = {p1, p2, p3}
  NoPid = nopid
  WaitStatus <- SomeEnds
  ChildMax = 1
  SlotsPerGrowth = 2
  MaxForks = 3
  RecyclePids = FALSE
  Signals = FALSE
  SigchldIgnored = {FALSE, TRUE}
CHECK_DEADLOCK FALSE
SYMMETRY PidSymmetry
INVARIANTS TypeOK StatusTrue ResultTrue ForegroundAwaited
PROPERTY ForgetsOnlyBeyondChildMax
