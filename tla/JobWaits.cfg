SPECIFICATION FairSpec
CONSTANTS
  Pids = {p1, p2}
  NoPid = nopid
  WaitStatus <- OneEnd
  ChildMax = 1
  SlotsPerGrowth = 2
  MaxForks = 4
  RecyclePids = TRUE
  Signals = TRUE
  SigchldIgnored = {FALSE, TRUE}
CHECK_DEADLOCK FALSE
INVARIANT RunningMeansUnreaped
PROPERTY WaitReturns
