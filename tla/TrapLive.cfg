SPECIFICATION FairSpec
CONSTANTS
  NSig = 3
  NSpecial = 1
  Shells <- Plain
  MaxSignals = 3
  MaxTrapCommands = 2
  MaxDepth = 3
CHECK_DEADLOCK FALSE
PROPERTY PendingTrapsRun
