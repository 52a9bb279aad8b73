SPECIFICATION Spec
CONSTANTS
  NSig = 3
  NSpecial = 2
  Shells <- All
  MaxSignals = 3
  MaxTrapCommands = 3
  MaxDepth = 3
CHECK_DEADLOCK FALSE
INVARIANTS TypeOK HandlersAgree SignalKept ExitTrapOnce IgnoredStaysIgnored SpecialNotNested
