SPECIFICATION Spec
CONSTANTS
  Shells <- All
  MaxDepth = 3
  MaxLoops = 2
CHECK_DEADLOCK FALSE
INVARIANTS TypeOK JumpTargetsLive FramesOfCalls
PROPERTY ScopesRestored
