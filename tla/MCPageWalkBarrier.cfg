SPECIFICATION PwSpec
CONSTANTS
  PwLevels = 2
  PwStores = 1
  PwSfences = 1
  PwTimeouts = 1
INVARIANT PwBarrierRetained
CHECK_DEADLOCK FALSE
