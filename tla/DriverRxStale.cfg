CONSTANTS
  FifoFrames = 1
  Quota = 1
  IrqLoops = 1
  Events = {{"close", "nomem"}}
  QuietStart = FALSE
SPECIFICATION Spec
INVARIANT NeverStale
CHECK_DEADLOCK FALSE
