CONSTANTS
  FifoFrames = 1
  Quota = 1
  IrqLoops = 1
  Events = {{"close", "restart"}}
  QuietStart = TRUE
SPECIFICATION Spec
INVARIANT ClosedIsDisabled
CHECK_DEADLOCK FALSE
