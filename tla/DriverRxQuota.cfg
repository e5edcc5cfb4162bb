CONSTANTS
  FifoFrames = 2
  Quota = 1
  IrqLoops = 1
  Events = {{}}
  QuietStart = TRUE
SPECIFICATION Spec
INVARIANT QuotaKept
CHECK_DEADLOCK FALSE
