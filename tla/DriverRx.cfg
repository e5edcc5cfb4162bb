CONSTANTS
  FifoFrames = 1
  Quota = 1
  IrqLoops = 1
  Events = {{"close"}, {"nomem", "shared"}, {"restart"}, {"nomem", "remote"}}
  QuietStart = TRUE
SPECIFICATION FairSpec
INVARIANTS FramesAligned RxArmed
PROPERTY RxServed
CHECK_DEADLOCK FALSE
