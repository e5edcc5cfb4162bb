CONSTANTS
  buf_count = 2
  OneShot = {FALSE}
  LostBus = FALSE
SPECIFICATION FairSpec
PROPERTY FramesAreProcessed
CHECK_DEADLOCK FALSE
