CONSTANTS
  buf_count = 2
  OneShot = {FALSE, TRUE}
  LostBus = TRUE
SPECIFICATION FairSpec
PROPERTIES
  FramesAreProcessedUnderTraffic
  StoppedQueueIsWoken
CHECK_DEADLOCK FALSE
