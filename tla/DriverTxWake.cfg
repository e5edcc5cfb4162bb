CONSTANTS
  buf_count = 2
  OneShot = {FALSE}
  LostBus = FALSE
SPECIFICATION FairSpec
PROPERTY QueueIsWoken
CHECK_DEADLOCK FALSE
