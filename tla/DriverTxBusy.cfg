CONSTANTS
  buf_count = 2
  OneShot = {FALSE}
  LostBus = FALSE
SPECIFICATION Spec
INVARIANT NoBusyBug
CHECK_DEADLOCK FALSE
