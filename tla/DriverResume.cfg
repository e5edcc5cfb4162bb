CONSTANTS
  Boards = {"platform"}
  MaxCores = 1
  Fails = {}
  ErrorCores = {1}
  Sleeps = {"platform"}
  MaxUsage = 2
SPECIFICATION Spec
INVARIANT ResumedFollowsCore
CHECK_DEADLOCK FALSE
