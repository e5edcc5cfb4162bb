CONSTANTS
  Boards = {"platform", "pci"}
  MaxCores = 1
  Fails = {}
  ErrorCores = {1}
  Sleeps = {"platform"}
  MaxUsage = 2
SPECIFICATION Spec
INVARIANT SuspendFindsInterface
CHECK_DEADLOCK FALSE
