CONSTANTS
  Boards = {"platform", "pci"}
  MaxCores = 2
  Fails = {"enabled", "regions", "msi", "bar1", "bar0", "bdata", "ioremap", "alloc", "clk", "signature", "register", "irq", "candev", "reset", "pm"}
  ErrorCores = {1}
  Sleeps = {"platform"}
  MaxUsage = 2
SPECIFICATION Spec
INVARIANTS UnboundHoldsNothing UsageIsBalanced HandlerFindsDevice StateFollowsCore
CHECK_DEADLOCK FALSE
