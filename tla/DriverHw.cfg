\* The access layer of the driver, against the core.
SPECIFICATION Spec
CONSTANTS
  Requests <- MCRequests
  BaseIds <- MCBaseIds
  ExtendedIds <- MCExtendedIds
  Counters <- MCCounters
  Trees <- MCTrees
  WordSize = 4
  MaxEvents = 5
INVARIANTS
  RegistersAgree
  FrameRoundTrip
  RangeFilterAccepts
  StartedAsConfigured
  ToolFindsDevice
  BufferAccess
  TimestampWasReal
  ErrorStateWasReal
  TimingReachesCore
  BitrateIsClosest
CHECK_DEADLOCK FALSE
