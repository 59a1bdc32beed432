SPECIFICATION Spec
CONSTANTS
  Kinds = {"force"}
  Timeout = 1
  MaxQueue = 1
  MaxInFlight = 1
  MaxClock = 2
  MaxTargets = 1
  None = None
INVARIANTS StopRetires
CHECK_DEADLOCK FALSE
