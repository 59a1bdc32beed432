SPECIFICATION FairSpec
CONSTANTS
  Kinds = {"force", "impedance"}
  Timeout = 1
  MaxQueue = 1
  MaxInFlight = 1
  MaxClock = 2
  MaxTargets = 1
  None = None
PROPERTIES StopReturns FaultReachesMotor StaleInvalidated
CHECK_DEADLOCK FALSE
