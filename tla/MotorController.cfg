SPECIFICATION Spec
CONSTANTS
  Kinds = {"force", "impedance"}
  Timeout = 2
  MaxQueue = 1
  MaxInFlight = 2
  MaxClock = 3
  MaxTargets = 2
  None = None
INVARIANTS FaultStopsMotion FaultsAreCurrent StoppedForGood
PROPERTIES TargetsCurrent
CHECK_DEADLOCK FALSE
