SPECIFICATION Spec
CONSTANTS
  Producers = {"reader"}
  Depth <- OneDeep
  Users = {u1}
  Controllers = {}
  Streamed = {"status"}
  MaxFrames = 2
  None = None
PROPERTY NotRunningMeansQuiet
CHECK_DEADLOCK FALSE
