SPECIFICATION FairSpec
CONSTANTS
  Producers = {"reader"}
  Depth <- OneDeep
  Users = {u1}
  Controllers = {m1}
  Streamed = {"status"}
  MaxFrames = 2
  None = None
PROPERTIES ControlLaneIndependent UnsubscribeReturns
CHECK_DEADLOCK FALSE
