SPECIFICATION MCSpec
CONSTANTS
  Producers = {"reader", "exchange"}
  Depth <- OneDeep
  Users = {u1}
  Controllers = {m1}
  Streamed = {"status", "other"}
  MaxFrames = 3
  DataFrames = 2
  None = None
INVARIANTS AtMostOneLate Accounted NoSilentGap GoneMeansQuiet
PROPERTIES NobodyIsStuck
CHECK_DEADLOCK FALSE
