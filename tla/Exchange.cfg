SPECIFICATION FairSpec
CONSTANTS
  Kinds = {"follower", "leader"}
  MaxRetries = 1
  Batch = 2
  LinkCap = 1
  MaxSessions = 2
  MaxExchanges = 2
  MaxTargets = 2
  MaxRecords = 2
INVARIANTS NewestNotLost NoSilentLoss DeliveredInOrder StoppedStaysStopped
PROPERTIES AnsweredNotResent OwnerReturns
CHECK_DEADLOCK FALSE
