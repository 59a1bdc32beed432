SPECIFICATION FairSpec
CONSTANTS
  Kinds = {"follower"}
  MaxRetries = 1
  Batch = 2
  LinkCap = 1
  MaxSessions = 2
  MaxExchanges = 2
  MaxTargets = 2
  MaxRecords = 2
PROPERTY TimeoutsHadNoReply
CHECK_DEADLOCK FALSE
