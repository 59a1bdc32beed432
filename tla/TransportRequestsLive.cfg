SPECIFICATION FairSpec
CONSTANTS
  Senders = {s1, s2}
  Cmds = {c1}
  NumSeqs = 1
  MaxRetries = 1
  CallModes = {"SameSeq", "NoAck", "Once"}
  LinkCap = 1
  None = None
PROPERTIES CallsEnd StopReturns
