SPECIFICATION Spec
CONSTANTS
  Senders = {s1, s2}
  Cmds = {c1}
  NumSeqs = 2
  MaxRetries = 1
  CallModes = {"NewSeq", "SameSeq"}
  LinkCap = 1
  None = None
SYMMETRY Symmetry
INVARIANTS SeqExclusive PendingOwned AnswerIsOwn TurnNotLeaked DeadReaderWakesCallers
