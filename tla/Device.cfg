SPECIFICATION Spec
CONSTANTS
  Part = {"mcu", "motor", "stream", "config", "ports", "requests", "camera", "python"}
  McuUpdates = 5
  Sizes = {2, 3, 5}
  BlockSize = 2
  MaxSize = 4
  MaxRetries = 1
  SeqRange = 4
  McuFaults = 2
  MotorUpdates = 2
  Packs = {2, 3, 4}
  MaxImagePacks = 3
  IndexRange = 3
  MaxAttempts = 2
  StartAttempts = 3
  MaxResumes = 2
  MotorFaults = 2
  Kinds = {"leader", "follower"}
  Rates <- TheRates
  Versions = {1, 2}
  MinVersion = 2
  Travels <- TheTravels
  Specs <- TheSpecs
  Envelopes <- TheEnvelopes
  Rated = 3
  StallCont = 2
  Scale = 2
  Boards = {"b1"}
  Grippers = {"g1", "g2"}
  Scanner = "scan"
  Strangers = {Stranger}
  Root = {}
  Firmware <- TheFirmware
  NoSn = NoSn
  None = None
  Values = {"a", "b"}
  Unset = "unset"
  Blank = "blank"
  Owners = {"main"}
  Pollers = {"gui", "log"}
  MaxStarts = 3
  Pythons = {"main", "gui"}
  Main = "main"
  Careful = TRUE
  MaxFrames = 3
  MaxFaults = 2
INVARIANTS StreamIsAsTold ConfigIsCurrent AnswersAreTrue StopEndsCapture
PROPERTIES Implements UpdatesEnd PortsAreOwned GilIsRespected
CHECK_DEADLOCK FALSE
