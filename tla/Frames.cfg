SPECIFICATION Spec
CONSTANTS
  Part = {"parser", "imu", "grasp", "impedance"}
  MaxCommands = 2
  Ids <- MCIds
  Payloads <- MCPayloads
  MaxFrameLen = 7
  Buffers = {4, 7}
  TraceChunk = 3
  RingSize = 2
  MaxItems = 2
  MaxDamage = 1
  MaxControls = 1
  Width = 16
  SeqWidth = 4
  Margin = 1
  Slack = 1
  Delays = {0, 1}
  Steps <- MCSteps
  Skips = {1, 2}
  MaxSamples = 3
  MaxBoots = 2
  Kp = 1
  Kd = 1
  Speed = 1
  GraspOpen <- MCGraspOpen
  Grasps = {2, 7}
  Preload = 3
  MotionLimit = 7
  TopUp = 1
  Eps = 1
  Progress = 0
  Window = 1
  History = 2
  Patience = 8
  Open = 3
  Directions <- MCDirections
  Specs <- MCSpecs
  Configs <- MCConfigs
  Fallback <- MCFallback
  ConfigKp = 1
  Approach = 1
  Ceiling = 9
  Gains <- MCGains
  Hold = 2
  Release = 1
INVARIANTS FramesDelivered GripIsCurrent OverloadEnds
PROPERTIES TimesAreTrue TorqueIsBounded
CHECK_DEADLOCK FALSE
