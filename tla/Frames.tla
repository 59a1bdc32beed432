-------------------------------- MODULE Frames --------------------------------
(***************************************************************************)
(* What is computed from every frame: the parser, the time line of the     *)
(* IMU's samples and the two control laws.  They share no state; a         *)
(* behaviour is one of them and the variables of the others are 0.         *)
(***************************************************************************)
EXTENDS Integers, Sequences

CONSTANTS
  Part,         \* which of the four are run: "parser", "imu", "grasp", "impedance"
  MaxCommands   \* bound on the commands of a law's caller

(* Of the parser, see FrameParser. *)
CONSTANTS
  Ids, Payloads, MaxFrameLen, Buffers, TraceChunk, RingSize, MaxItems, MaxDamage, MaxControls

(* Of the IMU, see Imu. *)
CONSTANTS Width, SeqWidth, Margin, Slack, Delays, Steps, Skips, MaxSamples, MaxBoots

(* Of the grasp, see ForcePositionLaw; GraspOpen is its Open. *)
CONSTANTS
  Kp, Kd, Speed, GraspOpen, Grasps, Preload, MotionLimit, TopUp, Eps, Progress, Window,
  History, Patience

(* Of the impedance law, see ImpedanceLaw. *)
CONSTANTS
  Open, Directions, Specs, Configs, Fallback, ConfigKp, Approach, Ceiling, Gains, Hold, Release

VARIABLES
  part,
  wire, parser, popped, heard, spoilt, budget,
  clock, mcu, sent, reader, track, sample, truth, subs,
  gjaw, policy, refs, out, blocked, gcommands,
  cfg, jaw, law, frame, over, commands

parserVars == <<wire, parser, popped, heard, spoilt, budget>>
imuVars == <<clock, mcu, sent, reader, track, sample, truth, subs>>
graspVars == <<gjaw, policy, refs, out, blocked, gcommands>>
impedanceVars == <<cfg, jaw, law, frame, over, commands>>
vars == <<part, parserVars, imuVars, graspVars, impedanceVars>>

-----------------------------------------------------------------------------
Parser == INSTANCE FrameParser
Imu == INSTANCE Imu WITH out <- sample
Grasp == INSTANCE ForcePositionLaw WITH Open <- GraspOpen, jaw <- gjaw, commands <- gcommands
Impedance == INSTANCE ImpedanceLaw

(* The times of the IMU: a frame is late by less than half of what a legacy time
   goes through before it wraps. *)
ASSUME ImuAssumption ==
  /\ Width \in Nat /\ Width > 1
  /\ SeqWidth \in Nat \ {0}
  /\ Margin \in Nat /\ Slack \in Nat
  /\ Delays \subseteq 0 .. Width \div 2
  /\ Steps \subseteq Nat /\ Skips \subseteq Nat

(* Gains, rates and budgets as the constructors and set_target() take them
   (force_position_controller.cpp:72, :129, :157). *)
ASSUME GraspAssumption ==
  /\ Kp \in Nat \ {0} /\ Kd \in Nat
  /\ Speed \in Nat \ {0} /\ TopUp \in Nat \ {0}
  /\ GraspOpen \in Int
  /\ Grasps \subseteq Nat \ {0}
  /\ \E g \in Grasps : \A h \in Grasps : h <= g
  /\ Preload \in Nat /\ MotionLimit \in Nat /\ Eps \in Nat /\ Progress \in Nat
  /\ Window \in Nat /\ History \in Nat \ {0} /\ Patience \in Nat

(* The unit of the angles is fine enough that one of them is within whatever
   budget is left for the ramp: the code's are real numbers. *)
ASSUME ResolutionAssumption ==
  \A g \in Grasps : Kp + Kd <= 2 * Grasp!More(1, g - Preload) + 1

(* Ratings, configurations and gains are numbers, a rating that is not known 0;
   what is wrong with a configuration the constructor says. *)
ASSUME ImpedanceAssumption ==
  /\ Open \in Nat /\ Directions \subseteq {1, -1}
  /\ Specs \subseteq [rated : Nat, stall : Nat, range : Nat]
  /\ Configs \subseteq [kp : Int, kd : Int, ff : Int, budget : Int, rated : Int, peak : Int]
  /\ Fallback \in [rated : Nat, stall : Nat, range : Nat]
  /\ ConfigKp \in Int /\ Approach \in Nat \ {0} /\ Ceiling \in Int
  /\ Gains \subseteq [kp : Int, kd : Int, ff : Int]
  /\ Hold \in Nat /\ Release \in Int

-----------------------------------------------------------------------------
ParserAbsent ==
  wire = 0 /\ parser = 0 /\ popped = 0 /\ heard = 0 /\ spoilt = 0 /\ budget = 0
ImuAbsent ==
  /\ clock = 0 /\ mcu = 0 /\ sent = 0 /\ reader = 0
  /\ track = 0 /\ sample = 0 /\ truth = 0 /\ subs = 0
GraspAbsent ==
  gjaw = 0 /\ policy = 0 /\ refs = 0 /\ out = 0 /\ blocked = 0 /\ gcommands = 0
ImpedanceAbsent ==
  cfg = 0 /\ jaw = 0 /\ law = 0 /\ frame = 0 /\ over = 0 /\ commands = 0

Init ==
  /\ part \in Part
  /\ IF part = "parser" THEN Parser!Init ELSE ParserAbsent
  /\ IF part = "imu" THEN Imu!Init ELSE ImuAbsent
  /\ IF part = "grasp" THEN Grasp!Init ELSE GraspAbsent
  /\ IF part = "impedance" THEN Impedance!Init ELSE ImpedanceAbsent

Next ==
  \/ /\ part = "parser" /\ Parser!Next
     /\ UNCHANGED <<part, imuVars, graspVars, impedanceVars>>
  \/ /\ part = "imu" /\ Imu!Next
     /\ UNCHANGED <<part, parserVars, graspVars, impedanceVars>>
  \/ /\ part = "grasp" /\ Grasp!Next
     /\ UNCHANGED <<part, parserVars, imuVars, impedanceVars>>
  \/ /\ part = "impedance" /\ Impedance!Next
     /\ UNCHANGED <<part, parserVars, imuVars, graspVars>>

Spec == Init /\ [][Next]_vars

-----------------------------------------------------------------------------
(* The parser delivers every undamaged frame once, in order and exactly, and
   accounts for every byte, whatever stood before a frame and however the
   reads cut it (frame.cpp:302); the records of its trace join up. *)
FramesDelivered ==
  part = "parser" =>
    Parser!FramesDelivered /\ Parser!BytesAccounted /\ Parser!TraceJoins

(* A sample called valid has the time it was taken at: wraps, silences and
   late frames never shift it (imu.cpp:87), and a V2 sample goes on in its boot
   or is marked as a jump (imu.cpp:78-85). *)
TimesAreTrue ==
  /\ [](part = "imu" => Imu!ValidTimesAreTrue)
  /\ [][part = "imu" => Imu!MarksJumps]_vars

(* The torque asked of the motor is within the budget of the grasp whatever the
   jaw does (force_position_controller.cpp:601); a push that a lower budget
   leaves above it is only taken back (:730). *)
TorqueIsBounded ==
  /\ [](part = "grasp" => Grasp!TorqueIsBounded)
  /\ [][part = "grasp" => Grasp!PushesFall]_vars

(* A grip that is latched is of the target asked for (:412), and a jaw blocked
   short of it is gripped and said to be (:649). *)
GripIsCurrent ==
  part = "grasp" => Grasp!LatchIsCurrent /\ Grasp!BlockedIsGripped

(* The motor is not above its rating for longer than the ceiling takes to
   engage (impedance_controller.cpp:209). *)
OverloadEnds == part = "impedance" => Impedance!OverloadEnds

=============================================================================
