------------------------------- MODULE Device -------------------------------
(***************************************************************************)
(* What a program asks of its devices and how it shares them: the two      *)
(* firmware updates, a gripper's stream and its configuration, the serial  *)
(* ports, the components' requests, the camera and the bindings'           *)
(* callbacks.  They share no state; a behaviour is one of them.  The       *)
(* updates of the others never begin, and the rest of their variables      *)
(* are 0.                                                                  *)
(***************************************************************************)
EXTENDS RequestTable, FiniteSets

CONSTANTS
  Part,         \* which of the eight are run
  \* OtaSession
  McuUpdates, Sizes, BlockSize, MaxSize, MaxRetries, SeqRange, McuFaults,
  \* MotorOta
  MotorUpdates, Packs, MaxImagePacks, IndexRange, MaxAttempts, StartAttempts,
  MaxResumes, MotorFaults,
  \* GripperStream
  Kinds, Rates, Versions, MinVersion,
  \* GripperConfig
  Travels, Specs, Envelopes, Rated, StallCont, Scale,
  \* Ports
  Boards, Grippers, Scanner, Strangers, Root, Firmware, NoSn, None,
  \* Requests
  Values, Unset, Blank,
  \* Camera
  Owners, Pollers, MaxStarts,
  \* GilCallbacks
  Pythons, Main, Careful, MaxFrames,
  MaxFaults     \* bound on the faults of a stream, a configuration, a port, a request

(* A block has at least one unit, and images are measured in units and packs
   (update_from_bytes() takes a size_t). *)
ASSUME SizesAssumption ==
  /\ BlockSize \in Nat \ {0}
  /\ MaxSize \in Nat \ {0}
  /\ Sizes \subseteq Nat
  /\ Packs \subseteq Nat
  /\ McuUpdates \in Nat /\ MotorUpdates \in Nat

(* kMaxImageSize is 8 bytes for every pack index of 16 bits. *)
ASSUME IndexAssumption ==
  IndexRange \in Nat \ {0} /\ MaxImagePacks \in Nat /\ MaxImagePacks <= IndexRange

(* No answer outlives as many requests as there are sequence numbers. *)
ASSUME SeqAssumption == SeqRange \in Nat /\ McuFaults \in Nat /\ SeqRange > McuFaults + 1

(* A rate is a number of Hz; what is bounded is bounded by a number. *)
ASSUME StreamAssumption == Rates \subseteq Nat /\ MaxFaults \in Nat

(* Values are none of the codes that refuse, and not those of an empty record. *)
ASSUME ValuesAssumption ==
  Values \cap {Unset, Blank, "InvalidCmd", "CalNotSet", "SysBusy"} = {}

(* One thread of the program starts and stops the camera. *)
ASSUME OwnerAssumption ==
  /\ Owners # {} /\ \A a, b \in Owners : a = b
  /\ MaxStarts \in Nat

(* The worker is none of the threads of the program, nor is nobody. *)
ASSUME ThreadsAssumption == "worker" # None /\ {"worker", None} \cap Pythons = {}

(* A scan has a handle of its own, a descriptor is a number, and no other program
   is one. *)
ASSUME PortsAssumption ==
  /\ IsFiniteSet(Grippers) /\ Scanner \notin Grippers
  /\ None \notin Nat /\ None \notin Strangers /\ Strangers \cap Nat = {}

(* Calibrations, ratings and records.  Angles are counted in units in which the
   positions of a usable jaw fall on whole angles: the code's are floats. *)
ASSUME ConfigAssumption ==
  /\ {Scale, Rated, StallCont} \subseteq Nat \ {0}
  /\ Travels \subseteq [valid : BOOLEAN, least : Int, most : Int, reverse : BOOLEAN]
  /\ \A t \in Travels : t.valid /\ t.most > t.least => (t.most - t.least) % Scale = 0
  /\ Specs \subseteq [rated : Nat, stall : Nat]
  /\ Envelopes \subseteq
       [valid : BOOLEAN, enforce : BOOLEAN, layout : BOOLEAN, cont : Int, peak : Int]

VARIABLES
  part,
  pc, update, total, offset, req, attempt, told, toMcu, toHost, mcu, cache, running, faults,
  mpc, mupdate, packs, cnt, resumes, waiting, mattempt, mtold, motor, bus, mrunning, mfaults,
  smcu, link, version, streaming, sources, wanted, exchange, doubt, sfaults,
  device, map, encoder, asked, ensured, behind, cfaults,
  port, buses, board, stream, scan, found, pfaults,
  record, flash, knows, call, result, refused, rfaults,
  capturing, grabber, spawned, loop, op, cap_mu,
  gil, interp, binding, stage, worker, stopping, object, subscribed, copied, function,
  frames, aborted

mcuVars ==
  <<pc, update, total, offset, req, attempt, told, toMcu, toHost, mcu, cache, running, faults>>
motorVars ==
  <<mpc, mupdate, packs, cnt, resumes, waiting, mattempt, mtold, motor, bus, mrunning, mfaults>>
streamVars == <<smcu, link, version, streaming, sources, wanted, exchange, doubt, sfaults>>
configVars == <<device, map, encoder, asked, ensured, behind, cfaults>>
portVars == <<port, buses, board, stream, scan, found, pfaults>>
requestVars == <<record, flash, knows, call, result, refused, rfaults>>
cameraVars == <<capturing, grabber, spawned, loop, op, cap_mu>>
gilVars ==
  <<gil, interp, binding, stage, worker, stopping, object, subscribed, copied, function,
    frames, aborted>>
vars == <<part, mcuVars, motorVars, streamVars, configVars, portVars, requestVars,
          cameraVars, gilVars>>

-----------------------------------------------------------------------------
Gripper == INSTANCE OtaSession WITH MaxUpdates <- McuUpdates, MaxFaults <- McuFaults
Motor == INSTANCE MotorOta WITH MaxUpdates <- MotorUpdates, MaxFaults <- MotorFaults

Stream == INSTANCE GripperStream WITH mcu <- smcu, faults <- sfaults

Config == INSTANCE GripperConfig WITH faults <- cfaults

Serial == INSTANCE Ports WITH ErrorForms <- {"nack"}, bus <- buses, faults <- pfaults

Components == INSTANCE Requests WITH ErrorForms <- {"nack", "byte"}, faults <- rfaults

Wrist == INSTANCE Camera WITH running <- capturing, worker <- grabber

Python == INSTANCE GilCallbacks WITH call <- binding

-----------------------------------------------------------------------------
StreamAbsent ==
  /\ smcu = 0 /\ link = 0 /\ version = 0 /\ streaming = 0
  /\ sources = 0 /\ wanted = 0 /\ exchange = 0 /\ doubt = 0 /\ sfaults = 0
ConfigAbsent ==
  /\ device = 0 /\ map = 0 /\ encoder = 0 /\ asked = 0
  /\ ensured = 0 /\ behind = 0 /\ cfaults = 0
PortsAbsent ==
  port = 0 /\ buses = 0 /\ board = 0 /\ stream = 0 /\ scan = 0 /\ found = 0 /\ pfaults = 0
RequestsAbsent ==
  /\ record = 0 /\ flash = 0 /\ knows = 0 /\ call = 0
  /\ result = 0 /\ refused = 0 /\ rfaults = 0
CameraAbsent ==
  capturing = 0 /\ grabber = 0 /\ spawned = 0 /\ loop = 0 /\ op = 0 /\ cap_mu = 0
PythonAbsent ==
  /\ gil = 0 /\ interp = 0 /\ binding = 0 /\ stage = 0 /\ worker = 0 /\ stopping = 0
  /\ object = 0 /\ subscribed = 0 /\ copied = 0 /\ function = 0 /\ frames = 0 /\ aborted = 0

Init ==
  /\ part \in Part
  /\ Gripper!Init
  /\ Motor!Init
  /\ IF part = "stream" THEN Stream!Init ELSE StreamAbsent
  /\ IF part = "config" THEN Config!Init ELSE ConfigAbsent
  /\ IF part = "ports" THEN Serial!Init ELSE PortsAbsent
  /\ IF part = "requests" THEN Components!Init ELSE RequestsAbsent
  /\ IF part = "camera" THEN Wrist!Init ELSE CameraAbsent
  /\ IF part = "python" THEN Python!Init ELSE PythonAbsent

OfMcu(action) ==
  /\ part = "mcu" /\ action
  /\ UNCHANGED <<part, motorVars, streamVars, configVars, portVars, requestVars, cameraVars, gilVars>>
OfMotor(action) ==
  /\ part = "motor" /\ action
  /\ UNCHANGED <<part, mcuVars, streamVars, configVars, portVars, requestVars, cameraVars, gilVars>>

Next ==
  \/ OfMcu(Gripper!Next)
  \/ OfMotor(Motor!Next)
  \/ /\ part = "stream" /\ Stream!Next
     /\ UNCHANGED <<part, mcuVars, motorVars, configVars, portVars, requestVars, cameraVars, gilVars>>
  \/ /\ part = "config" /\ Config!Next
     /\ UNCHANGED <<part, mcuVars, motorVars, streamVars, portVars, requestVars, cameraVars, gilVars>>
  \/ /\ part = "ports" /\ Serial!Next
     /\ UNCHANGED <<part, mcuVars, motorVars, streamVars, configVars, requestVars, cameraVars, gilVars>>
  \/ /\ part = "requests" /\ Components!Next
     /\ UNCHANGED <<part, mcuVars, motorVars, streamVars, configVars, portVars, cameraVars, gilVars>>
  \/ /\ part = "camera" /\ Wrist!Next
     /\ UNCHANGED <<part, mcuVars, motorVars, streamVars, configVars, portVars, requestVars, gilVars>>
  \/ /\ part = "python" /\ Python!Next
     /\ UNCHANGED <<part, mcuVars, motorVars, streamVars, configVars, portVars, requestVars, cameraVars>>

Fairness ==
  /\ WF_vars(OfMcu(Gripper!HostNext))
  /\ WF_vars(OfMcu(Gripper!McuNext))
  /\ WF_vars(OfMotor(Motor!HostNext))

Spec == Init /\ [][Next]_vars /\ Fairness

-----------------------------------------------------------------------------
(* Both update sessions implement AtomicUpdate: a device runs a whole image
   that was offered, and success is reported only of the image that runs
   (ota.cpp:181, motor_ota.cpp:194). *)
Implements == Gripper!Implements /\ Motor!Implements

(* Lost and late answers never put the MCU's session in error, no sequence
   number is drawn again while something still bears it, and after any failed
   update a later one succeeds (ota.cpp:58, :181); an update of the motor
   returns, whatever the motor answers (motor_ota.cpp:194), and the motor holds
   in every place the pack that was sent for it (:212). *)
UpdatesEnd ==
  /\ [](Gripper!RetriesAreNotBlocks /\ Motor!PacksInPlace)
  /\ [][part = "mcu" => Gripper!NumbersAreFresh]_vars
  /\ part = "mcu" => Gripper!UpdateSucceeds
  /\ Motor!UpdateEnds

(* The MCU streams what the gripper was asked for, unless a command about the
   stream is in doubt (follower_gripper.cpp:403). *)
StreamIsAsTold == part = "stream" => Stream!StreamIsAsTold

(* The position map in use is the device's (gripper_position.hpp), and
   ensure_envelope() leaves nothing to repair (follower_gripper.cpp:634). *)
ConfigIsCurrent == part = "config" => Config!MapIsCurrent /\ Config!EnsureSettles

(* A scan or another handle never stops a gripper's stream, opens its port or
   takes its exclusive mode back (serial_bus.cpp:85).  A board that a scan notes as
   in use is open to somebody, and one with a gripper ready on it is not noted as
   free (discovery.cpp:78). *)
PortsAreOwned ==
  /\ [](part = "ports" => Serial!StreamSurvivesScans /\ Serial!OwnedIsExclusive)
  /\ [][part = "ports" => Serial!NotesInUse]_vars

(* A verified write that returns is in the flash, the reference calibration is
   used only where there is no other, and a call that can tell a refusal does
   (device.cpp:54, calibration.cpp:38, transport.hpp:92). *)
AnswersAreTrue ==
  part = "requests" =>
    /\ Components!VerifiedIsStored
    /\ Components!FallbackIsNeeded
    /\ Components!RefusalsAreTold

(* Once the camera's stop() has returned no capture thread calls back any more
   (camera.cpp:117). *)
StopEndsCapture == part = "camera" => Wrist!StopEndsCapture

(* A program that closes its objects before it drops them never joins a worker
   with the interpreter's lock in its hand, never has one end the interpreter,
   and frees its callbacks under the lock (gil_safe.hpp:64, :82). *)
GilIsRespected ==
  /\ [](part = "python" => Python!JoinsWithoutTheLock /\ Python!NeverAborted)
  /\ [][part = "python" => Python!FreesUnderTheLock]_vars

=============================================================================
