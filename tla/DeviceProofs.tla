---------------------------- MODULE DeviceProofs ----------------------------
(***************************************************************************)
(* What the parts of Device promise, for every value of the constants.     *)
(* Each part has an invariant of its own that its steps keep; a step of    *)
(* another part, which a behaviour does not have, leaves its variables.    *)
(***************************************************************************)
EXTENDS Device, FiniteSetTheorems, TLAPS

-----------------------------------------------------------------------------
(* The firmware updates (OtaSession, MotorOta). *)

GripperProofs == INSTANCE OtaSessionProofs WITH
  MaxUpdates <- McuUpdates, MaxFaults <- McuFaults
MotorProofs == INSTANCE MotorOtaProofs WITH
  MaxUpdates <- MotorUpdates, MaxFaults <- MotorFaults

(* OtaSessionProofs speaks of the same session. *)
LEMMA SameSession ==
  /\ Gripper!Next <=> GripperProofs!Next
  /\ Gripper!NumbersAreFresh <=> GripperProofs!NumbersAreFresh
  /\ Gripper!Init <=> GripperProofs!Init
  <1>1. Gripper!Next <=> GripperProofs!Next
    BY DEF
      Gripper!hostVars, Gripper!mcuVars, Gripper!NoArg, Gripper!NoRequest, Gripper!NoAnswer,
      Gripper!NoSession, Gripper!Image, Gripper!EncodeBlock, Gripper!AckErrorCode,
      Gripper!InFlight, Gripper!SendCmd, Gripper!Fault, Gripper!TimedOut, Gripper!RepeatedRequest,
      Gripper!Retry, Gripper!LoseRequest, Gripper!LoseAnswer, Gripper!StrayAnswer,
      Gripper!BeginUpdate, Gripper!RefuseSize, Gripper!Start, Gripper!Answered, Gripper!Succeeded,
      Gripper!WriteNext, Gripper!Apply, Gripper!Finish, Gripper!AfterFailure, Gripper!Failed,
      Gripper!StepRefused, Gripper!StepTimedOut, Gripper!AbortReturns, Gripper!CallbackThrows,
      Gripper!Broken, Gripper!Reply, Gripper!Accept, Gripper!Refuse, Gripper!Break,
      Gripper!HandlesStart, Gripper!HandlesWrite, Gripper!HandlesVerify, Gripper!HandlesApply,
      Gripper!HandlesAbort, Gripper!Listening, Gripper!McuHandles, Gripper!McuReplays,
      Gripper!McuFails, Gripper!McuReboots, Gripper!McuLosesPower, Gripper!HostNext,
      Gripper!McuNext, Gripper!Next,
      GripperProofs!hostVars, GripperProofs!mcuVars, GripperProofs!NoArg, GripperProofs!NoRequest,
      GripperProofs!NoAnswer, GripperProofs!NoSession, GripperProofs!Image,
      GripperProofs!EncodeBlock, GripperProofs!AckErrorCode, GripperProofs!InFlight,
      GripperProofs!SendCmd, GripperProofs!Fault, GripperProofs!TimedOut,
      GripperProofs!RepeatedRequest, GripperProofs!Retry, GripperProofs!LoseRequest,
      GripperProofs!LoseAnswer, GripperProofs!StrayAnswer, GripperProofs!BeginUpdate,
      GripperProofs!RefuseSize, GripperProofs!Start, GripperProofs!Answered,
      GripperProofs!Succeeded, GripperProofs!WriteNext, GripperProofs!Apply, GripperProofs!Finish,
      GripperProofs!AfterFailure, GripperProofs!Failed, GripperProofs!StepRefused,
      GripperProofs!StepTimedOut, GripperProofs!AbortReturns, GripperProofs!CallbackThrows,
      GripperProofs!Broken, GripperProofs!Reply, GripperProofs!Accept, GripperProofs!Refuse,
      GripperProofs!Break, GripperProofs!HandlesStart, GripperProofs!HandlesWrite,
      GripperProofs!HandlesVerify, GripperProofs!HandlesApply, GripperProofs!HandlesAbort,
      GripperProofs!Listening, GripperProofs!McuHandles, GripperProofs!McuReplays,
      GripperProofs!McuFails, GripperProofs!McuReboots, GripperProofs!McuLosesPower,
      GripperProofs!HostNext, GripperProofs!McuNext, GripperProofs!Next
  <1>2. Gripper!NumbersAreFresh <=> GripperProofs!NumbersAreFresh
    BY DEF Gripper!NumbersAreFresh, GripperProofs!NumbersAreFresh, Gripper!NoRequest,
           GripperProofs!NoRequest, Gripper!NoArg, GripperProofs!NoArg
  <1>3. Gripper!Init <=> GripperProofs!Init
    BY DEF Gripper!Init, GripperProofs!Init, Gripper!NoRequest, GripperProofs!NoRequest,
           Gripper!NoAnswer, GripperProofs!NoAnswer, Gripper!NoSession, GripperProofs!NoSession,
           Gripper!NoArg, GripperProofs!NoArg
  <1> QED
    BY <1>1, <1>2, <1>3

(* MotorOtaProofs speaks of the same update. *)
LEMMA SameUpdate ==
  /\ Motor!Next <=> MotorProofs!Next
  /\ Motor!Init <=> MotorProofs!Init
  <1>1. Motor!Next <=> MotorProofs!Next
    BY DEF
      Motor!hostVars, Motor!Frames, Motor!Slots, Motor!ErasedSlot, Motor!TypeOf, Motor!DataMaskAdmits,
      Motor!Admits, Motor!Attempts, Motor!PackIndex, Motor!Reply, Motor!Ack, Motor!Fault,
      Motor!Answer, Motor!Ask, Motor!Store, Motor!HearsUid, Motor!HearsStart,
      Motor!ApplicationIsSilent, Motor!HearsInfo, Motor!Expected, Motor!HearsData, Motor!HearsEnd,
      Motor!MotorHears, Motor!StartedImage, Motor!RunningAfter, Motor!Await, Motor!Return,
      Motor!Transmit, Motor!TxFailed, Motor!Matching, Motor!NoReply, Motor!Garble, Motor!Received,
      Motor!Answers, Motor!BeginUpdate, Motor!SizeFits, Motor!Refuse, Motor!ReadUid,
      Motor!Handshake, Motor!HandshakeRefused, Motor!PackTaken, Motor!MayRewind,
      Motor!CountResume, Motor!Rewind, Motor!Unusable, Motor!Finish, Motor!CallbackThrows,
      Motor!HostNext, Motor!Next,
      MotorProofs!hostVars, MotorProofs!Frames, MotorProofs!Slots, MotorProofs!ErasedSlot,
      MotorProofs!TypeOf, MotorProofs!DataMaskAdmits, MotorProofs!Admits, MotorProofs!Attempts,
      MotorProofs!PackIndex, MotorProofs!Reply, MotorProofs!Ack, MotorProofs!Fault,
      MotorProofs!Answer, MotorProofs!Ask, MotorProofs!Store, MotorProofs!HearsUid,
      MotorProofs!HearsStart, MotorProofs!ApplicationIsSilent, MotorProofs!HearsInfo,
      MotorProofs!Expected, MotorProofs!HearsData, MotorProofs!HearsEnd, MotorProofs!MotorHears,
      MotorProofs!StartedImage, MotorProofs!RunningAfter, MotorProofs!Await, MotorProofs!Return,
      MotorProofs!Transmit, MotorProofs!TxFailed, MotorProofs!Matching, MotorProofs!NoReply,
      MotorProofs!Garble, MotorProofs!Received, MotorProofs!Answers, MotorProofs!BeginUpdate,
      MotorProofs!SizeFits, MotorProofs!Refuse, MotorProofs!ReadUid, MotorProofs!Handshake,
      MotorProofs!HandshakeRefused, MotorProofs!PackTaken, MotorProofs!MayRewind,
      MotorProofs!CountResume, MotorProofs!Rewind, MotorProofs!Unusable, MotorProofs!Finish,
      MotorProofs!CallbackThrows,
      MotorProofs!HostNext, MotorProofs!Next
  <1>2. Motor!Init <=> MotorProofs!Init
    BY DEF Motor!Init, MotorProofs!Init, Motor!Slots, MotorProofs!Slots, Motor!ErasedSlot, MotorProofs!ErasedSlot
  <1> QED
    BY <1>1, <1>2

(* Their callers see the same. *)
LEMMA SameCallers ==
  /\ Gripper!Caller!Init <=> GripperProofs!Caller!Init
  /\ Gripper!Caller!Next <=> GripperProofs!Caller!Next
  /\ Gripper!Caller!vars = GripperProofs!Caller!vars
  /\ Motor!Caller!Init <=> MotorProofs!Caller!Init
  /\ Motor!Caller!Next <=> MotorProofs!Caller!Next
  /\ Motor!Caller!vars = MotorProofs!Caller!vars
  BY DEF
    Gripper!Caller!Init, Gripper!Caller!vars, Gripper!Caller!Next, Gripper!Caller!Offer,
    Gripper!Caller!Activate, Gripper!Caller!Erase, Gripper!Caller!Succeed, Gripper!Caller!Fail,
    GripperProofs!Caller!Init, GripperProofs!Caller!vars, GripperProofs!Caller!Next,
    GripperProofs!Caller!Offer, GripperProofs!Caller!Activate, GripperProofs!Caller!Erase,
    GripperProofs!Caller!Succeed, GripperProofs!Caller!Fail, Motor!Caller!Init, Motor!Caller!vars,
    Motor!Caller!Next, Motor!Caller!Offer, Motor!Caller!Activate, Motor!Caller!Erase,
    Motor!Caller!Succeed, Motor!Caller!Fail, MotorProofs!Caller!Init, MotorProofs!Caller!vars,
    MotorProofs!Caller!Next, MotorProofs!Caller!Offer, MotorProofs!Caller!Activate,
    MotorProofs!Caller!Erase, MotorProofs!Caller!Succeed, MotorProofs!Caller!Fail

(* Both updates are consistent at first. *)
LEMMA UpdatesInit ==
  ASSUME Init
  PROVE  /\ GripperProofs!SessionConsistent /\ GripperProofs!Aging /\ Gripper!Caller!Init
         /\ MotorProofs!UpdateConsistent /\ Motor!Caller!Init
  <1>1. GripperProofs!Parameters /\ GripperProofs!FewFaults
    BY SizesAssumption, SeqAssumption DEF GripperProofs!Parameters, GripperProofs!FewFaults
  <1>2. MotorProofs!Parameters
    BY SizesAssumption, IndexAssumption DEF MotorProofs!Parameters
  <1>3. GripperProofs!Init /\ MotorProofs!Init
    BY SameSession, SameUpdate DEF Init
  <1> QED
    BY <1>1, <1>2, <1>3, SameCallers, GripperProofs!InitConsistent, GripperProofs!InitAging,
       GripperProofs!InitRefines, MotorProofs!InitConsistent, MotorProofs!InitRefines

(* A step of Device is one of the MCU's session, or none for it. *)
LEMMA GripperGoesOn ==
  ASSUME [Next]_vars
  PROVE  [GripperProofs!Next]_(GripperProofs!vars)
  <1>1. CASE UNCHANGED mcuVars
    BY <1>1 DEF mcuVars, GripperProofs!vars, GripperProofs!hostVars, GripperProofs!mcuVars
  <1>2. CASE part = "mcu" /\ Gripper!Next
    BY <1>2, SameSession
  <1> QED
    BY <1>1, <1>2 DEF Next, OfMcu, OfMotor, vars

(* Or one of the motor's update, or none for it. *)
LEMMA MotorGoesOn ==
  ASSUME [Next]_vars
  PROVE  [MotorProofs!Next]_(MotorProofs!vars)
  <1>1. CASE UNCHANGED motorVars
    BY <1>1 DEF motorVars, MotorProofs!vars, MotorProofs!hostVars
  <1>2. CASE part = "motor" /\ Motor!Next
    BY <1>2, SameUpdate
  <1> QED
    BY <1>1, <1>2 DEF Next, OfMcu, OfMotor, vars

(* Every step of Device keeps them consistent and is one of AtomicUpdate. *)
LEMMA UpdatesStep ==
  ASSUME GripperProofs!SessionConsistent, GripperProofs!Aging, MotorProofs!UpdateConsistent,
         [Next]_vars, [part = "motor" => MotorProofs!BusIsClear]_vars
  PROVE  /\ GripperProofs!SessionConsistent' /\ GripperProofs!Aging'
         /\ [Gripper!Caller!Next]_(Gripper!Caller!vars)
         /\ MotorProofs!UpdateConsistent' /\ [Motor!Caller!Next]_(Motor!Caller!vars)
  <1>1. GripperProofs!Parameters /\ GripperProofs!FewFaults
    BY SizesAssumption, SeqAssumption DEF GripperProofs!Parameters, GripperProofs!FewFaults
  <1>2. MotorProofs!Parameters
    BY SizesAssumption, IndexAssumption DEF MotorProofs!Parameters
  <1>3. [GripperProofs!Next]_(GripperProofs!vars)
    BY GripperGoesOn
  <1>4. [MotorProofs!Next]_(MotorProofs!vars) /\ [MotorProofs!BusIsClear]_(MotorProofs!vars)
    <2>1. CASE UNCHANGED motorVars
      BY <2>1 DEF motorVars, MotorProofs!vars, MotorProofs!hostVars
    <2>2. CASE part = "motor" /\ Motor!Next
      <3>1. vars' = vars => MotorProofs!vars' = MotorProofs!vars
        BY DEF vars, motorVars, MotorProofs!vars, MotorProofs!hostVars
      <3> QED
        BY <2>2, <3>1, SameUpdate
    <2> QED
      BY <2>1, <2>2 DEF Next, OfMcu, OfMotor, vars
  <1>5. /\ GripperProofs!SessionConsistent' /\ GripperProofs!Aging'
        /\ [GripperProofs!Caller!Next]_(GripperProofs!Caller!vars)
    BY <1>1, <1>3, GripperProofs!NextAging, GripperProofs!NextConsistent, GripperProofs!StepRefines
  <1>6. MotorProofs!UpdateConsistent' /\ [MotorProofs!Caller!Next]_(MotorProofs!Caller!vars)
    BY <1>2, <1>4, MotorProofs!NextConsistent, MotorProofs!StepRefines
  <1>7. Gripper!Caller!vars = GripperProofs!Caller!vars /\ Gripper!Caller!vars' = GripperProofs!Caller!vars'
        /\ Motor!Caller!vars = MotorProofs!Caller!vars /\ Motor!Caller!vars' = MotorProofs!Caller!vars'
    BY DEF Gripper!Caller!vars, GripperProofs!Caller!vars, Motor!Caller!vars, MotorProofs!Caller!vars
  <1> QED
    BY <1>5, <1>6, <1>7, SameCallers

(* send_cmd() draws no sequence number while something bears it that an update of
   the MCU left behind, as long as fewer faults happen than SeqRange - 1
   (transport.cpp:135): what UpdatesEnd says of the numbers. *)
THEOREM UpdatesDrawFresh == Spec => [][part = "mcu" => Gripper!NumbersAreFresh]_vars
  <1> DEFINE Consistent == GripperProofs!SessionConsistent /\ GripperProofs!Aging
             Fresh == part = "mcu" => Gripper!NumbersAreFresh
  <1>1. Init => Consistent
    BY UpdatesInit
  <1>2. Consistent /\ [Next]_vars => Consistent' /\ [Fresh]_vars
    <2> SUFFICES ASSUME Consistent, [Next]_vars PROVE Consistent' /\ [Fresh]_vars
      OBVIOUS
    <2>1. GripperProofs!Parameters /\ GripperProofs!FewFaults
      BY SizesAssumption, SeqAssumption DEF GripperProofs!Parameters, GripperProofs!FewFaults
    <2>2. [GripperProofs!Next]_(GripperProofs!vars)
      BY GripperGoesOn
    <2>3. GripperProofs!Aging' /\ [GripperProofs!NumbersAreFresh]_(GripperProofs!vars)
      BY <2>1, <2>2, GripperProofs!NextAging
    <2>4. GripperProofs!SessionConsistent'
      BY <2>1, <2>2, <2>3, GripperProofs!NextConsistent
    <2>5. Fresh
      <3>1. CASE GripperProofs!NumbersAreFresh
        BY <3>1, SameSession
      <3>2. CASE GripperProofs!vars' = GripperProofs!vars
        BY <3>2, SameSession DEF GripperProofs!NumbersAreFresh, GripperProofs!vars,
                                 GripperProofs!hostVars
      <3> QED
        BY <2>3, <3>1, <3>2
    <2> QED
      BY <2>3, <2>4, <2>5
  <1> QED
    BY <1>1, <1>2, PTL DEF Spec

(* Both update sessions implement AtomicUpdate, for images of any size and any
   number of retries and resumes, while no OtaStart of an earlier update of the
   motor is still being answered (ota.cpp:181, motor_ota.cpp:194). *)
THEOREM UpdatesImplement ==
  Spec /\ [][part = "motor" => MotorProofs!BusIsClear]_vars => Implements
  <1> DEFINE Consistent == /\ GripperProofs!SessionConsistent /\ GripperProofs!Aging
                           /\ MotorProofs!UpdateConsistent
             Clear == part = "motor" => MotorProofs!BusIsClear
  <1>1. Init => Consistent /\ Gripper!Caller!Init /\ Motor!Caller!Init
    BY UpdatesInit
  <1>2. Consistent /\ [Next]_vars /\ [Clear]_vars
          => /\ Consistent' /\ [Gripper!Caller!Next]_(Gripper!Caller!vars)
             /\ [Motor!Caller!Next]_(Motor!Caller!vars)
    BY UpdatesStep
  <1> QED
    BY <1>1, <1>2, PTL DEF Spec, Implements, Gripper!Implements, Motor!Implements,
                           Gripper!Caller!Spec, Motor!Caller!Spec

(* The invariants of UpdatesEnd are the sessions' own. *)
LEMMA SameInvariants ==
  /\ Gripper!RetriesAreNotBlocks <=> GripperProofs!RetriesAreNotBlocks
  /\ Motor!PacksInPlace <=> MotorProofs!PacksInPlace
  BY DEF Gripper!RetriesAreNotBlocks, GripperProofs!RetriesAreNotBlocks,
         Motor!PacksInPlace, MotorProofs!PacksInPlace

(* No command of an update of the MCU that is late or sent again is taken for a new
   one (ota.cpp:58), and each pack that the motor has taken is in its place
   (motor_ota.cpp:212), over any number of updates, retries and resumes: the
   invariants of UpdatesEnd. *)
THEOREM UpdatesStayInStep == Spec => [](Gripper!RetriesAreNotBlocks /\ Motor!PacksInPlace)
  <1> DEFINE Consistent == /\ GripperProofs!SessionConsistent /\ GripperProofs!Aging
                           /\ GripperProofs!InStep /\ MotorProofs!Placed
  <1>0. /\ GripperProofs!Parameters /\ GripperProofs!FewFaults
        /\ MotorProofs!Parameters
    BY SizesAssumption, SeqAssumption, IndexAssumption
    DEF GripperProofs!Parameters, GripperProofs!FewFaults, MotorProofs!Parameters
  <1>1. Init => Consistent
    <2>1. Init => GripperProofs!InStep
      BY SameSession, GripperProofs!InitInStep DEF Init
    <2>2. Init => MotorProofs!Placed
      BY <1>0, SameUpdate, MotorProofs!InitPlaced DEF Init
    <2> QED
      BY <2>1, <2>2, UpdatesInit
  <1>2. Consistent /\ [Next]_vars => Consistent'
    <2> SUFFICES ASSUME Consistent, [Next]_vars PROVE Consistent'
      OBVIOUS
    <2>1. [GripperProofs!Next]_(GripperProofs!vars) /\ [MotorProofs!Next]_(MotorProofs!vars)
      BY GripperGoesOn, MotorGoesOn
    <2>2. GripperProofs!Aging' /\ [GripperProofs!NumbersAreFresh]_(GripperProofs!vars)
      BY <1>0, <2>1, GripperProofs!NextAging
    <2>3. GripperProofs!SessionConsistent'
      BY <1>0, <2>1, <2>2, GripperProofs!NextConsistent
    <2>4. GripperProofs!InStep'
      BY <1>0, <2>1, <2>2, GripperProofs!NextInStep
    <2>5. MotorProofs!Placed'
      BY <1>0, <2>1, MotorProofs!NextPlaced
    <2> QED
      BY <2>2, <2>3, <2>4, <2>5
  <1>3. Consistent => Gripper!RetriesAreNotBlocks /\ Motor!PacksInPlace
    BY SameInvariants DEF GripperProofs!InStep, GripperProofs!InOrder,
       GripperProofs!RetriesAreNotBlocks, MotorProofs!Placed, MotorProofs!InPlace,
       MotorProofs!PacksInPlace
  <1> QED
    BY <1>1, <1>2, <1>3, PTL DEF Spec

-----------------------------------------------------------------------------
(* The stream (GripperStream). *)

(* With a closed link nothing streams. *)
StreamTypes ==
  /\ smcu \in [kind : Kinds, version : Versions, mode : {"idle", "separate", "polled"},
               emits : [Stream!Sources -> Nat]]
  /\ streaming \in BOOLEAN /\ doubt \in BOOLEAN
  /\ link = "closed" => ~streaming

StreamFollows == StreamTypes /\ Stream!StreamIsAsTold

(* A rate that is asked for is never rounded down to none. *)
LEMMA RateIsPositive ==
  ASSUME NEW rate \in Nat, rate > 0, NEW cap \in {0, 100}
  PROVE  /\ Stream!effective_stream_rate_hz(rate, cap) \in Nat
         /\ Stream!effective_stream_rate_hz(rate, cap) > 0
  <1> DEFINE r == IF cap # 0 /\ rate > cap THEN cap ELSE rate
             q == 1000 \div r
             d == IF q = 0 THEN 10 ELSE q
  <1>1. r \in Nat /\ r > 0
    OBVIOUS
  <1>2. Stream!effective_stream_rate_hz(rate, cap) = 1000 \div d
    BY <1>1 DEF Stream!effective_stream_rate_hz
  <1> HIDE DEF r
  <1>3. q \in Nat /\ q <= 1000
    BY <1>1
  <1> HIDE DEF q
  <1>4. d \in 1 .. 1000
    BY <1>3
  <1> HIDE DEF d
  <1>5. 1000 \div d \in Nat /\ 1000 \div d > 0
    BY <1>4
  <1> QED
    BY <1>2, <1>5

(* What a start makes the MCU emit is what was asked for. *)
LEMMA EmissionIs ==
  ASSUME NEW rates \in [Stream!Sources -> Rates]
  PROVE  LET mask == Stream!stream_source_mask(rates)
             emits == Stream!Emission(mask, rates)
         IN /\ emits \in [Stream!Sources -> Nat]
            /\ mask = {s \in Stream!Sources : emits[s] > 0}
  <1> DEFINE mask == Stream!stream_source_mask(rates)
             emits == Stream!Emission(mask, rates)
             rate(s) == Stream!effective_stream_rate_hz(rates[s], Stream!Cap(s))
  <1>1. ASSUME NEW s \in mask PROVE rate(s) \in Nat /\ rate(s) > 0
    <2>1. rates[s] \in Nat /\ rates[s] > 0
      BY StreamAssumption DEF Stream!stream_source_mask
    <2>2. Stream!Cap(s) \in {0, 100}
      BY DEF Stream!Cap
    <2> QED
      BY <2>1, <2>2, RateIsPositive
  <1>2. mask \subseteq Stream!Sources
    BY DEF Stream!stream_source_mask
  <1>3. emits = [s \in Stream!Sources |-> IF s \in mask THEN rate(s) ELSE 0]
    BY DEF Stream!Emission
  <1> HIDE DEF mask, rate, emits
  <1>4. emits \in [Stream!Sources -> Nat]
    BY <1>1, <1>3
  <1>5. mask = {s \in Stream!Sources : emits[s] > 0}
    BY <1>1, <1>2, <1>3
  <1> QED
    BY <1>4, <1>5 DEF mask, emits

(* A stop that is carried out silences the MCU, another one leaves it alone. *)
LEMMA StoppedIs ==
  ASSUME StreamTypes, NEW o
  PROVE  LET m == Stream!Stopped(smcu, o) IN
         /\ m \in [kind : Kinds, version : Versions, mode : {"idle", "separate", "polled"},
                   emits : [Stream!Sources -> Nat]]
         /\ Stream!CarriedOut(o) => m.mode = "idle" /\ m.emits = Stream!Silence
         /\ ~Stream!CarriedOut(o) => m = smcu
  <1>1. Stream!Silence \in [Stream!Sources -> Nat]
    BY DEF Stream!Silence
  <1>2. CASE Stream!CarriedOut(o)
    BY <1>1, <1>2 DEF Stream!Stopped, Stream!Told, StreamTypes
  <1>3. CASE ~Stream!CarriedOut(o)
    BY <1>3 DEF Stream!Stopped, Stream!Told, StreamTypes
  <1> QED
    BY <1>2, <1>3

(* Every call that ends with the gripper not streaming leaves the MCU silent,
   or in doubt. *)
LEMMA SilentKeeps ==
  ASSUME StreamFollows, NEW o,
         smcu' = Stream!Stopped(smcu, o),
         \/ doubt' = (doubt /\ ~Stream!CarriedOut(o)) /\ ~streaming
         \/ doubt' = ~Stream!CarriedOut(o),
         streaming' = FALSE
  PROVE  StreamFollows'
  <1> USE DEF StreamFollows
  <1>1. StreamTypes'
    <2>1. doubt' \in BOOLEAN
      BY Zenon DEF Stream!CarriedOut
    <2> QED
      BY <2>1, StoppedIs DEF StreamTypes
  <1>2. CASE Stream!CarriedOut(o)
    <2>1. smcu'.mode = "idle" /\ smcu'.emits = Stream!Silence
      BY <1>2, StoppedIs
    <2> QED
      BY <1>1, <2>1 DEF Stream!StreamIsAsTold, Stream!Silence, Stream!Sources
  <1>3. CASE ~Stream!CarriedOut(o)
    <2>1. smcu' = smcu
      BY <1>3, StoppedIs
    <2>2. doubt' \/ (~doubt /\ ~streaming)
      BY <1>3 DEF StreamTypes
    <2>3. CASE ~doubt' /\ ~doubt /\ ~streaming
      <3>1. smcu.mode = "idle" /\ smcu.emits = Stream!Silence
        BY <2>3 DEF Stream!StreamIsAsTold
      <3> QED
        BY <1>1, <2>1, <3>1 DEF Stream!StreamIsAsTold, Stream!Silence, Stream!Sources
    <2>4. CASE doubt'
      BY <1>1, <2>4 DEF Stream!StreamIsAsTold
    <2> QED
      BY <2>2, <2>3, <2>4
  <1> QED
    BY <1>1, <1>2, <1>3

(* A start. *)
LEMMA StartKeeps ==
  ASSUME StreamFollows, NEW mode \in {"separate", "polled"},
         NEW rates \in [Stream!Sources -> Rates], Stream!Asked(rates), Stream!Start(mode, rates)
  PROVE  StreamFollows'
  <1> USE DEF StreamFollows
  <1> DEFINE mask == Stream!stream_source_mask(rates)
             emits == Stream!Emission(mask, rates)
  <1>1. PICK o \in Stream!Calls(Stream!Steps) :
          /\ smcu' = Stream!Told(Stream!Stopped(smcu, o["stop"]), o["start"], mode, emits)
          /\ doubt' = (o["start"] = "unanswered" \/ (doubt /\ ~Stream!CarriedOut(o["stop"])
                                                       /\ ~Stream!CarriedOut(o["start"])))
          /\ streaming' = (o["start"] = "done")
          /\ sources' = IF o["start"] = "done" THEN mask ELSE sources
          /\ wanted' = IF o["start"] = "done" THEN {s \in Stream!Sources : rates[s] > 0} ELSE wanted
          /\ exchange' = (o["start"] = "done" /\ mode = "polled")
          /\ link' = link
    BY Zenon DEF Stream!Start
  <1>2. ~streaming /\ link # "closed"
    BY DEF Stream!Asked
  <1>3. emits \in [Stream!Sources -> Nat] /\ mask = {s \in Stream!Sources : emits[s] > 0}
    BY EmissionIs
  <1>4. mask = {s \in Stream!Sources : rates[s] > 0}
    BY DEF Stream!stream_source_mask
  <1> HIDE DEF mask, emits
  <1>5. CASE Stream!CarriedOut(o["start"])
    <2>1. smcu' = [Stream!Stopped(smcu, o["stop"]) EXCEPT !.mode = mode, !.emits = emits]
      BY <1>1, <1>5 DEF Stream!Told
    <2> DEFINE m == Stream!Stopped(smcu, o["stop"])
    <2>2. m \in [kind : Kinds, version : Versions, mode : {"idle", "separate", "polled"},
                 emits : [Stream!Sources -> Nat]]
      BY StoppedIs
    <2> HIDE DEF m
    <2>3. /\ smcu' \in [kind : Kinds, version : Versions, mode : {"idle", "separate", "polled"},
                         emits : [Stream!Sources -> Nat]]
          /\ smcu'.mode = mode /\ smcu'.emits = emits
      BY <1>3, <2>1, <2>2 DEF m
    <2>4. CASE o["start"] = "unanswered"
      <3>1. doubt' = TRUE /\ streaming' = FALSE
        BY <1>1, <2>4
      <3> QED
        BY <1>1, <2>3, <3>1 DEF StreamTypes, Stream!StreamIsAsTold
    <2>5. CASE o["start"] = "done"
      <3>1. doubt' = FALSE /\ streaming' = TRUE /\ exchange' = (mode = "polled")
            /\ sources' = mask /\ wanted' = mask
        BY <1>1, <1>4, <1>5, <2>5
      <3>2. StreamTypes'
        BY <1>1, <1>2, <2>3, <3>1 DEF StreamTypes
      <3>3. wanted' = {s \in Stream!Sources : smcu'.emits[s] > 0}
        BY <1>3, <2>3, <3>1
      <3>4. Stream!StreamIsAsTold'
        BY <2>3, <3>1, <3>3 DEF Stream!StreamIsAsTold
      <3> QED
        BY <3>2, <3>4
    <2> QED
      BY <1>5, <2>4, <2>5 DEF Stream!CarriedOut
  <1>6. CASE ~Stream!CarriedOut(o["start"])
    <2>1. smcu' = Stream!Stopped(smcu, o["stop"])
      BY <1>1, <1>6 DEF Stream!Told
    <2>2. streaming' = FALSE
      BY <1>1, <1>6 DEF Stream!CarriedOut
    <2>3. doubt' = (doubt /\ ~Stream!CarriedOut(o["stop"]))
      BY <1>1, <1>6, Zenon DEF Stream!CarriedOut
    <2> QED
      BY <1>2, <2>1, <2>2, <2>3, SilentKeeps
  <1> QED
    BY <1>5, <1>6

(* Every step of a gripper keeps it. *)
LEMMA StreamStep ==
  ASSUME StreamFollows, Stream!Next
  PROVE  StreamFollows'
  <1> USE DEF StreamFollows
  <1>1. CASE Stream!Open
    <2>1. PICK o \in Stream!Calls({"stop", "version"}) :
            smcu' = Stream!Stopped(smcu, o["stop"]) /\ doubt' = (doubt /\ ~Stream!CarriedOut(o["stop"]))
      BY <1>1, Zenon DEF Stream!Open
    <2>2. streaming' = FALSE /\ ~streaming
      BY <1>1 DEF Stream!Open, StreamTypes
    <2> QED
      BY <2>1, <2>2, SilentKeeps
  <1>2. CASE Stream!start_streaming
    BY <1>2, StartKeeps DEF Stream!start_streaming
  <1>3. CASE Stream!start_exchange
    BY <1>3, StartKeeps DEF Stream!start_exchange
  <1>4. CASE Stream!StartNothing
    <2>1. PICK o \in Stream!Calls({"stop"}) :
            smcu' = Stream!Stopped(smcu, o["stop"]) /\ doubt' = (doubt /\ ~Stream!CarriedOut(o["stop"]))
      BY <1>4, Zenon DEF Stream!StartNothing
    <2>2. streaming' = FALSE /\ ~streaming
      BY <1>4 DEF Stream!StartNothing, StreamTypes
    <2> QED
      BY <2>1, <2>2, SilentKeeps
  <1>5. CASE Stream!stop_streaming
    <2>1. PICK o \in Stream!Calls({"stop"}) :
            smcu' = Stream!Stopped(smcu, o["stop"]) /\ doubt' = ~Stream!CarriedOut(o["stop"])
      BY <1>5, Zenon DEF Stream!stop_streaming, Stream!Hush
    <2>2. streaming' = FALSE
      BY <1>5 DEF Stream!stop_streaming
    <2> QED
      BY <2>1, <2>2, SilentKeeps
  <1>6. CASE Stream!Close
    <2>1. streaming' = FALSE
      BY <1>6 DEF Stream!Close
    <2>2. CASE streaming /\ link = "running"
      <3>1. PICK o \in Stream!Calls({"stop"}) :
              smcu' = Stream!Stopped(smcu, o["stop"]) /\ doubt' = ~Stream!CarriedOut(o["stop"])
        BY <1>6, <2>2, Zenon DEF Stream!Close, Stream!Hush
      <3> QED
        BY <2>1, <3>1, SilentKeeps
    <2>3. CASE ~(streaming /\ link = "running")
      <3>1. smcu' = smcu /\ doubt' = (doubt \/ streaming)
        BY <1>6, <2>3 DEF Stream!Close
      <3>2. StreamTypes'
        BY <2>1, <3>1 DEF StreamTypes
      <3>3. Stream!StreamIsAsTold'
        BY <2>1, <3>1 DEF StreamTypes, Stream!StreamIsAsTold, Stream!Silence, Stream!Sources
      <3> QED
        BY <3>2, <3>3
    <2> QED
      BY <2>2, <2>3
  <1>7. CASE Stream!Restart
    <2>1. smcu' = Stream!Stopped(smcu, "done") /\ Stream!CarriedOut("done")
          /\ doubt' = streaming /\ UNCHANGED <<streaming, exchange, sources, wanted, link>>
      BY <1>7 DEF Stream!Restart, Stream!CarriedOut
    <2>2. smcu'.mode = "idle" /\ smcu'.emits = Stream!Silence
      BY <2>1, StoppedIs
    <2>3. StreamTypes'
      BY <2>1, StoppedIs DEF StreamTypes
    <2>4. Stream!StreamIsAsTold'
      BY <2>1, <2>2 DEF StreamTypes, Stream!StreamIsAsTold, Stream!Silence, Stream!Sources
    <2> QED
      BY <2>3, <2>4
  <1>8. CASE Stream!ReaderDies
    <2>1. link' # "closed" /\ UNCHANGED <<smcu, streaming, sources, wanted, exchange, doubt>>
      BY <1>8 DEF Stream!ReaderDies
    <2> QED
      BY <2>1 DEF StreamTypes, Stream!StreamIsAsTold, Stream!Silence, Stream!Sources
  <1> QED
    BY <1>1, <1>2, <1>3, <1>4, <1>5, <1>6, <1>7, <1>8 DEF Stream!Next

(* A gripper begins closed, in doubt of what was left streaming. *)
LEMMA StreamInit == ASSUME Stream!Init PROVE StreamFollows
  <1>1. PICK k \in Kinds, v \in Versions, mode \in {"idle", "separate"} :
          /\ smcu = [kind |-> k, version |-> v, mode |-> mode,
                     emits |-> [s \in Stream!Sources |-> IF mode = "idle" THEN 0 ELSE 100]]
          /\ doubt = (mode # "idle")
    BY Zenon DEF Stream!Init
  <1>2. link = "closed" /\ streaming = FALSE
    BY DEF Stream!Init
  <1>3. StreamTypes
    BY <1>1, <1>2 DEF StreamTypes
  <1>4. Stream!StreamIsAsTold
    BY <1>1, <1>2 DEF Stream!StreamIsAsTold, Stream!Silence
  <1> QED
    BY <1>3, <1>4 DEF StreamFollows

(* Unless a command about the stream is in doubt the MCU streams what the
   gripper was asked for, and nothing when it does not stream. *)
THEOREM StreamIsAsToldHolds == Spec => []StreamIsAsTold
  <1> DEFINE Follows == part = "stream" => StreamFollows
  <1>1. Init => Follows
    BY StreamInit DEF Init
  <1>2. Follows /\ [Next]_vars => Follows'
    <2> SUFFICES ASSUME Follows, [Next]_vars PROVE Follows'
      OBVIOUS
    <2>1. CASE part = "stream" /\ Stream!Next /\ part' = part
      BY <2>1, StreamStep
    <2>2. CASE UNCHANGED <<part, streamVars>>
      BY <2>2 DEF streamVars, StreamFollows, StreamTypes, Stream!StreamIsAsTold, Stream!Silence, Stream!Sources
    <2>3. CASE part # "stream" /\ part' = part
      BY <2>3
    <2> QED
      BY <2>1, <2>2, <2>3 DEF Next, vars, OfMcu, OfMotor
  <1>3. Follows => StreamIsAsTold
    BY DEF StreamFollows, StreamIsAsTold
  <1> QED
    BY <1>1, <1>2, <1>3, PTL DEF Spec

-----------------------------------------------------------------------------
(* The configuration (GripperConfig). *)

(* Division is exact where there is nothing left over. *)
LEMMA Quotient ==
  ASSUME NEW a \in Nat, NEW b \in Nat \ {0}
  PROVE  (a * b) \div b = a
  <1> DEFINE q == (a * b) \div b
             r == (a * b) % b
  <1>1. q \in Int /\ r \in 0 .. b - 1 /\ a * b = b * q + r
    OBVIOUS
  <1> HIDE DEF q, r
  <1>2. b * (a - q) = r
    BY <1>1
  <1>3. a - q = 0
    <2>1. a - q \in Int
      BY <1>1
    <2>2. CASE a - q >= 1
      <3>1. b * (a - q) >= b
        BY <2>1, <2>2
      <3> QED
        BY <1>1, <1>2, <3>1
    <2>3. CASE a - q <= -1
      <3>1. b * (a - q) <= -b
        BY <2>1, <2>3
      <3> QED
        BY <1>1, <1>2, <3>1
    <2> QED
      BY <2>1, <2>2, <2>3
  <1> QED
    BY <1>1, <1>3 DEF q

(* A position in range that is sent as an angle is read back as it was. *)
LEMMA RoundTrip ==
  ASSUME NEW t \in Travels, Config!Usable(t), NEW c \in 0 .. Scale
  PROVE  Config!to_position(t, (t.least + (c * (t.most - t.least)) \div Scale) * Config!Direction(t)) = c
  <1> DEFINE w == t.most - t.least
             k == w \div Scale
  <1>0. Scale \in Nat \ {0} /\ t.least \in Int /\ t.most \in Int
    BY ConfigAssumption
  <1>1. w \in Nat \ {0} /\ w % Scale = 0
    BY <1>0, ConfigAssumption DEF Config!Usable
  <1>2. k \in Nat \ {0} /\ w = k * Scale
    <2> HIDE DEF w
    <2>1. k \in Int /\ w = Scale * k + (w % Scale)
      BY <1>0, <1>1
    <2> HIDE DEF k
    <2>2. w = Scale * k
      BY <1>0, <1>1, <2>1
    <2>3. k >= 1
      <3>1. CASE k <= 0
        <4>1. Scale * k <= 0
          BY <1>0, <2>1, <3>1
        <4> QED
          BY <1>1, <2>2, <4>1
      <3> QED
        BY <2>1, <3>1
    <2>4. Scale * k = k * Scale
      BY <1>0, <2>1
    <2> QED
      BY <2>1, <2>2, <2>3, <2>4
  <1> HIDE DEF k
  <1>3. (c * w) \div Scale = c * k
    <2>1. c * w = (c * k) * Scale
      BY <1>0, <1>2
    <2>2. c * k \in Nat
      BY <1>0, <1>2
    <2> QED
      BY <1>0, <2>1, <2>2, Quotient
  <1>4. ((t.least + c * k) * Config!Direction(t)) * Config!Direction(t) - t.least = c * k
    <2>1. Config!Direction(t) \in {-1, 1} /\ c * k \in Nat
      BY <1>0, <1>2 DEF Config!Direction
    <2> DEFINE a == t.least + c * k
    <2>2. a \in Int
      BY <1>0, <2>1
    <2> HIDE DEF a
    <2>3. (a * Config!Direction(t)) * Config!Direction(t) = a
      BY <2>1, <2>2
    <2> QED
      BY <1>0, <2>1, <2>3 DEF a
  <1>5. ((c * k) * Scale) \div w = c
    <2>1. (c * k) * Scale = c * w
      BY <1>0, <1>2
    <2> HIDE DEF w
    <2> QED
      BY <1>0, <1>1, <2>1, Quotient
  <1>6. Config!Clamp(c, 0, Scale) = c
    BY <1>0 DEF Config!Clamp
  <1> QED
    BY <1>0, <1>1, <1>3, <1>4, <1>5, <1>6 DEF Config!to_position

(* Envelopes as records hold them. *)
Records ==
  [valid : BOOLEAN, enforce : BOOLEAN, layout : BOOLEAN, cont : Int, peak : Int]

(* What is in a set of issues by their conditions. *)
LEMMA Issues ==
  ASSUME NEW e \in Records, NEW spec \in [rated : Nat, stall : Nat]
  PROVE  LET r == Config!recommend_envelope(spec)
             issues == Config!ValueIssues(e, spec)
         IN /\ \A i \in issues : i \in {"PeakUnlimited", "ContUnlimited", "ContAboveStallRating",
                                       "NotAtSpec", "PeakNotAboveCont"}
            /\ "PeakUnlimited" \in issues => e.peak <= 0
            /\ "ContUnlimited" \in issues => e.cont <= 0
            /\ "ContAboveStallRating" \in issues => spec.stall > 0 /\ e.cont > spec.stall
            /\ "NotAtSpec" \in issues =>
                 Config!SpecKnown(spec) /\ <<e.cont, e.peak>> # <<r.cont, r.peak>>
  BY Zenon DEF Config!ValueIssues

(* What is recommended has limits, within the rating of the stalled motor. *)
LEMMA Recommended ==
  ASSUME NEW spec \in [rated : Nat, stall : Nat]
  PROVE  LET r == Config!recommend_envelope(spec) IN
         /\ r \in Records /\ r.valid /\ r.enforce /\ r.layout
         /\ r.cont > 0 /\ r.peak > 0
         /\ spec.stall > 0 => r.cont = spec.stall
  BY ConfigAssumption DEF Config!recommend_envelope, Records

(* A repair makes a record. *)
LEMMA RepairIs ==
  ASSUME NEW e \in Records, NEW spec \in [rated : Nat, stall : Nat]
  PROVE  Config!repair_envelope(e, spec) \in Records
  <1> DEFINE r == Config!recommend_envelope(spec)
             keep == Config!audit_envelope(e, spec) \cap {"NotWritten", "LayoutMismatch"} = {}
                     /\ ~Config!SpecKnown(spec)
             cont == IF keep /\ e.cont \in 1 .. r.cont THEN e.cont ELSE r.cont
             peak == IF keep /\ e.peak \in 1 .. r.peak THEN e.peak ELSE r.peak
             top == IF keep /\ peak <= cont THEN r.peak ELSE peak
  <1>1. Config!repair_envelope(e, spec) = [r EXCEPT !.cont = cont, !.peak = top]
    BY DEF Config!repair_envelope
  <1>2. r \in Records
    BY Recommended
  <1> HIDE DEF r, keep
  <1>3. cont \in Int /\ top \in Int
    BY <1>2 DEF Records
  <1> QED
    BY <1>1, <1>2, <1>3 DEF Records

(* A record that was repaired has nothing that needs a repair. *)
LEMMA Repaired ==
  ASSUME NEW e \in Records, NEW spec \in [rated : Nat, stall : Nat]
  PROVE  LET fixed == [Config!repair_envelope(e, spec) EXCEPT !.layout = TRUE] IN
         fixed \in Records /\ ~Config!needs_write(Config!audit_envelope(fixed, spec))
  <1> DEFINE r == Config!recommend_envelope(spec)
             keep == Config!audit_envelope(e, spec) \cap {"NotWritten", "LayoutMismatch"} = {}
                     /\ ~Config!SpecKnown(spec)
             cont == IF keep /\ e.cont \in 1 .. r.cont THEN e.cont ELSE r.cont
             peak == IF keep /\ e.peak \in 1 .. r.peak THEN e.peak ELSE r.peak
             top == IF keep /\ peak <= cont THEN r.peak ELSE peak
             fixed == [Config!repair_envelope(e, spec) EXCEPT !.layout = TRUE]
  <1>1. Config!repair_envelope(e, spec) = [r EXCEPT !.cont = cont, !.peak = top]
    BY DEF Config!repair_envelope
  <1>2. /\ r \in Records /\ r.valid /\ r.enforce /\ r.layout /\ r.cont > 0 /\ r.peak > 0
        /\ spec.stall > 0 => r.cont = spec.stall
    BY Recommended
  <1>3. keep \in BOOLEAN /\ (keep => ~Config!SpecKnown(spec))
    OBVIOUS
  <1> HIDE DEF keep, r
  <1>4. cont \in Int /\ cont > 0 /\ cont <= r.cont /\ (~keep => cont = r.cont)
    BY <1>2, <1>3 DEF Records
  <1>5. peak \in Int /\ peak > 0 /\ (~keep => peak = r.peak)
    BY <1>2, <1>3 DEF Records
  <1> HIDE DEF cont, peak
  <1>6. top \in Int /\ top > 0 /\ (~keep => top = r.peak)
    BY <1>2, <1>3, <1>5 DEF Records
  <1> HIDE DEF top
  <1>7. fixed \in Records /\ fixed.valid /\ fixed.enforce /\ fixed.layout
        /\ fixed.cont = cont /\ fixed.peak = top
    BY <1>1, <1>2, <1>4, <1>6 DEF Records
  <1> HIDE DEF fixed
  <1>8. Config!audit_envelope(fixed, spec) = Config!ValueIssues(fixed, spec)
    BY <1>7 DEF Config!audit_envelope
  <1>9. "PeakUnlimited" \notin Config!ValueIssues(fixed, spec)
    BY <1>6, <1>7, Issues
  <1>10. "ContUnlimited" \notin Config!ValueIssues(fixed, spec)
    BY <1>4, <1>7, Issues
  <1>11. "ContAboveStallRating" \notin Config!ValueIssues(fixed, spec)
    <2>1. spec.stall > 0 => fixed.cont <= spec.stall
      BY <1>2, <1>4, <1>7
    <2> QED
      BY <1>4, <1>7, <2>1, Issues
  <1>12. "NotAtSpec" \notin Config!ValueIssues(fixed, spec)
    <2>1. Config!SpecKnown(spec) => fixed.cont = r.cont /\ fixed.peak = r.peak
      BY <1>3, <1>4, <1>6, <1>7
    <2> QED
      BY <1>7, <2>1, Issues DEF r
  <1>13. \A i \in Config!ValueIssues(fixed, spec) : i = "PeakNotAboveCont"
    BY <1>7, <1>9, <1>10, <1>11, <1>12, Issues
  <1> QED
    BY <1>7, <1>8, <1>13 DEF Config!needs_write, fixed

(* The map is a usable one of a device, or none. *)
ConfigTypes ==
  /\ device \in [kind : Kinds, spec : Specs, travel : Travels, envelope : Records, shaft : Int]
  /\ map \in Travels \union {Config!NoMap}
  /\ map # Config!NoMap => Config!Usable(map)
  /\ asked \in 0 .. Scale \union {Config!Nowhere}
  /\ ensured \in BOOLEAN /\ behind \in BOOLEAN

(* The map in use is the device's, and the jaw stands where it was sent with
   the device's map, also while the map is not loaded; only a follower's jaw is sent anywhere. *)
MapFollows ==
  /\ map # Config!NoMap /\ ~behind => map = device.travel
  /\ asked # Config!Nowhere =>
       /\ device.kind = "follower"
       /\ Config!to_position(device.travel, device.shaft) = asked

ConfigFollows == ConfigTypes /\ MapFollows /\ Config!EnsureSettles

(* A step that leaves envelope and ratings alone, or forgets that they were
   settled. *)
SettlesKept ==
  \/ ensured' = FALSE
  \/ ensured' = ensured /\ device'.envelope = device.envelope /\ device'.spec = device.spec

(* Such a step leaves what ensure_envelope() settled. *)
LEMMA SettlesKeeps == ASSUME Config!EnsureSettles, SettlesKept PROVE Config!EnsureSettles'
  <1>1. CASE ensured' = FALSE
    BY <1>1 DEF Config!EnsureSettles
  <1>2. CASE ensured' = ensured /\ device'.envelope = device.envelope /\ device'.spec = device.spec
    BY <1>2 DEF Config!EnsureSettles, Config!needs_write, Config!audit_envelope, Config!ValueIssues,
                Config!SpecKnown, Config!recommend_envelope
  <1> QED
    BY <1>1, <1>2 DEF SettlesKept

(* The map as it is loaded. *)
LEMMA LoadedIs ==
  ASSUME ConfigTypes
  PROVE  /\ Config!Loaded \in Travels \union {Config!NoMap}
         /\ Config!Loaded # Config!NoMap => Config!Usable(Config!Loaded) /\ Config!Loaded = device.travel
  BY DEF ConfigTypes, Config!Loaded

(* The map is loaded, or loaded again. *)
LEMMA LoadKeeps ==
  ASSUME ConfigFollows, Config!ensure_position_map \/ Config!reload
  PROVE  ConfigFollows'
  <1> USE DEF ConfigFollows
  <1>1. /\ map' \in {Config!Loaded, Config!NoMap} /\ behind' = FALSE
        /\ UNCHANGED <<device, asked, ensured>>
    BY Zenon DEF Config!ensure_position_map, Config!reload
  <1>2. ConfigTypes'
    BY <1>1, LoadedIs DEF ConfigTypes
  <1>3. MapFollows'
    BY <1>1, LoadedIs DEF MapFollows, Config!to_position, Config!Clamp, Config!Direction
  <1>4. Config!EnsureSettles'
    BY <1>1, SettlesKeeps DEF SettlesKept
  <1> QED
    BY <1>2, <1>3, <1>4

(* The jaw is sent somewhere. *)
LEMMA PositionKeeps ==
  ASSUME ConfigFollows, Config!set_position
  PROVE  ConfigFollows'
  <1> USE DEF ConfigFollows
  <1>1. PICK position \in 0 .. Scale + 1 :
          /\ device' = [device EXCEPT !.shaft = Config!to_rad(map, position)]
          /\ asked' = IF behind THEN Config!Nowhere ELSE Config!Clamp(position, 0, Scale)
    BY Zenon DEF Config!set_position
  <1>2. device.kind = "follower" /\ map # Config!NoMap /\ UNCHANGED <<map, ensured, behind>>
    BY DEF Config!set_position
  <1> DEFINE c == Config!Clamp(position, 0, Scale)
             rad == Config!to_rad(map, position)
  <1>3. c \in 0 .. Scale
    BY ConfigAssumption DEF Config!Clamp
  <1>4. rad = (map.least + (c * (map.most - map.least)) \div Scale) * Config!Direction(map)
    BY DEF Config!to_rad
  <1>5. map \in Travels /\ Config!Usable(map)
    BY <1>2 DEF ConfigTypes
  <1> HIDE DEF c
  <1>6. rad \in Int
    <2>1. map.least \in Int /\ map.most \in Int /\ Config!Direction(map) \in Int /\ Scale \in Nat \ {0}
      BY <1>5, ConfigAssumption DEF Config!Direction
    <2>2. c * (map.most - map.least) \in Int
      BY <1>3, <2>1
    <2>3. (c * (map.most - map.least)) \div Scale \in Int
      BY <2>1, <2>2
    <2> DEFINE q == (c * (map.most - map.least)) \div Scale
    <2> HIDE DEF q
    <2>4. (map.least + q) * Config!Direction(map) \in Int
      BY <2>1, <2>3 DEF q
    <2> QED
      BY <1>4, <2>4 DEF q
  <1>7. Config!to_position(map, rad) = c
    BY <1>3, <1>4, <1>5, RoundTrip
  <1> HIDE DEF rad
  <1>8. /\ device'.kind = device.kind /\ device'.travel = device.travel /\ device'.shaft = rad
        /\ device'.spec = device.spec /\ device'.envelope = device.envelope
        /\ device' \in [kind : Kinds, spec : Specs, travel : Travels, envelope : Records, shaft : Int]
    BY <1>1, <1>6 DEF ConfigTypes, rad
  <1>9. ConfigTypes'
    BY <1>1, <1>2, <1>3, <1>8 DEF ConfigTypes, c, Config!Nowhere
  <1>10. MapFollows'
    <2>1. CASE behind
      BY <1>1, <1>2, <1>8, <2>1 DEF MapFollows
    <2>2. CASE ~behind
      <3>1. map = device.travel
        BY <1>2, <2>2 DEF MapFollows
      <3>2. asked' = c
        BY <1>1, <2>2 DEF c
      <3>3. Config!to_position(device'.travel, device'.shaft) = c
        BY <1>7, <1>8, <3>1
      <3> QED
        BY <1>2, <1>8, <3>1, <3>2, <3>3 DEF MapFollows, Config!to_position, Config!Clamp, Config!Direction
    <2> QED
      BY <2>1, <2>2 DEF ConfigTypes
  <1>11. Config!EnsureSettles'
    BY <1>2, <1>8, SettlesKeeps DEF SettlesKept
  <1> QED
    BY <1>9, <1>10, <1>11

(* The gripper's calibration is written. *)
LEMMA GripperConfigKeeps ==
  ASSUME ConfigFollows, Config!set_gripper_config
  PROVE  ConfigFollows'
  <1> USE DEF ConfigFollows
  <1>1. PICK o \in Config!Calls({"set"}), travel \in Travels, e \in Envelopes :
          /\ device' = IF Config!CarriedOut(o["set"])
                       THEN [device EXCEPT !.travel = travel, !.envelope = e] ELSE device
          /\ map' = IF o["set"] = "done" THEN Config!NoMap ELSE map
          /\ behind' = (map' # Config!NoMap /\ (behind \/ o["set"] = "unanswered"))
          /\ asked' = IF Config!CarriedOut(o["set"]) THEN Config!Nowhere ELSE asked
    BY Zenon DEF Config!set_gripper_config, Config!DropMap
  <1>2. ensured' = FALSE /\ device.kind = "follower"
    BY DEF Config!set_gripper_config
  <1>3. e \in Records
    BY ConfigAssumption DEF Records
  <1>4. CASE Config!CarriedOut(o["set"])
    <2>1. device' = [device EXCEPT !.travel = travel, !.envelope = e] /\ asked' = Config!Nowhere
      BY <1>1, <1>4
    <2>2. map' # Config!NoMap => behind' = TRUE /\ map' = map
      BY <1>1, <1>4, Zenon DEF Config!CarriedOut
    <2>3. ConfigTypes'
      <3>1. behind' \in BOOLEAN
        BY <1>1, Zenon
      <3> QED
        BY <1>1, <1>2, <1>3, <2>1, <3>1 DEF ConfigTypes
    <2>4. MapFollows'
      BY <2>1, <2>2 DEF MapFollows
    <2> QED
      BY <1>2, <2>3, <2>4, SettlesKeeps DEF SettlesKept
  <1>5. CASE ~Config!CarriedOut(o["set"])
    <2>1. device' = device /\ asked' = asked /\ map' = map /\ o["set"] # "unanswered"
      BY <1>1, <1>5 DEF Config!CarriedOut
    <2>2. behind' = (map # Config!NoMap /\ behind)
      BY <1>1, <2>1, Zenon
    <2>3. ConfigTypes'
      BY <1>2, <2>1, <2>2 DEF ConfigTypes
    <2>4. MapFollows'
      BY <2>1, <2>2 DEF MapFollows, Config!to_position, Config!Clamp, Config!Direction
    <2> QED
      BY <1>2, <2>3, <2>4, SettlesKeeps DEF SettlesKept
  <1> QED
    BY <1>4, <1>5

(* The encoder's zero is set. *)
LEMMA EncoderKeeps ==
  ASSUME ConfigFollows, Config!write_encoder_max_rad
  PROVE  ConfigFollows'
  <1> USE DEF ConfigFollows
  <1>1. PICK o \in Config!Calls({"set"}), travel \in Travels :
          /\ device' = IF Config!CarriedOut(o["set"]) THEN [device EXCEPT !.travel = travel] ELSE device
          /\ behind' = (map # Config!NoMap /\ (behind \/ Config!CarriedOut(o["set"])))
    BY Zenon DEF Config!write_encoder_max_rad
  <1>2. UNCHANGED <<map, asked, ensured>> /\ device.kind = "leader"
    BY DEF Config!write_encoder_max_rad
  <1>3. behind' \in BOOLEAN
    BY <1>1, Zenon
  <1>4. /\ device' \in [kind : Kinds, spec : Specs, travel : Travels, envelope : Records, shaft : Int]
        /\ device'.envelope = device.envelope /\ device'.spec = device.spec
        /\ device'.kind = device.kind
        /\ Config!CarriedOut(o["set"]) \/ device'.travel = device.travel
    BY <1>1 DEF ConfigTypes
  <1>5. ConfigTypes'
    BY <1>2, <1>3, <1>4 DEF ConfigTypes
  <1>6. MapFollows'
    <2>1. asked' = Config!Nowhere
      BY <1>2 DEF MapFollows
    <2>2. map' # Config!NoMap /\ ~behind' => ~behind /\ device'.travel = device.travel
      BY <1>1, <1>2, <1>4 
    <2> QED
      BY <1>2, <2>1, <2>2 DEF MapFollows
  <1> QED
    BY <1>2, <1>4, <1>5, <1>6, SettlesKeeps DEF SettlesKept

(* What is common to the two writes of an envelope. *)
LEMMA RewriteKeeps ==
  ASSUME ConfigFollows, NEW o, NEW e \in Records,
         device' = Config!Rewritten(o, e), map' = Config!DropMap(o["set"]),
         behind' = (behind /\ map' # Config!NoMap), asked' = asked, ensured' \in BOOLEAN
  PROVE  ConfigTypes' /\ MapFollows'
  <1> USE DEF ConfigFollows
  <1>1. [e EXCEPT !.layout = TRUE] \in Records
    BY DEF Records
  <1>2. /\ device' \in [kind : Kinds, spec : Specs, travel : Travels, envelope : Records, shaft : Int]
        /\ device'.kind = device.kind /\ device'.travel = device.travel
        /\ device'.shaft = device.shaft
    BY <1>1 DEF ConfigTypes, Config!Rewritten
  <1>3. map' \in {map, Config!NoMap} /\ behind' \in BOOLEAN
    BY Zenon DEF Config!DropMap
  <1>4. ConfigTypes'
    BY <1>2, <1>3 DEF ConfigTypes
  <1>5. MapFollows'
    <2>1. map' # Config!NoMap /\ ~behind' => map' = device'.travel
      BY <1>2, <1>3 DEF MapFollows, ConfigTypes
    <2>2. Config!to_position(device.travel, device.shaft)' = Config!to_position(device.travel, device.shaft)
      BY <1>2 DEF Config!to_position, Config!Clamp, Config!Direction
    <2> QED
      BY <1>2, <2>1, <2>2 DEF MapFollows
  <1> QED
    BY <1>4, <1>5

(* The envelope is written as the caller has it. *)
LEMMA SetEnvelopeKeeps ==
  ASSUME ConfigFollows, Config!set_envelope
  PROVE  ConfigFollows'
  <1>1. PICK o \in Config!Calls({"again", "set"}), e \in Envelopes :
          device' = Config!Rewritten(o, e) /\ map' = Config!DropMap(o["set"])
    BY Zenon DEF Config!set_envelope
  <1>2. ensured' = FALSE /\ behind' = (behind /\ map' # Config!NoMap) /\ asked' = asked
    BY DEF Config!set_envelope
  <1>3. e \in Records
    BY ConfigAssumption DEF Records
  <1>4. ConfigTypes' /\ MapFollows'
    BY <1>1, <1>2, <1>3, RewriteKeeps
  <1>5. Config!EnsureSettles'
    BY <1>2, SettlesKeeps DEF ConfigFollows, SettlesKept
  <1> QED
    BY <1>4, <1>5 DEF ConfigFollows

(* ensure_envelope() leaves nothing to repair, or says that it did not get to it. *)
LEMMA EnsureKeeps ==
  ASSUME ConfigFollows, Config!ensure_envelope
  PROVE  ConfigFollows'
  <1>1. PICK o \in Config!Calls({"get", "spec", "again", "set"}) :
          LET spec == IF o["spec"] = "done" THEN device.spec ELSE Config!NoSpec
              repairs == o["get"] = "done"
                           /\ Config!needs_write(Config!audit_envelope(device.envelope, spec))
          IN /\ Config!Sends(o, "spec", o["get"] = "done")
             /\ device' = Config!Rewritten(o, Config!repair_envelope(device.envelope, spec))
             /\ map' = Config!DropMap(o["set"])
             /\ ensured' = (o["spec"] = "done" /\ o["set"] = IF repairs THEN "done" ELSE "unsent")
    BY Zenon DEF Config!ensure_envelope
  <1> DEFINE spec == IF o["spec"] = "done" THEN device.spec ELSE Config!NoSpec
             fixed == Config!repair_envelope(device.envelope, spec)
             needed == Config!needs_write(Config!audit_envelope(device.envelope, spec))
  <1>2. behind' = (behind /\ map' # Config!NoMap) /\ asked' = asked
    BY DEF Config!ensure_envelope
  <1>3. spec \in [rated : Nat, stall : Nat] /\ device.envelope \in Records
    BY ConfigAssumption DEF ConfigFollows, ConfigTypes, Config!NoSpec
  <1>4. fixed \in Records
    BY <1>3, RepairIs
  <1>5. [fixed EXCEPT !.layout = TRUE] \in Records
        /\ ~Config!needs_write(Config!audit_envelope([fixed EXCEPT !.layout = TRUE], spec))
    BY <1>3, Repaired
  <1>6. /\ device' = Config!Rewritten(o, fixed)
        /\ ensured' => o["spec"] = "done" /\ o["get"] = "done"
                       /\ (o["set"] = "done" \/ (o["set"] = "unsent" /\ ~needed))
        /\ ensured' \in BOOLEAN
    BY <1>1, Zenon DEF Config!Sends
  <1>7. ConfigTypes' /\ MapFollows'
    BY <1>1, <1>2, <1>4, <1>6, RewriteKeeps
  <1>8. Config!EnsureSettles'
    <2> SUFFICES ASSUME ensured'
                 PROVE  ~Config!needs_write(Config!audit_envelope(device.envelope, device.spec))'
      BY DEF Config!EnsureSettles
    <2>1. spec = device.spec
      BY <1>6
    <2>2. CASE o["set"] = "done"
      <3>1. device'.envelope = [fixed EXCEPT !.layout = TRUE] /\ device'.spec = device.spec
        BY <1>6, <2>2 DEF Config!Rewritten, Config!CarriedOut, ConfigFollows, ConfigTypes
      <3> HIDE DEF fixed, spec
      <3> DEFINE new == [fixed EXCEPT !.layout = TRUE]
      <3>2. Config!audit_envelope(device.envelope, device.spec)' = Config!audit_envelope(new, spec)
        BY <2>1, <3>1 DEF Config!audit_envelope, Config!ValueIssues, Config!SpecKnown,
                          Config!recommend_envelope
      <3> QED
        BY <1>5, <3>2 DEF Config!needs_write
    <2>3. CASE o["set"] = "unsent" /\ ~needed
      <3>1. device' = device
        BY <1>6, <2>3 DEF Config!Rewritten, Config!CarriedOut
      <3>2. ~Config!needs_write(Config!audit_envelope(device.envelope, device.spec))
        BY <2>1, <2>3
      <3> QED
        BY <3>1, <3>2 DEF Config!needs_write, Config!audit_envelope, Config!ValueIssues,
                          Config!SpecKnown, Config!recommend_envelope
    <2> QED
      BY <1>6, <2>2, <2>3
  <1> QED
    BY <1>7, <1>8 DEF ConfigFollows

(* A configuration begins unread. *)
LEMMA ConfigInit == ASSUME Config!Init PROVE ConfigFollows
  <1>1. PICK k \in Kinds, s \in Specs, e \in Envelopes, t \in Travels :
          device = [kind |-> k, spec |-> s, envelope |-> e, travel |-> t, shaft |-> 0]
    BY Zenon DEF Config!Init
  <1>2. /\ map = Config!NoMap /\ asked = Config!Nowhere
        /\ ensured = FALSE /\ behind = FALSE
    BY DEF Config!Init
  <1>3. e \in Records
    BY ConfigAssumption DEF Records
  <1>4. device \in [kind : Kinds, spec : Specs, travel : Travels, envelope : Records, shaft : Int]
    BY <1>1, <1>3
  <1>5. ConfigTypes
    BY <1>2, <1>4 DEF ConfigTypes
  <1>6. MapFollows
    BY <1>2 DEF MapFollows
  <1>7. Config!EnsureSettles
    BY <1>2 DEF Config!EnsureSettles
  <1> QED
    BY <1>5, <1>6, <1>7 DEF ConfigFollows

(* Every step of a gripper's configuration keeps it. *)
LEMMA ConfigStep == ASSUME ConfigFollows, Config!Next PROVE ConfigFollows'
  BY LoadKeeps, PositionKeeps, GripperConfigKeeps, EncoderKeeps, SetEnvelopeKeeps, EnsureKeeps
     DEF Config!Next

(* The map in use is the device's and the jaw stands where it was sent with it;
   ensure_envelope() leaves nothing to repair. *)
THEOREM ConfigIsCurrentHolds == Spec => []ConfigIsCurrent
  <1> DEFINE Follows == part = "config" => ConfigFollows
  <1>1. Init => Follows
    BY ConfigInit DEF Init
  <1>2. Follows /\ [Next]_vars => Follows'
    <2> SUFFICES ASSUME Follows, [Next]_vars PROVE Follows'
      OBVIOUS
    <2>1. CASE part = "config" /\ Config!Next /\ part' = part
      BY <2>1, ConfigStep
    <2>2. CASE UNCHANGED <<part, configVars>>
      <3>1. CASE part = "config"
        <4>1. ConfigTypes' /\ MapFollows'
          BY <2>2, <3>1 DEF configVars, ConfigFollows, ConfigTypes, MapFollows,
                            Config!to_position, Config!Clamp, Config!Direction
        <4>2. Config!EnsureSettles'
          BY <2>2, <3>1, SettlesKeeps DEF configVars, ConfigFollows, SettlesKept
        <4> QED
          BY <4>1, <4>2 DEF ConfigFollows
      <3> QED
        BY <2>2, <3>1
    <2>3. CASE part # "config" /\ part' = part
      BY <2>3
    <2> QED
      BY <2>1, <2>2, <2>3 DEF Next, vars, OfMcu, OfMotor
  <1>3. Follows => ConfigIsCurrent
    <2> SUFFICES ASSUME ConfigFollows PROVE Config!MapIsCurrent /\ Config!EnsureSettles
      BY DEF ConfigIsCurrent
    <2> QED
      BY DEF ConfigFollows, MapFollows, Config!MapIsCurrent
  <1> QED
    BY <1>1, <1>2, <1>3, PTL DEF Spec

-----------------------------------------------------------------------------
(* The serial ports (Ports). *)

Holders == Serial!Fds \union Strangers
APort == [open : SUBSET Holders, lock : Serial!Fds \union {None}, excl : BOOLEAN]
ABus == [pc : {"closed", "opened", "locked", "exclusive", "ready", "leaving"},
         fd : Serial!Fds \union {None}, board : Boards \union {None}, streams : BOOLEAN]

PortTypes ==
  /\ port \in [Boards -> APort]
  /\ buses \in [Serial!Handles -> ABus]
  /\ stream \in [Boards -> BOOLEAN]

IsOpen(h) == buses[h].pc # "closed"

(* An open handle has a descriptor of its own, open on its port; and there are
   no others. *)
Descriptors ==
  /\ \A h \in Serial!Handles : ~IsOpen(h) => buses[h] = Serial!Closed
  /\ \A h \in Serial!Handles : IsOpen(h) =>
       buses[h].fd \in Serial!Fds /\ buses[h].board \in Boards /\ buses[h].fd \in port[buses[h].board].open
  /\ \A g, h \in Serial!Handles : IsOpen(g) /\ IsOpen(h) /\ buses[g].fd = buses[h].fd => g = h
  /\ \A b \in Boards, f \in Serial!Fds : f \in port[b].open =>
       \E h \in Serial!Handles : IsOpen(h) /\ buses[h].fd = f /\ buses[h].board = b

(* From the lock to the close a handle's descriptor has the lock; the lock and the
   exclusive mode go with what is open. *)
Locks ==
  /\ \A h \in Serial!Handles :
       buses[h].pc \in {"locked", "exclusive", "ready", "leaving"} =>
         port[buses[h].board].lock = buses[h].fd
  /\ \A b \in Boards : port[b].lock # None => port[b].lock \in port[b].open
  /\ \A b \in Boards : port[b].excl => port[b].open # {}

(* Who streams is open, and nobody has stopped its stream. *)
Owned ==
  /\ Serial!OwnedIsExclusive
  /\ \A h \in Serial!Handles : buses[h].streams => buses[h].pc = "ready" /\ stream[buses[h].board]

PortsHeld == PortTypes /\ Descriptors /\ Locks /\ Owned

(* A closed handle finds a descriptor nobody uses. *)
LEMMA FdIsFree ==
  ASSUME PortTypes, Descriptors, NEW h \in Serial!Handles, ~IsOpen(h)
  PROVE  Serial!FreeFd \in Serial!Fds /\ \A b \in Boards : Serial!FreeFd \notin port[b].open
  <1> DEFINE Others == Serial!Handles \ {h}
             n == Cardinality(Serial!Handles)
  <1>1. IsFiniteSet(Serial!Handles) /\ n \in Nat
    BY PortsAssumption, FS_AddElement, FS_CardinalityType DEF Serial!Handles
  <1>2. IsFiniteSet(Others) /\ Cardinality(Others) = n - 1
    BY <1>1, FS_RemoveElement
  <1>3. IsFiniteSet(Serial!Fds) /\ Cardinality(Serial!Fds) = n
    <2>1. IsFiniteSet(1 .. n) /\ Cardinality(1 .. n) = n
      BY <1>1, FS_Interval
    <2>2. Serial!Cardinality(Serial!Handles) = Cardinality(Serial!Handles)
      BY DEF Serial!Cardinality, Cardinality, Serial!IsFiniteSet, IsFiniteSet
    <2> QED
      BY <2>1, <2>2 DEF Serial!Fds
  <1>4. \E f \in Serial!Fds : \A b \in Boards : f \notin port[b].open
    <2> SUFFICES ASSUME \A f \in Serial!Fds : \E b \in Boards : f \in port[b].open PROVE FALSE
      OBVIOUS
    <2> DEFINE user == [f \in Serial!Fds |-> CHOOSE g \in Others : IsOpen(g) /\ buses[g].fd = f]
    <2>1. ASSUME NEW f \in Serial!Fds
          PROVE  user[f] \in Others /\ IsOpen(user[f]) /\ buses[user[f]].fd = f
      <3>1. \E g \in Others : IsOpen(g) /\ buses[g].fd = f
        BY DEF Descriptors
      <3> QED
        BY <3>1
    <2>2. user \in [Serial!Fds -> Others]
      BY <2>1
    <2> HIDE DEF user, n, Others
    <2>3. Cardinality(Others) < Cardinality(Serial!Fds)
      BY <1>1, <1>2, <1>3
    <2>4. PICK x, y \in Serial!Fds : x # y /\ user[x] = user[y]
      BY <1>2, <1>3, <2>2, <2>3, FS_PigeonHole
    <2> QED
      BY <2>1, <2>4
  <1> QED
    BY <1>4 DEF Serial!FreeFd

(* The constructor opens the device. *)
LEMMA OpenKeeps ==
  ASSUME PortsHeld, NEW h \in Serial!Handles, NEW b \in Boards, Serial!OpenDevice(h, b),
         stream' = stream
  PROVE  PortsHeld'
  <1> USE DEF PortsHeld
  <1> DEFINE f == Serial!FreeFd
             r == [Serial!Closed EXCEPT !.pc = "opened", !.fd = f, !.board = b]
             p == [port[b] EXCEPT !.open = @ \union {f}]
  <1>1. f \in Serial!Fds /\ (\A c \in Boards : f \notin port[c].open) /\ ~IsOpen(h)
    BY FdIsFree DEF Serial!OpenDevice, IsOpen
  <1>2. /\ port' = [port EXCEPT ![b] = p] /\ buses' = [buses EXCEPT ![h] = r]
    BY DEF Serial!OpenDevice, Serial!Opened
  <1> HIDE DEF f
  <1>3. r \in ABus /\ p \in APort /\ p.open = port[b].open \union {f} /\ p.lock = port[b].lock
        /\ p.excl = port[b].excl
    BY <1>1 DEF ABus, PortTypes, APort, Holders, Serial!Closed
  <1>4. r.pc = "opened" /\ r.fd = f /\ r.board = b /\ r.streams = FALSE
    BY DEF Serial!Closed
  <1> HIDE DEF r, p
  <1>5. PortTypes'
    BY <1>2, <1>3 DEF PortTypes
  <1>6. Descriptors'
    <2>1. \A g \in Serial!Handles \ {h} : buses'[g] = buses[g]
      BY <1>2 DEF PortTypes
    <2>2. buses'[h] = r
      BY <1>2 DEF PortTypes
    <2>3. \A c \in Boards : port'[c].open = IF c = b THEN port[b].open \union {f} ELSE port[c].open
      BY <1>2, <1>3 DEF PortTypes
    <2>4. \A g \in Serial!Handles \ {h} : IsOpen(g) => buses[g].fd # f
      BY <1>1 DEF Descriptors
    <2> QED
      BY <1>1, <1>4, <2>1, <2>2, <2>3, <2>4 DEF Descriptors, IsOpen
  <1>7. Locks'
    BY <1>2, <1>3, <1>4 DEF Locks, PortTypes
  <1>8. Owned'
    BY <1>2, <1>3, <1>4 DEF Owned, PortTypes, Serial!OwnedIsExclusive
  <1> QED
    BY <1>5, <1>6, <1>7, <1>8

(* It takes the lock if nobody has it. *)
LEMMA FlockKeeps ==
  ASSUME PortsHeld, NEW h \in Serial!Handles, Serial!Flock(h), stream' = stream
  PROVE  PortsHeld'
  <1> USE DEF PortsHeld
  <1> DEFINE b == buses[h].board
             f == buses[h].fd
  <1>1. buses[h].pc = "opened" /\ port[b].lock \in {None, f} /\ b \in Boards /\ f \in Serial!Fds
        /\ f \in port[b].open
    BY DEF Serial!Flock, Serial!LockFree, Descriptors, IsOpen
  <1>2. port' = [port EXCEPT ![b] = [port[b] EXCEPT !.lock = f]]
        /\ buses' = [buses EXCEPT ![h] = [buses[h] EXCEPT !.pc = "locked"]]
    BY DEF Serial!Flock
  <1>3. PortTypes'
    <2>1. [port[b] EXCEPT !.lock = f] \in APort
      BY <1>1 DEF PortTypes, APort
    <2>2. [buses[h] EXCEPT !.pc = "locked"] \in ABus
      BY DEF PortTypes, ABus
    <2> QED
      BY <1>1, <1>2, <2>1, <2>2 DEF PortTypes
  <1> HIDE DEF b, f
  <1>4. Descriptors'
    <2>1. \A g \in Serial!Handles : (IsOpen(g)' <=> IsOpen(g)) /\ buses'[g].fd = buses[g].fd
            /\ buses'[g].board = buses[g].board /\ (~IsOpen(g) => buses'[g] = buses[g])
      BY <1>1, <1>2 DEF PortTypes, ABus, IsOpen
    <2>2. \A c \in Boards : port'[c].open = port[c].open
      BY <1>2 DEF PortTypes, APort
    <2> QED
      BY <2>1, <2>2 DEF Descriptors, IsOpen
  <1>5. Locks'
    <2>1. \A g \in Serial!Handles \ {h} : buses'[g] = buses[g]
      BY <1>2 DEF PortTypes
    <2>2. buses'[h].board = b /\ buses'[h].fd = f
      BY <1>2 DEF PortTypes, ABus, b, f
    <2>3. \A c \in Boards : c # b => port'[c] = port[c]
      BY <1>2 DEF PortTypes
    <2>4. port'[b].lock = f /\ port'[b].open = port[b].open /\ port'[b].excl = port[b].excl
      BY <1>1, <1>2 DEF PortTypes, APort
    <2>5. ASSUME NEW g \in Serial!Handles \ {h}, buses[g].pc \in {"locked", "exclusive", "ready", "leaving"}
          PROVE  buses[g].board # b
      <3>1. port[buses[g].board].lock = buses[g].fd /\ buses[g].fd \in Serial!Fds /\ buses[g].fd # f
        BY <1>1, <2>5 DEF Locks, Descriptors, IsOpen, f
      <3>2. None \notin Serial!Fds
        BY PortsAssumption DEF Serial!Fds
      <3> QED
        BY <1>1, <3>1, <3>2
    <2>6. ASSUME NEW g \in Serial!Handles, buses'[g].pc \in {"locked", "exclusive", "ready", "leaving"}
          PROVE  port'[buses'[g].board].lock = buses'[g].fd
      <3>1. CASE g = h
        BY <2>2, <2>4, <3>1
      <3>2. CASE g # h
        BY <2>1, <2>3, <2>5, <2>6, <3>2 DEF Locks, Descriptors, IsOpen
      <3> QED
        BY <3>1, <3>2
    <2> QED
      BY <1>1, <2>3, <2>4, <2>6 DEF Locks
  <1>6. Owned'
    BY <1>1, <1>2 DEF Owned, PortTypes, APort, ABus, Serial!OwnedIsExclusive
  <1> QED
    BY <1>3, <1>4, <1>5, <1>6

(* It sets the exclusive mode, then the rate. *)
LEMMA SetKeeps ==
  ASSUME PortsHeld, NEW h \in Serial!Handles, Serial!SetExclusive(h) \/ Serial!apply_termios_(h),
         stream' = stream
  PROVE  PortsHeld'
  <1> USE DEF PortsHeld
  <1> DEFINE b == buses[h].board
  <1>1. PICK next \in {"exclusive", "ready"} :
          /\ buses' = [buses EXCEPT ![h] = [buses[h] EXCEPT !.pc = next]]
          /\ buses[h].pc = IF next = "exclusive" THEN "locked" ELSE "exclusive"
          /\ port' = IF next = "exclusive" THEN [port EXCEPT ![b] = [port[b] EXCEPT !.excl = TRUE]] ELSE port
    BY DEF Serial!SetExclusive, Serial!apply_termios_
  <1>2. b \in Boards /\ buses[h].fd \in port[b].open /\ port[b].lock = buses[h].fd
    BY <1>1 DEF Descriptors, Locks, IsOpen
  <1>3. \A c \in Boards : /\ port'[c] \in APort /\ port'[c].open = port[c].open
                          /\ port'[c].lock = port[c].lock
                          /\ (port[c].excl => port'[c].excl)
                          /\ (c # b => port'[c] = port[c])
    BY <1>1 DEF PortTypes, APort
  <1>4. port'[b].excl
    BY <1>1, <1>2 DEF PortTypes, APort, Owned, Serial!OwnedIsExclusive
  <1> HIDE DEF b
  <1>5. \A g \in Serial!Handles : (IsOpen(g)' <=> IsOpen(g)) /\ buses'[g].fd = buses[g].fd
            /\ buses'[g].board = buses[g].board /\ buses'[g].streams = buses[g].streams
            /\ (g # h => buses'[g] = buses[g])
    BY <1>1 DEF PortTypes, ABus, IsOpen
  <1>6. PortTypes'
    BY <1>1, <1>3 DEF PortTypes, ABus
  <1>7. Descriptors'
    BY <1>1, <1>3, <1>5 DEF Descriptors, IsOpen
  <1>8. Locks'
    <2>1. \A c \in Boards : port'[c].excl => port'[c].open # {}
      BY <1>2, <1>3 DEF Locks
    <2>2. \A g \in Serial!Handles :
            buses'[g].pc \in {"locked", "exclusive", "ready", "leaving"} =>
              buses[g].pc \in {"locked", "exclusive", "ready", "leaving"}
      BY <1>1, <1>5
    <2>3. \A g \in Serial!Handles :
            buses[g].pc \in {"locked", "exclusive", "ready", "leaving"} => buses[g].board \in Boards
      BY DEF Descriptors, IsOpen
    <2> QED
      BY <1>3, <1>5, <2>1, <2>2, <2>3 DEF Locks
  <1>9. Owned'
    <2>1. ~buses[h].streams
      BY <1>1 DEF Owned
    <2>2. \A g \in Serial!Handles : buses[g].pc \in {"exclusive", "ready"} => buses[g].board \in Boards
      BY DEF Descriptors, IsOpen
    <2>3. buses[h].board = b
      BY DEF b
    <2>4. Serial!OwnedIsExclusive'
      BY <1>3, <1>4, <1>5, <2>2, <2>3 DEF Owned, Serial!OwnedIsExclusive
    <2> QED
      BY <1>5, <2>1, <2>4 DEF Owned
  <1> QED
    BY <1>6, <1>7, <1>8, <1>9

(* A descriptor is closed: by the constructor that fails, by a crash, or last. *)
LEMMA ShutKeeps ==
  ASSUME PortsHeld, NEW h \in Serial!Handles, IsOpen(h),
         port' = [port EXCEPT ![buses[h].board] = Serial!Shut(@, buses[h].fd)],
         buses' = [buses EXCEPT ![h] = Serial!Closed], stream' = stream
  PROVE  PortsHeld'
  <1> USE DEF PortsHeld
  <1> DEFINE b == buses[h].board
             f == buses[h].fd
  <1>1. b \in Boards /\ f \in Serial!Fds /\ f \in port[b].open
    BY DEF Descriptors
  <1>2. None \notin Serial!Fds
    BY PortsAssumption DEF Serial!Fds
  <1>3. /\ port'[b].open = port[b].open \ {f}
        /\ port'[b].lock = IF port[b].lock = f THEN None ELSE port[b].lock
        /\ port'[b].excl = (port[b].excl /\ port[b].open \ {f} # {})
        /\ port'[b] \in APort
    BY <1>1 DEF PortTypes, APort, Serial!Shut
  <1>4. \A c \in Boards : c # b => port'[c] = port[c]
    BY DEF PortTypes
  <1>5. \A g \in Serial!Handles : buses'[g] = IF g = h THEN Serial!Closed ELSE buses[g]
    BY DEF PortTypes
  <1>6. Serial!Closed \in ABus /\ Serial!Closed.pc = "closed" /\ Serial!Closed.streams = FALSE
    BY DEF Serial!Closed, ABus
  <1>7. PortTypes'
    BY <1>3, <1>4, <1>6 DEF PortTypes
  <1>8. \A g \in Serial!Handles : IsOpen(g)' <=> IsOpen(g) /\ g # h
    BY <1>5, <1>6 DEF IsOpen
  <1> HIDE DEF b, f
  <1>9. \A g \in Serial!Handles : IsOpen(g) /\ g # h => buses[g].fd # f
    BY DEF Descriptors, f
  <1>10. \A c \in Boards : port'[c].open = port[c].open \ {f}
    <2>1. \A c \in Boards : c # b => f \notin port[c].open
      BY <1>1 DEF Descriptors, f, b
    <2> QED
      BY <1>3, <1>4, <2>1
  <1>11. Descriptors'
    <2>1. \A g \in Serial!Handles : ~IsOpen(g)' => buses'[g] = Serial!Closed
      BY <1>5, <1>8 DEF Descriptors
    <2>2. \A g \in Serial!Handles : IsOpen(g)' =>
            buses'[g].fd \in Serial!Fds /\ buses'[g].board \in Boards
            /\ buses'[g].fd \in port'[buses'[g].board].open
      BY <1>5, <1>8, <1>9, <1>10 DEF Descriptors
    <2>3. \A i, g \in Serial!Handles :
            IsOpen(i)' /\ IsOpen(g)' /\ buses'[i].fd = buses'[g].fd => i = g
      BY <1>5, <1>8 DEF Descriptors
    <2>4. ASSUME NEW c \in Boards, NEW x \in Serial!Fds, x \in port'[c].open
          PROVE  \E g \in Serial!Handles : IsOpen(g)' /\ buses'[g].fd = x /\ buses'[g].board = c
      <3>1. x \in port[c].open /\ x # f
        BY <1>10, <2>4
      <3>2. PICK g \in Serial!Handles : IsOpen(g) /\ buses[g].fd = x /\ buses[g].board = c
        BY <3>1 DEF Descriptors
      <3> QED
        BY <1>5, <1>8, <3>1, <3>2 DEF f
    <2> QED
      BY <2>1, <2>2, <2>3, <2>4 DEF Descriptors
  <1>12. Locks'
    <2>1. ASSUME NEW g \in Serial!Handles, buses'[g].pc \in {"locked", "exclusive", "ready", "leaving"}
          PROVE  port'[buses'[g].board].lock = buses'[g].fd
      <3>1. g # h /\ buses'[g] = buses[g]
        BY <1>5, <1>6, <2>1
      <3>2. IsOpen(g) /\ buses[g].fd # f /\ port[buses[g].board].lock = buses[g].fd
            /\ buses[g].board \in Boards
        BY <1>9, <2>1, <3>1 DEF Locks, Descriptors, IsOpen
      <3> QED
        BY <1>3, <1>4, <3>1, <3>2
    <2>2. \A c \in Boards : port'[c].lock # None => port'[c].lock \in port'[c].open
      BY <1>3, <1>4 DEF Locks
    <2>3. \A c \in Boards : port'[c].excl => port'[c].open # {}
      BY <1>3, <1>4 DEF Locks
    <2> QED
      BY <2>1, <2>2, <2>3 DEF Locks
  <1>13. Owned'
    <2>1. ASSUME NEW g \in Serial!Handles, buses'[g].pc \in {"exclusive", "ready"}
          PROVE  port'[buses'[g].board].excl
      <3>1. g # h /\ buses'[g] = buses[g]
        BY <1>5, <1>6, <2>1
      <3>2. buses[g].fd # f /\ port[buses[g].board].excl /\ buses[g].fd \in port[buses[g].board].open
            /\ buses[g].board \in Boards
        BY <1>9, <2>1, <3>1 DEF Owned, Serial!OwnedIsExclusive, Descriptors, IsOpen
      <3> QED
        BY <1>3, <1>4, <3>1, <3>2
    <2>2. \A g \in Serial!Handles :
            buses'[g].streams => buses'[g].pc = "ready" /\ stream'[buses'[g].board]
      BY <1>5, <1>6 DEF Owned
    <2> QED
      BY <2>1, <2>2 DEF Owned, Serial!OwnedIsExclusive
  <1> QED
    BY <1>7, <1>11, <1>12, <1>13

(* The mode is cleared by who has the lock; the board's stream may have been
   stopped before. *)
LEMMA ClearKeeps ==
  ASSUME PortsHeld, NEW h \in Serial!Handles, Serial!ClearExclusive(h), NEW s \in BOOLEAN,
         stream' = [stream EXCEPT ![buses[h].board] = @ /\ s] \/ stream' = stream
  PROVE  PortsHeld'
  <1> USE DEF PortsHeld
  <1> DEFINE b == buses[h].board
  <1>1. /\ buses[h].pc = "ready"
        /\ port' = [port EXCEPT ![b] = [port[b] EXCEPT !.excl = FALSE]]
        /\ buses' = [buses EXCEPT ![h] = [buses[h] EXCEPT !.pc = "leaving", !.streams = FALSE]]
    BY DEF Serial!ClearExclusive
  <1>2. b \in Boards /\ port[b].lock = buses[h].fd /\ buses[h].fd \in Serial!Fds
    BY <1>1 DEF Descriptors, Locks, IsOpen
  <1>3. \A c \in Boards : /\ port'[c] \in APort /\ port'[c].open = port[c].open
                          /\ port'[c].lock = port[c].lock
                          /\ (port'[c].excl => port[c].excl)
                          /\ (c # b => port'[c] = port[c])
    BY <1>1 DEF PortTypes, APort
  <1>4. \A g \in Serial!Handles : (IsOpen(g)' <=> IsOpen(g)) /\ buses'[g].fd = buses[g].fd
            /\ buses'[g].board = buses[g].board /\ (g # h => buses'[g] = buses[g])
    BY <1>1 DEF PortTypes, ABus, IsOpen
  <1>5. buses'[h].pc = "leaving" /\ buses'[h].streams = FALSE
    BY <1>1 DEF PortTypes, ABus
  <1>6. stream' \in [Boards -> BOOLEAN] /\ \A c \in Boards : c # b => stream'[c] = stream[c]
    BY DEF PortTypes
  <1>7. PortTypes'
    <2>1. buses' \in [Serial!Handles -> ABus]
      BY <1>1 DEF PortTypes, ABus
    <2>2. port' \in [Boards -> APort]
      BY <1>1, <1>3 DEF PortTypes
    <2> QED
      BY <1>6, <2>1, <2>2 DEF PortTypes
  <1> HIDE DEF b
  <1>8. Descriptors'
    BY <1>3, <1>4, <1>1 DEF Descriptors, IsOpen
  <1>9. Locks'
    <2>1. \A g \in Serial!Handles :
            buses'[g].pc \in {"locked", "exclusive", "ready", "leaving"} =>
              buses[g].pc \in {"locked", "exclusive", "ready", "leaving"}
      BY <1>1, <1>4
    <2>2. \A g \in Serial!Handles :
            buses[g].pc \in {"locked", "exclusive", "ready", "leaving"} => buses[g].board \in Boards
      BY DEF Descriptors, IsOpen
    <2> QED
      BY <1>3, <1>4, <2>1, <2>2 DEF Locks
  <1>10. ASSUME NEW g \in Serial!Handles, g # h, buses[g].pc \in {"exclusive", "ready"}
         PROVE  buses[g].board # b /\ buses[g].board \in Boards
    BY <1>1, <1>2, <1>10 DEF Locks, Descriptors, IsOpen
  <1>11. Owned'
    <2>1. ASSUME NEW g \in Serial!Handles, buses'[g].pc \in {"exclusive", "ready"}
          PROVE  port'[buses'[g].board].excl
      <3>1. g # h
        BY <1>5, <2>1
      <3> QED
        BY <1>3, <1>4, <1>10, <2>1, <3>1 DEF Owned, Serial!OwnedIsExclusive
    <2>2. ASSUME NEW g \in Serial!Handles, buses'[g].streams
          PROVE  buses'[g].pc = "ready" /\ stream'[buses'[g].board]
      <3>1. g # h
        BY <1>5, <2>2
      <3>2. buses[g].streams /\ buses[g].pc = "ready" /\ stream[buses[g].board]
        BY <1>4, <2>2, <3>1 DEF Owned
      <3> QED
        BY <1>4, <1>6, <1>10, <3>1, <3>2
    <2> QED
      BY <2>1, <2>2 DEF Owned, Serial!OwnedIsExclusive
  <1> QED
    BY <1>7, <1>8, <1>9, <1>11

(* No two handles are past the lock on one port. *)
LEMMA OneHolder ==
  ASSUME Descriptors, Locks, NEW g \in Serial!Handles, NEW h \in Serial!Handles,
         {buses[g].pc, buses[h].pc} \subseteq {"locked", "exclusive", "ready", "leaving"},
         buses[g].board = buses[h].board
  PROVE  g = h
  BY DEF Descriptors, Locks, IsOpen

(* A handle is moved. *)
LEMMA MoveKeeps ==
  ASSUME PortsHeld, NEW from \in Serial!Handles, NEW to \in Serial!Handles,
         Serial!GripperMoves(from, to)
  PROVE  PortsHeld'
  <1> USE DEF PortsHeld
  <1>1. /\ buses[from].pc = "ready" /\ buses[to].pc = "closed" /\ from # to
        /\ UNCHANGED <<port, stream>>
    BY DEF Serial!GripperMoves
  <1>2. Serial!Closed \in ABus /\ Serial!Closed.pc = "closed" /\ Serial!Closed.streams = FALSE
    BY DEF Serial!Closed, ABus
  <1>3. \A g \in Serial!Handles :
          buses'[g] = IF g = from THEN Serial!Closed ELSE IF g = to THEN buses[from] ELSE buses[g]
    BY <1>1 DEF Serial!GripperMoves, PortTypes
  <1>4. buses' \in [Serial!Handles -> ABus]
    BY <1>2 DEF Serial!GripperMoves, PortTypes
  <1>5. PortTypes'
    BY <1>1, <1>4 DEF PortTypes
  <1>6. IsOpen(from) /\ ~IsOpen(to) /\ ~IsOpen(from)' /\ IsOpen(to)'
        /\ \A g \in Serial!Handles \ {from, to} : IsOpen(g)' <=> IsOpen(g)
    BY <1>1, <1>2, <1>3 DEF IsOpen
  <1>7. Descriptors'
    <2>1. \A g \in Serial!Handles : ~IsOpen(g)' => buses'[g] = Serial!Closed
      BY <1>3, <1>6 DEF Descriptors
    <2>2. \A g \in Serial!Handles : IsOpen(g)' =>
            buses'[g].fd \in Serial!Fds /\ buses'[g].board \in Boards
            /\ buses'[g].fd \in port'[buses'[g].board].open
      BY <1>1, <1>3, <1>6 DEF Descriptors
    <2>3. \A i, g \in Serial!Handles :
            IsOpen(i)' /\ IsOpen(g)' /\ buses'[i].fd = buses'[g].fd => i = g
      BY <1>3, <1>6 DEF Descriptors
    <2>4. ASSUME NEW c \in Boards, NEW x \in Serial!Fds, x \in port'[c].open
          PROVE  \E g \in Serial!Handles : IsOpen(g)' /\ buses'[g].fd = x /\ buses'[g].board = c
      <3>1. PICK g \in Serial!Handles : IsOpen(g) /\ buses[g].fd = x /\ buses[g].board = c
        BY <1>1, <2>4 DEF Descriptors
      <3>2. CASE g = from
        BY <1>3, <1>1, <1>6, <3>1, <3>2
      <3>3. CASE g # from
        BY <1>3, <1>6, <3>1, <3>3
      <3> QED
        BY <3>2, <3>3
    <2> QED
      BY <2>1, <2>2, <2>3, <2>4 DEF Descriptors
  <1>8. Locks'
    BY <1>1, <1>2, <1>3 DEF Locks
  <1>9. Owned'
    BY <1>1, <1>2, <1>3 DEF Owned, Serial!OwnedIsExclusive
  <1> QED
    BY <1>5, <1>7, <1>8, <1>9

(* A gripper begins to stream. *)
LEMMA StreamKeeps ==
  ASSUME PortsHeld, NEW h \in Serial!Handles, Serial!GripperStreams(h)
  PROVE  PortsHeld'
  <1> USE DEF PortsHeld
  <1>1. /\ buses[h].pc = "ready" /\ port' = port
        /\ stream' = [stream EXCEPT ![buses[h].board] = TRUE]
        /\ buses' = [buses EXCEPT ![h] = [buses[h] EXCEPT !.streams = TRUE]]
    BY DEF Serial!GripperStreams
  <1>2. \A g \in Serial!Handles :
          /\ buses'[g].pc = buses[g].pc /\ buses'[g].fd = buses[g].fd
          /\ buses'[g].board = buses[g].board
          /\ (g # h => buses'[g] = buses[g])
    BY <1>1 DEF PortTypes, ABus
  <1>3. buses' \in [Serial!Handles -> ABus]
    BY <1>1 DEF PortTypes, ABus
  <1>4. stream' \in [Boards -> BOOLEAN] /\ \A b \in Boards : stream[b] => stream'[b]
    BY <1>1 DEF PortTypes
  <1>5. PortTypes'
    BY <1>1, <1>3, <1>4 DEF PortTypes
  <1>6. Descriptors' /\ Locks'
    BY <1>1, <1>2 DEF Descriptors, Locks, IsOpen
  <1>7. buses[h].board \in Boards /\ stream'[buses[h].board]
    BY <1>1 DEF Descriptors, IsOpen, PortTypes
  <1>8. \A g \in Serial!Handles : buses[g].streams => buses[g].board \in Boards
    BY DEF Owned, Descriptors, IsOpen
  <1>9. Owned'
    BY <1>1, <1>2, <1>4, <1>7, <1>8 DEF Owned, Serial!OwnedIsExclusive
  <1> QED
    BY <1>5, <1>6, <1>9

(* A program that knows nothing of the SDK opens a port or closes it. *)
LEMMA StrangerKeeps ==
  ASSUME PortsHeld, NEW s \in Strangers, Serial!StrangerOpens(s) \/ Serial!StrangerCloses(s)
  PROVE  PortsHeld'
  <1> USE DEF PortsHeld
  <1>1. UNCHANGED <<buses, stream>>
    BY DEF Serial!StrangerOpens, Serial!StrangerCloses
  <1>2. s \notin Serial!Fds /\ s # None
    BY PortsAssumption DEF Serial!Fds
  <1>3. PICK b \in Boards :
          \/ port' = [port EXCEPT ![b] = Serial!Opened(@, s)]
          \/ port' = [port EXCEPT ![b] = Serial!Shut(@, s)]
    BY DEF Serial!StrangerOpens, Serial!StrangerCloses
  <1>4. \A c \in Boards : /\ port'[c] \in APort
                          /\ port'[c].open \ {s} = port[c].open \ {s}
                          /\ port'[c].lock = port[c].lock
                          /\ port'[c].excl => port'[c].open # {} /\ port[c].excl
                          /\ port[c].excl /\ port[c].open \ {s} # {} => port'[c].excl
    <2> TAKE c \in Boards
    <2>1. port[c] \in APort /\ (port[c].excl => port[c].open # {}) /\ port[c].lock # s
      BY <1>2 DEF PortTypes, APort, Locks
    <2>2. CASE c # b
      <3>1. port'[c] = port[c]
        BY <1>3, <2>2 DEF PortTypes
      <3> QED
        BY <2>1, <3>1
    <2>3. CASE c = b /\ port' = [port EXCEPT ![b] = Serial!Opened(@, s)]
      <3>1. port'[c] = [port[c] EXCEPT !.open = @ \union {s}]
        BY <2>3 DEF PortTypes, Serial!Opened
      <3>2. port'[c] \in APort /\ port'[c].open = port[c].open \union {s}
            /\ port'[c].lock = port[c].lock /\ port'[c].excl = port[c].excl
        BY <2>1, <3>1 DEF APort, Holders
      <3> QED
        BY <2>1, <3>2
    <2>4. CASE c = b /\ port' = [port EXCEPT ![b] = Serial!Shut(@, s)]
      <3>1. port'[c] = Serial!Shut(port[c], s)
        BY <2>4 DEF PortTypes
      <3>2. /\ port'[c].open = port[c].open \ {s} /\ port'[c].lock = port[c].lock
            /\ port'[c].excl = (port[c].excl /\ port[c].open \ {s} # {})
            /\ port'[c] \in APort
        BY <2>1, <3>1 DEF APort, Serial!Shut
      <3> QED
        BY <2>1, <3>2
    <2> QED
      BY <1>3, <2>2, <2>3, <2>4
  <1>5. port' \in [Boards -> APort]
    <2>1. port' = [c \in Boards |-> port'[c]]
      BY <1>3 DEF PortTypes
    <2> QED
      BY <1>4, <2>1
  <1>6. PortTypes'
    BY <1>1, <1>5 DEF PortTypes
  <1>7. \A c \in Boards, f \in Serial!Fds : f \in port'[c].open <=> f \in port[c].open
    BY <1>2, <1>4
  <1>8. Descriptors'
    BY <1>1, <1>7 DEF Descriptors, IsOpen
  <1>9. Locks'
    <2>1. \A g \in Serial!Handles :
            buses[g].pc \in {"locked", "exclusive", "ready", "leaving"} => buses[g].board \in Boards
      BY DEF Descriptors, IsOpen
    <2>2. \A c \in Boards : port'[c].lock # None => port'[c].lock \in port'[c].open
      BY <1>2, <1>4, <1>7 DEF Locks, PortTypes, APort
    <2> QED
      BY <1>1, <1>4, <2>1, <2>2 DEF Locks
  <1>10. Owned'
    <2>1. ASSUME NEW g \in Serial!Handles, buses[g].pc \in {"exclusive", "ready"}
          PROVE  port'[buses[g].board].excl
      <3>1. buses[g].board \in Boards /\ port[buses[g].board].excl
            /\ buses[g].fd \in port[buses[g].board].open /\ buses[g].fd # s
        BY <1>2, <2>1 DEF Owned, Serial!OwnedIsExclusive, Descriptors, IsOpen
      <3> QED
        BY <1>4, <3>1
    <2> QED
      BY <1>1, <2>1 DEF Owned, Serial!OwnedIsExclusive
  <1> QED
    BY <1>6, <1>8, <1>9, <1>10

(* A constructor fails, before or after it has opened the device. *)
LEMMA FailKeeps ==
  ASSUME PortsHeld, NEW h \in Serial!Handles, NEW b, NEW error, Serial!ConstructorFails(h, b, error),
         stream' = stream
  PROVE  PortsHeld' /\ buses'[h] = Serial!Closed /\ \A g \in Serial!Handles \ {h} : buses'[g] = buses[g]
  <1> USE DEF PortsHeld
  <1>1. CASE buses[h].pc = "closed" /\ UNCHANGED <<port, buses>>
    <2>1. PortsHeld'
      BY <1>1 DEF PortTypes, Descriptors, Locks, Owned, Serial!OwnedIsExclusive, IsOpen
    <2>2. buses[h] = Serial!Closed
      BY <1>1 DEF Descriptors, IsOpen
    <2> QED
      BY <1>1, <2>1, <2>2
  <1>2. CASE buses[h].pc # "closed" /\ Serial!Dropped(h)
    <2>1. /\ port' = [port EXCEPT ![buses[h].board] = Serial!Shut(@, buses[h].fd)]
          /\ buses' = [buses EXCEPT ![h] = Serial!Closed]
      BY <1>2 DEF Serial!Dropped, Serial!ClosedOnly
    <2>2. PortsHeld'
      BY <1>2, <2>1, ShutKeeps DEF IsOpen
    <2> QED
      BY <2>1, <2>2 DEF PortTypes
  <1> QED
    BY <1>1, <1>2 DEF Serial!ConstructorFails

(* A scan has the port of the board it is at open from the end of the constructor
   to the close. *)
ScanRuns ==
  /\ scan = [board |-> scan.board, todo |-> scan.todo, step |-> scan.step,
             tries |-> scan.tries, sn |-> scan.sn, type |-> scan.type]
  /\ scan.todo \subseteq Boards
  /\ scan.step \in {"idle", "open", "stop", "type", "sn", "close"}
  /\ scan.step # "idle" => scan.board \in Boards
  /\ scan.step = "idle" => ~IsOpen(Scanner)
  /\ IsOpen(Scanner) => buses[Scanner].board = scan.board
  /\ ~buses[Scanner].streams
  /\ scan.step = "open" => buses[Scanner].pc \in {"closed", "opened", "locked", "exclusive"}
  /\ scan.step \in {"stop", "type", "sn"} => buses[Scanner].pc = "ready"
  /\ scan.step = "close" => buses[Scanner].pc \in {"ready", "leaving"}
  /\ \E S : found \in Seq(S)
  /\ pfaults \in Nat

PortsFollow == PortsHeld /\ ScanRuns

(* An endpoint is noted, at the end of a list. *)
LEMMA Appended ==
  ASSUME NEW S, NEW s \in Seq(S), NEW e
  PROVE  LET t == Append(s, e) IN
         (\E T : t \in Seq(T)) /\ Len(t) = Len(s) + 1 /\ t[Len(t)] = e
  <1> DEFINE T == S \union {e}
  <1>1. s \in Seq(T)
    OBVIOUS
  <1>2. e \in T
    OBVIOUS
  <1> HIDE DEF T
  <1>3. Append(s, e) \in Seq(T) /\ Len(Append(s, e)) = Len(s) + 1
        /\ Append(s, e)[Len(s) + 1] = e
    BY <1>1, <1>2
  <1> QED
    BY <1>3

(* After that a scan is done, or before the next board. *)
LEMMA NoteKeeps ==
  ASSUME ScanRuns, scan.step # "idle", NEW u \in BOOLEAN, Serial!Note(u),
         ~IsOpen(Scanner)', ~buses'[Scanner].streams, pfaults' \in Nat
  PROVE  /\ ScanRuns'
         /\ Len(found') = Len(found) + 1
         /\ found'[Len(found')].board = scan.board /\ found'[Len(found')].in_use = u
  <1> DEFINE e == [board |-> scan.board, side |-> Serial!SideOf(scan.sn, scan.type),
                   role |-> Serial!parse_serial(scan.sn).role, sn |-> scan.sn, in_use |-> u]
  <1>1. PICK S : found \in Seq(S)
    BY DEF ScanRuns
  <1>2. found' = Append(found, e)
    BY DEF Serial!Note
  <1>3. e.board = scan.board /\ e.in_use = u
    OBVIOUS
  <1> HIDE DEF e
  <1>4. (\E T : found' \in Seq(T)) /\ Len(found') = Len(found) + 1 /\ found'[Len(found')] = e
    BY <1>1, <1>2, Appended
  <1>5. scan' = Serial!Idle
        \/ \E b \in scan.todo :
             scan' = [board |-> b, todo |-> scan.todo \ {b}, step |-> "open", tries |-> 0,
                      sn |-> NoSn, type |-> None]
    BY DEF Serial!Note, Serial!Idle
  <1>6. ScanRuns'
    <2>1. CASE scan' = Serial!Idle
      BY <1>4, <2>1 DEF ScanRuns, Serial!Idle, IsOpen
    <2>2. CASE scan' # Serial!Idle
      <3>1. PICK b \in scan.todo :
              scan' = [board |-> b, todo |-> scan.todo \ {b}, step |-> "open", tries |-> 0,
                       sn |-> NoSn, type |-> None]
        BY <1>5, <2>2
      <3>2. scan'.board = b /\ scan'.todo = scan.todo \ {b} /\ scan'.step = "open"
            /\ scan'.tries = 0 /\ scan'.sn = NoSn /\ scan'.type = None
        BY <3>1
      <3> QED
        BY <1>4, <3>1, <3>2 DEF ScanRuns, IsOpen
    <2> QED
      BY <2>1, <2>2
  <1> QED
    BY <1>3, <1>4, <1>6

(* While a step leaves the scan and its handle alone, the scan runs as before and
   notes nothing. *)
LEMMA ScanRests ==
  ASSUME ScanRuns, UNCHANGED <<scan, found>>, buses'[Scanner] = buses[Scanner], pfaults' \in Nat
  PROVE  ScanRuns' /\ Serial!NotesInUse
  <1>1. Len(found) \in Nat
    BY DEF ScanRuns
  <1> QED
    BY <1>1 DEF ScanRuns, IsOpen, Serial!NotesInUse

(* What the handles of grippers do. *)
LEMMA GripperStep ==
  ASSUME PortsFollow, NEW h \in Grippers,
         \/ Serial!GripperOpens(h) \/ Serial!GripperSteps(h) \/ Serial!GripperFails(h)
         \/ Serial!GripperStreams(h) \/ Serial!GripperCloses(h) \/ Serial!GripperCrashes(h)
  PROVE  PortsFollow' /\ Serial!NotesInUse
  <1> USE DEF PortsFollow
  <1>0. h \in Serial!Handles /\ Scanner \in Serial!Handles /\ Scanner # h
    BY PortsAssumption DEF Serial!Handles
  <1>1. UNCHANGED <<scan, found>>
    BY DEF Serial!GripperOpens, Serial!GripperSteps, Serial!GripperFails, Serial!GripperStreams,
           Serial!GripperCloses, Serial!GripperCrashes
  <1>2. pfaults' \in Nat
    <2>1. pfaults' \in {pfaults, pfaults + 1}
      BY DEF Serial!GripperOpens, Serial!GripperSteps, Serial!GripperFails, Serial!GripperStreams,
             Serial!GripperCloses, Serial!GripperCrashes, Serial!ConstructorFails, Serial!Fault
    <2> QED
      BY <2>1 DEF ScanRuns
  <1>3. ASSUME PortsHeld', \A g \in Serial!Handles \ {h} : buses'[g] = buses[g]
        PROVE  PortsFollow' /\ Serial!NotesInUse
    BY <1>0, <1>1, <1>2, <1>3, ScanRests
  <1>4. CASE Serial!GripperOpens(h)
    <2>1. PICK b \in Boards : Serial!OpenDevice(h, b) /\ stream' = stream
      BY <1>4 DEF Serial!GripperOpens
    <2>2. PortsHeld'
      BY <1>0, <2>1, OpenKeeps
    <2>3. \A g \in Serial!Handles \ {h} : buses'[g] = buses[g]
      BY <2>1 DEF Serial!OpenDevice, PortsHeld, PortTypes
    <2> QED
      BY <1>3, <2>2, <2>3
  <1>5. CASE Serial!GripperSteps(h)
    <2>1. stream' = stream
      BY <1>5 DEF Serial!GripperSteps
    <2>2. CASE Serial!Flock(h)
      <3>1. PortsHeld'
        BY <1>0, <2>1, <2>2, FlockKeeps
      <3>2. \A g \in Serial!Handles \ {h} : buses'[g] = buses[g]
        BY <2>2 DEF Serial!Flock, PortsHeld, PortTypes
      <3> QED
        BY <1>3, <3>1, <3>2
    <2>3. CASE Serial!SetExclusive(h) \/ Serial!apply_termios_(h)
      <3>1. PortsHeld'
        BY <1>0, <2>1, <2>3, SetKeeps
      <3>2. \A g \in Serial!Handles \ {h} : buses'[g] = buses[g]
        BY <2>3 DEF Serial!SetExclusive, Serial!apply_termios_, PortsHeld, PortTypes
      <3> QED
        BY <1>3, <3>1, <3>2
    <2>4. CASE Serial!CloseDescriptor(h)
      <3>1. PortsHeld'
        BY <1>0, <2>1, <2>4, ShutKeeps DEF Serial!CloseDescriptor, IsOpen
      <3>2. \A g \in Serial!Handles \ {h} : buses'[g] = buses[g]
        BY <2>4 DEF Serial!CloseDescriptor, PortsHeld, PortTypes
      <3> QED
        BY <1>3, <3>1, <3>2
    <2> QED
      BY <1>5, <2>2, <2>3, <2>4 DEF Serial!GripperSteps, Serial!ConstructorStep
  <1>6. CASE Serial!GripperFails(h)
    <2>1. PICK b, error : Serial!ConstructorFails(h, b, error)
      BY <1>6 DEF Serial!GripperFails
    <2>2. stream' = stream
      BY <1>6 DEF Serial!GripperFails
    <2> QED
      BY <1>0, <1>3, <2>1, <2>2, FailKeeps
  <1>7. CASE Serial!GripperStreams(h)
    <2>1. PortsHeld'
      BY <1>0, <1>7, StreamKeeps
    <2>2. \A g \in Serial!Handles \ {h} : buses'[g] = buses[g]
      BY <1>7 DEF Serial!GripperStreams, PortsHeld, PortTypes
    <2> QED
      BY <1>3, <2>1, <2>2
  <1>8. CASE Serial!GripperCloses(h)
    <2>1. PICK s \in BOOLEAN : stream' = [stream EXCEPT ![buses[h].board] = @ /\ s]
      BY <1>8 DEF Serial!GripperCloses
    <2>2. Serial!ClearExclusive(h)
      BY <1>8 DEF Serial!GripperCloses
    <2>3. PortsHeld'
      BY <1>0, <2>1, <2>2, ClearKeeps
    <2>4. \A g \in Serial!Handles \ {h} : buses'[g] = buses[g]
      BY <2>2 DEF Serial!ClearExclusive, PortsHeld, PortTypes
    <2> QED
      BY <1>3, <2>3, <2>4
  <1>9. CASE Serial!GripperCrashes(h)
    <2>1. IsOpen(h) /\ stream' = stream
          /\ port' = [port EXCEPT ![buses[h].board] = Serial!Shut(@, buses[h].fd)]
          /\ buses' = [buses EXCEPT ![h] = Serial!Closed]
      BY <1>9 DEF Serial!GripperCrashes, Serial!Dropped, Serial!ClosedOnly, IsOpen
    <2>2. PortsHeld'
      BY <1>0, <2>1, ShutKeeps
    <2>3. \A g \in Serial!Handles \ {h} : buses'[g] = buses[g]
      BY <2>1 DEF PortsHeld, PortTypes
    <2> QED
      BY <1>3, <2>2, <2>3
  <1> QED
    BY <1>4, <1>5, <1>6, <1>7, <1>8, <1>9

(* A scan opens a board's port. *)
LEMMA ScanOpensKeeps ==
  ASSUME PortsFollow, Serial!ScanOpens
  PROVE  PortsFollow' /\ Serial!NotesInUse
  <1> USE DEF PortsFollow
  <1>0. Scanner \in Serial!Handles
    BY DEF Serial!Handles
  <1>1. scan.step = "open" /\ scan.board \in Boards /\ UNCHANGED <<stream, found, pfaults>>
    BY DEF Serial!ScanOpens, ScanRuns
  <1>2. Serial!NotesInUse
    BY <1>1, Appended DEF ScanRuns, Serial!NotesInUse
  <1>3. CASE Serial!OpenDevice(Scanner, scan.board) /\ UNCHANGED scan
    <2>1. PortsHeld'
      BY <1>0, <1>1, <1>3, OpenKeeps
    <2>2. buses'[Scanner].pc = "opened" /\ buses'[Scanner].board = scan.board
          /\ ~buses'[Scanner].streams
      BY <1>0, <1>3 DEF Serial!OpenDevice, Serial!Closed, PortsHeld, PortTypes
    <2>3. ScanRuns'
      BY <1>1, <1>3, <2>2 DEF ScanRuns, IsOpen
    <2> QED
      BY <1>2, <2>1, <2>3
  <1>4. CASE Serial!Flock(Scanner) /\ UNCHANGED scan
    <2>1. PortsHeld'
      BY <1>0, <1>1, <1>4, FlockKeeps
    <2>2. buses'[Scanner].pc = "locked" /\ buses'[Scanner].board = buses[Scanner].board
          /\ (buses'[Scanner].streams => buses[Scanner].streams)
          /\ IsOpen(Scanner)
      BY <1>0, <1>4 DEF Serial!Flock, PortsHeld, PortTypes, ABus, IsOpen
    <2>3. ScanRuns'
      BY <1>1, <1>4, <2>2 DEF ScanRuns, IsOpen
    <2> QED
      BY <1>2, <2>1, <2>3
  <1>5. CASE Serial!SetExclusive(Scanner) /\ UNCHANGED scan
    <2>1. PortsHeld'
      BY <1>0, <1>1, <1>5, SetKeeps
    <2>2. buses'[Scanner].pc = "exclusive" /\ buses'[Scanner].board = buses[Scanner].board
          /\ (buses'[Scanner].streams => buses[Scanner].streams)
          /\ IsOpen(Scanner)
      BY <1>0, <1>5 DEF Serial!SetExclusive, PortsHeld, PortTypes, ABus, IsOpen
    <2>3. ScanRuns'
      BY <1>1, <1>5, <2>2 DEF ScanRuns, IsOpen
    <2> QED
      BY <1>2, <2>1, <2>3
  <1>6. CASE Serial!apply_termios_(Scanner) /\ scan' = [scan EXCEPT !.step = "stop"]
    <2>1. PortsHeld'
      BY <1>0, <1>1, <1>6, SetKeeps
    <2>2. buses'[Scanner].pc = "ready" /\ buses'[Scanner].board = buses[Scanner].board
          /\ (buses'[Scanner].streams => buses[Scanner].streams)
          /\ IsOpen(Scanner)
      BY <1>0, <1>6 DEF Serial!apply_termios_, PortsHeld, PortTypes, ABus, IsOpen
    <2>3. scan'.board = scan.board /\ scan'.todo = scan.todo /\ scan'.step = "stop"
          /\ scan' = [board |-> scan'.board, todo |-> scan'.todo, step |-> scan'.step,
                      tries |-> scan'.tries, sn |-> scan'.sn, type |-> scan'.type]
      BY <1>6 DEF ScanRuns
    <2>4. ScanRuns'
      BY <1>1, <2>2, <2>3 DEF ScanRuns, IsOpen
    <2> QED
      BY <1>2, <2>1, <2>4
  <1> QED
    BY <1>3, <1>4, <1>5, <1>6 DEF Serial!ScanOpens

(* It cannot, and notes a board as in use if and only if somebody has it. *)
LEMMA ScanRefusedKeeps ==
  ASSUME PortsFollow, Serial!ScanRefused
  PROVE  PortsFollow' /\ Serial!NotesInUse
  <1> USE DEF PortsFollow
  <1>0. Scanner \in Serial!Handles
    BY DEF Serial!Handles
  <1>1. scan.step = "open" /\ scan.board \in Boards /\ stream' = stream
    BY DEF Serial!ScanRefused, ScanRuns
  <1>2. PICK error : Serial!ConstructorFails(Scanner, scan.board, error)
                     /\ Serial!Note(error = "EBUSY")
    BY DEF Serial!ScanRefused
  <1>3. PortsHeld' /\ ~IsOpen(Scanner)' /\ ~buses'[Scanner].streams
    BY <1>0, <1>1, <1>2, FailKeeps DEF IsOpen, Serial!Closed
  <1>4. pfaults \in Nat /\ pfaults' \in {pfaults, pfaults + 1}
    BY <1>2 DEF ScanRuns, Serial!ConstructorFails, Serial!Fault
  <1> DEFINE u == error = "EBUSY"
  <1>5. /\ ScanRuns'
        /\ found'[Len(found')].board = scan.board
        /\ found'[Len(found')].in_use = u
    <2>1. u \in BOOLEAN /\ Serial!Note(u) /\ scan.step # "idle" /\ pfaults' \in Nat
      BY <1>1, <1>2, <1>4
    <2> HIDE DEF u
    <2> QED
      BY <1>3, <2>1, NoteKeeps
  <1>6. error # "EBUSY" => pfaults' > pfaults
    BY <1>2, <1>4 DEF Serial!ConstructorFails, Serial!LockedError, Serial!Fault
  <1>7. error = "EBUSY" => port[scan.board].open \ {buses[Scanner].fd} # {}
    <2> SUFFICES ASSUME error = "EBUSY" PROVE port[scan.board].open \ {buses[Scanner].fd} # {}
      OBVIOUS
    <2>1. None \notin Holders
      BY PortsAssumption DEF Holders, Serial!Fds
    <2>2. CASE buses[Scanner].pc = "closed"
      <3>1. port[scan.board].excl
        BY <1>2, <2>2 DEF Serial!ConstructorFails, Serial!Admits
      <3>2. buses[Scanner].fd = None
        BY <1>0, <2>2 DEF PortsHeld, Descriptors, IsOpen, Serial!Closed
      <3> QED
        BY <1>1, <2>1, <3>1, <3>2 DEF PortsHeld, Locks, PortTypes, APort
    <2>3. CASE buses[Scanner].pc # "closed"
      <3>1. ~Serial!LockFree(port[scan.board], buses[Scanner].fd)
        BY <1>2, <2>3 DEF Serial!ConstructorFails
      <3> QED
        BY <1>1, <3>1 DEF Serial!LockFree, PortsHeld, Locks
    <2> QED
      BY <2>2, <2>3
  <1>8. Serial!NotesInUse
    BY <1>5, <1>6, <1>7 DEF Serial!NotesInUse
  <1> QED
    BY <1>3, <1>5, <1>8

(* It asks and stops nobody's stream but one left running, and closes the port
   again. *)
LEMMA ScanGoesKeeps ==
  ASSUME PortsFollow,
         \/ Serial!BeginScan \/ Serial!ScanStops \/ Serial!ScanAsksType \/ Serial!ScanAsksSerial
         \/ Serial!ScanCloses \/ Serial!ScanReturns
  PROVE  PortsFollow' /\ Serial!NotesInUse
  <1> USE DEF PortsFollow
  <1>0. Scanner \in Serial!Handles
    BY DEF Serial!Handles
  <1>1. ASSUME UNCHANGED found PROVE Serial!NotesInUse
    BY <1>1, Appended DEF ScanRuns, Serial!NotesInUse
  <1>2. ASSUME UNCHANGED <<port, buses, stream>> PROVE PortsHeld'
    BY <1>2 DEF PortsHeld, PortTypes, Descriptors, Locks, Owned, Serial!OwnedIsExclusive, IsOpen
  <1>3. CASE Serial!BeginScan
    <2>1. UNCHANGED <<port, buses, stream, found, pfaults>> /\ scan.step = "idle"
      BY <1>3 DEF Serial!BeginScan, Serial!Idle
    <2>2. PICK b \in Boards : scan' = [Serial!Idle EXCEPT !.todo = Boards \ {b}, !.board = b, !.step = "open"]
      BY <1>3 DEF Serial!BeginScan
    <2>3. /\ scan'.board = b /\ scan'.todo = Boards \ {b} /\ scan'.step = "open"
          /\ scan' = [board |-> scan'.board, todo |-> scan'.todo, step |-> scan'.step,
                      tries |-> scan'.tries, sn |-> scan'.sn, type |-> scan'.type]
      BY <2>2 DEF Serial!Idle
    <2>4. ScanRuns'
      BY <2>1, <2>3 DEF ScanRuns, IsOpen
    <2> QED
      BY <1>1, <1>2, <2>1, <2>4
  <1>4. CASE Serial!ScanStops
    <2>1. /\ UNCHANGED <<port, buses, found, pfaults>> /\ scan.step = "stop"
          /\ scan' = [scan EXCEPT !.step = "type"]
      BY <1>4 DEF Serial!ScanStops
    <2>2. PICK s \in BOOLEAN : stream' = [stream EXCEPT ![scan.board] = @ /\ s]
      BY <1>4 DEF Serial!ScanStops
    <2>3. scan'.board = scan.board /\ scan'.todo = scan.todo /\ scan'.step = "type"
          /\ scan' = [board |-> scan'.board, todo |-> scan'.todo, step |-> scan'.step,
                      tries |-> scan'.tries, sn |-> scan'.sn, type |-> scan'.type]
      BY <2>1 DEF ScanRuns
    <2>4. ScanRuns'
      BY <2>1, <2>3 DEF ScanRuns, IsOpen
    <2>5. buses[Scanner].pc = "ready" /\ buses[Scanner].board = scan.board
      BY <2>1 DEF ScanRuns, IsOpen
    <2>6. ASSUME NEW g \in Serial!Handles, buses[g].streams
          PROVE  buses[g].pc = "ready" /\ stream'[buses[g].board]
      <3>1. buses[g].pc = "ready" /\ stream[buses[g].board]
        BY <2>6 DEF PortsHeld, Owned
      <3>2. ASSUME buses[g].board = scan.board PROVE g = Scanner
        BY <1>0, <2>5, <3>1, <3>2, OneHolder DEF PortsHeld
      <3>3. ~buses[Scanner].streams
        BY DEF ScanRuns
      <3> QED
        BY <2>2, <2>6, <3>1, <3>2, <3>3 DEF PortsHeld, PortTypes
    <2>7. PortTypes'
      BY <2>1, <2>2 DEF PortsHeld, PortTypes
    <2>8. Descriptors' /\ Locks'
      BY <2>1 DEF PortsHeld, Descriptors, Locks, IsOpen
    <2>9. Owned'
      BY <2>1, <2>6 DEF PortsHeld, Owned, Serial!OwnedIsExclusive
    <2>10. PortsHeld'
      BY <2>7, <2>8, <2>9 DEF PortsHeld
    <2> QED
      BY <1>1, <2>1, <2>4, <2>10
  <1>5. CASE Serial!ScanAsksType
    <2>1. UNCHANGED <<port, buses, stream, found, pfaults>> /\ scan.step = "type"
      BY <1>5 DEF Serial!ScanAsksType
    <2>2. PICK t : scan' = [scan EXCEPT !.step = "sn", !.type = t]
      BY <1>5 DEF Serial!ScanAsksType
    <2>3. scan'.board = scan.board /\ scan'.todo = scan.todo /\ scan'.step = "sn"
          /\ scan' = [board |-> scan'.board, todo |-> scan'.todo, step |-> scan'.step,
                      tries |-> scan'.tries, sn |-> scan'.sn, type |-> scan'.type]
      BY <2>2 DEF ScanRuns
    <2>4. ScanRuns'
      BY <2>1, <2>3 DEF ScanRuns, IsOpen
    <2> QED
      BY <1>1, <1>2, <2>1, <2>4
  <1>6. CASE Serial!ScanAsksSerial
    <2>1. UNCHANGED <<port, buses, stream, found, pfaults>> /\ scan.step = "sn"
      BY <1>6 DEF Serial!ScanAsksSerial
    <2>2. PICK sn :
            scan' = [scan EXCEPT !.sn = sn, !.tries = @ + 1,
                                 !.step = IF sn # NoSn \/ scan.tries = 2 THEN "close" ELSE "sn"]
      BY <1>6, Zenon DEF Serial!ScanAsksSerial
    <2>3. scan'.board = scan.board /\ scan'.todo = scan.todo /\ scan'.step \in {"close", "sn"}
          /\ scan' = [board |-> scan'.board, todo |-> scan'.todo, step |-> scan'.step,
                      tries |-> scan'.tries, sn |-> scan'.sn, type |-> scan'.type]
      BY <2>2 DEF ScanRuns
    <2>4. ScanRuns'
      BY <2>1, <2>3 DEF ScanRuns, IsOpen
    <2> QED
      BY <1>1, <1>2, <2>1, <2>4
  <1>7. CASE Serial!ScanCloses
    <2>1. scan.step = "close" /\ scan.board \in Boards /\ UNCHANGED <<stream, pfaults>>
      BY <1>7 DEF Serial!ScanCloses, ScanRuns
    <2>2. CASE Serial!ClearExclusive(Scanner) /\ UNCHANGED <<scan, found>>
      <3>1. PortsHeld'
        BY <1>0, <2>1, <2>2, ClearKeeps
      <3>2. buses'[Scanner].pc = "leaving" /\ buses'[Scanner].board = buses[Scanner].board
            /\ (buses'[Scanner].streams => buses[Scanner].streams)
            /\ IsOpen(Scanner)
        BY <1>0, <2>2 DEF Serial!ClearExclusive, PortsHeld, PortTypes, ABus, IsOpen
      <3>3. ScanRuns'
        BY <2>1, <2>2, <3>2 DEF ScanRuns, IsOpen
      <3> QED
        BY <1>1, <2>2, <3>1, <3>3
    <2>3. CASE Serial!CloseDescriptor(Scanner) /\ Serial!Note(FALSE)
      <3>1. PortsHeld'
        BY <1>0, <2>1, <2>3, ShutKeeps DEF Serial!CloseDescriptor, IsOpen
      <3>2. ~IsOpen(Scanner)' /\ ~buses'[Scanner].streams
        BY <1>0, <2>3 DEF Serial!CloseDescriptor, Serial!Closed, PortsHeld, PortTypes, IsOpen
      <3>3. pfaults' \in Nat
        BY <2>1 DEF ScanRuns
      <3>4. /\ ScanRuns' /\ found'[Len(found')].board = scan.board
            /\ found'[Len(found')].in_use = FALSE
        BY <2>1, <2>3, <3>2, <3>3, NoteKeeps
      <3>5. buses[Scanner].pc = "leaving" /\ buses[Scanner].board = scan.board
        BY <2>3 DEF Serial!CloseDescriptor, ScanRuns, IsOpen
      <3>6. ASSUME NEW h \in Grippers, buses[h].pc = "ready", buses[h].board = scan.board
            PROVE  FALSE
        BY <1>0, <3>5, <3>6, OneHolder, PortsAssumption DEF PortsHeld, Serial!Handles
      <3>7. Serial!NotesInUse
        BY <3>4, <3>6 DEF Serial!NotesInUse
      <3> QED
        BY <3>1, <3>4, <3>7
    <2> QED
      BY <1>7, <2>2, <2>3 DEF Serial!ScanCloses
  <1>8. CASE Serial!ScanReturns
    <2>1. UNCHANGED <<port, buses, stream, scan, pfaults>> /\ found' = <<>>
      BY <1>8 DEF Serial!ScanReturns
    <2>2. <<>> \in Seq({}) /\ Len(<<>>) = 0
      OBVIOUS
    <2>3. ScanRuns'
      BY <2>1, <2>2 DEF ScanRuns, IsOpen
    <2>4. Len(found) \in Nat
      BY DEF ScanRuns
    <2>5. Serial!NotesInUse
      BY <2>1, <2>2, <2>4 DEF Serial!NotesInUse
    <2> QED
      BY <1>2, <2>1, <2>3, <2>5
  <1> QED
    BY <1>3, <1>4, <1>5, <1>6, <1>7, <1>8
(* What handles, scans and strangers do. *)
LEMMA PortsStep ==
  ASSUME PortsFollow, Serial!Next
  PROVE  PortsFollow' /\ Serial!NotesInUse
  <1> USE DEF PortsFollow
  <1>1. CASE \E s \in Strangers : Serial!StrangerOpens(s) \/ Serial!StrangerCloses(s)
    <2>1. PICK s \in Strangers : Serial!StrangerOpens(s) \/ Serial!StrangerCloses(s)
      BY <1>1
    <2>2. PortsHeld'
      BY <2>1, StrangerKeeps
    <2>3. UNCHANGED <<scan, found, buses, pfaults>>
      BY <2>1 DEF Serial!StrangerOpens, Serial!StrangerCloses
    <2>4. pfaults' \in Nat
      BY <2>3 DEF ScanRuns
    <2> QED
      BY <2>2, <2>3, <2>4, ScanRests
  <1>2. CASE \E h \in Grippers :
               \/ Serial!GripperOpens(h) \/ Serial!GripperSteps(h) \/ Serial!GripperFails(h)
               \/ Serial!GripperStreams(h) \/ Serial!GripperCloses(h) \/ Serial!GripperCrashes(h)
    BY <1>2, GripperStep
  <1>3. CASE \E from, to \in Grippers : Serial!GripperMoves(from, to)
    <2>1. PICK from \in Grippers, to \in Grippers : Serial!GripperMoves(from, to)
      BY <1>3
    <2>2. /\ from \in Serial!Handles /\ to \in Serial!Handles /\ Scanner \in Serial!Handles
          /\ Scanner # from /\ Scanner # to
      BY PortsAssumption DEF Serial!Handles
    <2>3. PortsHeld'
      BY <2>1, <2>2, MoveKeeps
    <2>4. UNCHANGED <<scan, found, pfaults>> /\ buses'[Scanner] = buses[Scanner]
      BY <2>1, <2>2 DEF Serial!GripperMoves, PortsHeld, PortTypes
    <2>5. pfaults' \in Nat
      BY <2>4 DEF ScanRuns
    <2> QED
      BY <2>3, <2>4, <2>5, ScanRests
  <1> QED
    BY <1>1, <1>2, <1>3, ScanOpensKeeps, ScanRefusedKeeps, ScanGoesKeeps DEF Serial!Next

(* At first everything is closed. *)
LEMMA PortsInit ==
  ASSUME Serial!Init
  PROVE  PortsFollow
  <1>1. /\ port = [b \in Boards |-> [open |-> {}, lock |-> None, excl |-> FALSE]]
        /\ buses = [h \in Serial!Handles |-> Serial!Closed]
        /\ stream = [b \in Boards |-> FALSE]
        /\ scan = Serial!Idle /\ found = <<>> /\ pfaults = 0
    BY DEF Serial!Init
  <1>2. Scanner \in Serial!Handles
    BY DEF Serial!Handles
  <1>3. Serial!Closed \in ABus /\ Serial!Closed.pc = "closed" /\ Serial!Closed.streams = FALSE
    BY DEF Serial!Closed, ABus
  <1>4. [open |-> {}, lock |-> None, excl |-> FALSE] \in APort
    BY DEF APort
  <1>5. \A b \in Boards : port[b] = [open |-> {}, lock |-> None, excl |-> FALSE]
    BY <1>1
  <1>6. \A h \in Serial!Handles : buses[h] = Serial!Closed
    BY <1>1
  <1>7. PortTypes
    BY <1>1, <1>3, <1>4 DEF PortTypes
  <1>8. Descriptors /\ Locks /\ Owned
    BY <1>3, <1>5, <1>6 DEF Descriptors, Locks, Owned, Serial!OwnedIsExclusive, IsOpen
  <1>9. found \in Seq({})
    BY <1>1
  <1>10. ScanRuns
    BY <1>1, <1>2, <1>3, <1>6, <1>9 DEF ScanRuns, Serial!Idle, IsOpen
  <1> QED
    BY <1>7, <1>8, <1>10 DEF PortsFollow, PortsHeld

(* The ports, for any boards, handles, programs and firmware: no scan and no other
   handle stops a gripper's stream or takes its exclusive mode back; a board noted
   as in use is open to somebody, and one with a gripper ready on it is not noted as
   free (serial_bus.cpp:85, discovery.cpp:78). *)
THEOREM PortsAreOwnedHolds == Spec => PortsAreOwned
  <1> DEFINE Follows == part = "ports" => PortsFollow
             Notes == part = "ports" => Serial!NotesInUse
             Survives == part = "ports" => Serial!StreamSurvivesScans /\ Serial!OwnedIsExclusive
  <1>1. Init => Follows
    BY PortsInit DEF Init
  <1>2. Follows /\ [Next]_vars => Follows' /\ (Next => Notes)
    <2> SUFFICES ASSUME Follows, [Next]_vars PROVE Follows' /\ (Next => Notes)
      OBVIOUS
    <2>1. CASE part = "ports" /\ Serial!Next
      BY <2>1, PortsStep
    <2>2. CASE UNCHANGED <<part, portVars>>
      <3>1. UNCHANGED <<part, port, buses, stream, scan, found, pfaults>>
        BY <2>2 DEF portVars
      <3>2. Follows'
        BY <3>1 DEF PortsFollow, PortsHeld, PortTypes, Descriptors, Locks, Owned,
                    Serial!OwnedIsExclusive, IsOpen, ScanRuns
      <3>3. Notes
        BY <3>1, Appended DEF PortsFollow, ScanRuns, Serial!NotesInUse
      <3> QED
        BY <3>2, <3>3
    <2> QED
      BY <2>1, <2>2 DEF Next, OfMcu, OfMotor, vars
  <1>3. Follows => Survives
    BY DEF PortsFollow, PortsHeld, Owned, Serial!StreamSurvivesScans, Serial!Handles
  <1>4. Follows /\ [Next]_vars => [Notes]_vars
    BY <1>2
  <1> QED
    BY <1>1, <1>2, <1>3, <1>4, PTL DEF Spec, PortsAreOwned

-----------------------------------------------------------------------------
(* The components' requests (Requests). *)

(* read_fisheye is told an error by its code, and takes some answer. *)
LEMMA FisheyeRow ==
  LET row == Table["read_fisheye"] IN
  /\ "read_fisheye" \in DOMAIN Table
  /\ row.does = "reads" /\ row.errors = "code"
  /\ \E len \in Lengths : len \in row.takes
  <1>1. CalibrationRequests \in Tables /\ "read_fisheye" \in DOMAIN CalibrationRequests
    BY DEF Tables, CalibrationRequests
  <1>2. \A t \in Tables : "read_fisheye" \in DOMAIN t => t = CalibrationRequests
    <2> SUFFICES ASSUME NEW t \in Tables, t # CalibrationRequests
                 PROVE  "read_fisheye" \notin DOMAIN t
      OBVIOUS
    <2>1. t \in {DeviceRequests, DiagnosticsRequests, EncoderRead, EncoderZero, LedRequests,
                 MotorSettings, MotorLimits}
            => "read_fisheye" \notin DOMAIN t
      BY DEF DeviceRequests, DiagnosticsRequests, EncoderRead, EncoderZero, LedRequests,
             MotorSettings, MotorLimits
    <2>2. t \in {MotorCommands, MotorStatusRequests, MotorModelRequests, MotorVersionRequests,
                 MotorRelayRequests}
            => "read_fisheye" \notin DOMAIN t
      BY DEF MotorCommands, MotorStatusRequests, MotorModelRequests, MotorVersionRequests,
             MotorRelayRequests
    <2> QED
      BY <2>1, <2>2, Zenon DEF Tables
  <1>3. (CHOOSE t \in Tables : "read_fisheye" \in DOMAIN t) = CalibrationRequests
    BY <1>1, <1>2
  <1>4. "read_fisheye" \in DOMAIN Table
        /\ Table["read_fisheye"] = CalibrationRequests["read_fisheye"]
    BY <1>1, <1>3 DEF Table
  <1>5. CalibrationRequests["read_fisheye"] = Read("fisheye", Body(CameraFisheyeCal), "code")
    BY DEF CalibrationRequests
  <1>6. 33 \in Body(CameraFisheyeCal) /\ 33 \in Lengths
    <2>1. Size(CameraFisheyeCal) = 32
      <3>1. <<CameraFisheyeCal, 32>> \in Pinned
        BY Zenon DEF Pinned
      <3> QED
        BY <3>1, SizesArePinned
    <2> QED
      BY <2>1 DEF Body, Lengths, cal_read_body
  <1> QED
    BY <1>4, <1>5, <1>6 DEF Read, Row

(* A call under way is at one of its requests, and has no result yet. *)
RequestTypes ==
  /\ flash \in Values \union {Unset, Blank}
  /\ call.step \in Nat
  /\ call = [method |-> call.method, arg |-> call.arg, step |-> call.step]
  /\ call.step # 0 =>
       /\ call.method \in Components!Calls /\ call.arg \in Values
       /\ call.step \in DOMAIN Components!StepsOf(call.method)
  /\ call = Components!Idle \/ call.step # 0 => result = Components!Nothing

RequestsFollow ==
  /\ RequestTypes
  /\ Components!VerifiedIsStored
  /\ Components!FallbackIsNeeded
  /\ Components!RefusalsAreTold

(* No call is named as the idle state is. *)
LEMMA NoneIsNoCall == "none" \notin Components!Calls
  <1>1. \A t \in Tables : "none" \notin DOMAIN t
    <2> SUFFICES ASSUME NEW t \in Tables PROVE "none" \notin DOMAIN t
      OBVIOUS
    <2>1. t \in {DeviceRequests, CalibrationRequests, DiagnosticsRequests, EncoderRead,
                 EncoderZero, LedRequests, MotorSettings, MotorLimits}
            => "none" \notin DOMAIN t
      BY DEF DeviceRequests, CalibrationRequests, DiagnosticsRequests, EncoderRead, EncoderZero,
             LedRequests, MotorSettings, MotorLimits
    <2>2. t \in {MotorCommands, MotorStatusRequests, MotorModelRequests, MotorVersionRequests,
                 MotorRelayRequests}
            => "none" \notin DOMAIN t
      BY DEF MotorCommands, MotorStatusRequests, MotorModelRequests, MotorVersionRequests,
             MotorRelayRequests
    <2> QED
      BY <2>1, <2>2, Zenon DEF Tables
  <1>2. "none" \notin DOMAIN Table
    BY <1>1 DEF Table
  <1> QED
    BY <1>2 DEF Components!Calls, Components!Requests, Composed

(* A call has at least one request. *)
LEMMA StepsAre ==
  ASSUME NEW m \in Components!Calls
  PROVE  LET steps == Components!StepsOf(m) IN
         Len(steps) \in Nat \ {0} /\ DOMAIN steps = 1 .. Len(steps)
  <1>1. CASE m \in DOMAIN Composed
    <2>1. Components!StepsOf(m) = Composed[m]
      BY <1>1 DEF Components!StepsOf
    <2>2. m \in {"set_sn", "set_device_type", "resolve_fisheye"}
      BY <1>1 DEF Composed
    <2>3. CASE m = "set_sn"
      <3>1. Composed[m] = <<"get_sn", "write_sn", "get_sn">>
        BY <2>3 DEF Composed
      <3> QED
        BY <2>1, <3>1
    <2>4. CASE m = "set_device_type"
      <3>1. Composed[m] = <<"write_device_type", "get_device_type">>
        BY <2>4 DEF Composed
      <3> QED
        BY <2>1, <3>1
    <2>5. CASE m = "resolve_fisheye"
      <3>1. Composed[m] = <<"read_fisheye">>
        BY <2>5 DEF Composed
      <3> QED
        BY <2>1, <3>1
    <2> QED
      BY <2>2, <2>3, <2>4, <2>5
  <1>2. CASE m \notin DOMAIN Composed
    <2>1. Components!StepsOf(m) = <<m>>
      BY <1>2 DEF Components!StepsOf
    <2> QED
      BY <2>1
  <1> QED
    BY <1>1, <1>2

(* What a call returns, of what its last request came to. *)
LEMMA FinishedIs ==
  ASSUME NEW m, NEW arg, NEW o
  PROVE  LET r == Components!Finished(m, arg, o) IN
         /\ m \in Components!Verified /\ r.kind = "done" =>
              o.kind \notin Components!Failed /\ o.value = arg
         /\ m = "resolve_fisheye" /\ r.kind = "value" =>
              o.kind = "value" /\ r.value = o.value /\ o.value \notin {Blank, Unset}
         /\ m = "resolve_fisheye" /\ r.kind = "fallback" /\ o.kind = "value" =>
              o.value \in {Blank, Unset}
         /\ r.kind = "fallback" => o.kind # "timeout"
         /\ r.kind \in {"value", "done"} =>
              o.kind \in {"value", "done"} \/ (o.kind \notin Components!Failed /\ o.value = arg)
  <1> DEFINE r == Components!Finished(m, arg, o)
  <1>1. CASE m \in Components!Verified /\ o.kind \notin Components!Failed
    <2>1. r = Components!Outcome(IF Components!ReadBack(o.value, arg) THEN "done" ELSE "error", o.value)
      BY <1>1 DEF Components!Finished
    <2>2. m # "resolve_fisheye"
      BY <1>1 DEF Components!Verified
    <2> QED
      BY <1>1, <2>1, <2>2 DEF Components!Outcome, Components!ReadBack
  <1>2. CASE ~(m \in Components!Verified /\ o.kind \notin Components!Failed)
             /\ m = "resolve_fisheye" /\ o.kind # "timeout"
    <2>1. r = Components!Outcome(IF o.kind = "value" /\ Components!is_usable_fisheye_cal(o.value)
                                 THEN "value" ELSE "fallback", o.value)
      BY <1>2 DEF Components!Finished
    <2>2. m \notin Components!Verified
      BY <1>2 DEF Components!Verified
    <2> QED
      BY <1>2, <2>1, <2>2 DEF Components!Outcome, Components!is_usable_fisheye_cal
  <1>3. CASE ~(m \in Components!Verified /\ o.kind \notin Components!Failed)
             /\ ~(m = "resolve_fisheye" /\ o.kind # "timeout")
    <2>1. r = o
      BY <1>3 DEF Components!Finished
    <2> QED
      BY <1>3, <2>1 DEF Components!Failed
  <1> QED
    BY <1>1, <1>2, <1>3

(* What a request came to is told truly: a value is what the flash has, or an
   error's code. *)
Truly(o) ==
  /\ o.kind \in {"value", "done", "nothing"} \union Components!Failed
  /\ o.kind \notin Components!Failed => o.value = flash' \/ o.value \notin Values
  /\ Components!Request = "read_fisheye" =>
       \/ o.kind = "value" /\ o.value = flash'
       \/ o.kind = "timeout"
       \/ refused' /\ o.kind # "value"
  /\ refused'
     /\ (Components!Request \in Components!ByErrorCode \/ ~Components!Takes(Components!Request, 1))
     => /\ o.kind \notin {"value", "done"}
        /\ o.kind \notin Components!Failed => o.value \notin Values

(* A call goes on, or returns what keeps the promises. *)
LEMMA GoesKeeps ==
  ASSUME RequestTypes, call.step # 0, NEW o, Components!Goes(o), Truly(o),
         flash' \in Values \union {Unset, Blank}
  PROVE  RequestsFollow'
  <1>0. /\ call = [method |-> call.method, arg |-> call.arg, step |-> call.step]
        /\ call.step \in Nat /\ call.method \in Components!Calls /\ call.arg \in Values
        /\ call.step \in DOMAIN Components!StepsOf(call.method)
        /\ result = Components!Nothing
    BY DEF RequestTypes
  <1> DEFINE m == call.method
             last == call.step = Len(Components!StepsOf(m))
  <1>1. CASE o.kind \in Components!Failed \/ last
    <2> DEFINE r == Components!Finished(m, call.arg, o)
    <2>1. result' = r /\ call' = [call EXCEPT !.step = 0]
      BY <1>1 DEF Components!Goes
    <2>2. call'.method = m /\ call'.arg = call.arg /\ call'.step = 0
          /\ call' = [method |-> call'.method, arg |-> call'.arg, step |-> call'.step]
      BY <1>0, <2>1
    <2>3. call' # Components!Idle
      BY <1>0, <2>2, NoneIsNoCall DEF Components!Idle
    <2>4. RequestTypes'
      BY <2>2, <2>3 DEF RequestTypes, Components!Idle, Components!Nothing, Components!Outcome
    <2> HIDE DEF r
    <2>5. Components!VerifiedIsStored'
      <3> SUFFICES ASSUME m \in Components!Verified, r.kind = "done" PROVE flash' = call.arg
        BY <2>1, <2>2 DEF Components!VerifiedIsStored, Components!Verified
      <3>1. o.kind \notin Components!Failed /\ o.value = call.arg
        BY FinishedIs DEF r
      <3> QED
        BY <1>0, <3>1 DEF Truly
    <2>6. Components!FallbackIsNeeded'
      <3> SUFFICES ASSUME m = "resolve_fisheye"
                   PROVE  /\ r.kind = "value" => r.value = flash' /\ flash' \in Values
                          /\ r.kind = "fallback" => refused' \/ flash' \notin Values
        BY <2>1, <2>2 DEF Components!FallbackIsNeeded
      <3>1. Components!Request = "read_fisheye"
        BY <1>0 DEF Components!Request, Components!StepsOf, Composed
      <3>2. \/ o.kind = "value" /\ o.value = flash'
            \/ o.kind = "timeout"
            \/ refused' /\ o.kind # "value"
        BY <3>1 DEF Truly
      <3>3. r.kind = "value" => r.value = flash' /\ flash' \in Values
        BY <3>2, FinishedIs DEF r
      <3>4. r.kind = "fallback" => refused' \/ flash' \notin Values
        <4>1. o.kind # "fallback"
          BY DEF Truly, Components!Failed
        <4> QED
          BY <3>2, <4>1, FinishedIs, ValuesAssumption DEF r
      <3> QED
        BY <3>3, <3>4
    <2>7. Components!RefusalsAreTold'
      <3> SUFFICES ASSUME refused',
                          \A i \in DOMAIN Components!StepsOf(m) :
                            LET q == Components!StepsOf(m)[i]
                            IN q \in Components!ByErrorCode \/ ~Components!Takes(q, 1)
                   PROVE  r.kind \notin {"value", "done"}
        BY <2>1, <2>2 DEF Components!RefusalsAreTold, Components!StepsOf, Components!ByErrorCode,
                          Components!Takes, Components!Requests
      <3>1. o.kind \notin {"value", "done"} /\ (o.kind \notin Components!Failed => o.value \notin Values)
        BY <1>0 DEF Truly, Components!Request
      <3> QED
        BY <1>0, <3>1, FinishedIs DEF r
    <2> QED
      BY <2>4, <2>5, <2>6, <2>7 DEF RequestsFollow
  <1>2. CASE ~(o.kind \in Components!Failed \/ last)
    <2>1. call' = [call EXCEPT !.step = @ + 1] /\ result' = Components!Nothing
      BY <1>0, <1>2 DEF Components!Goes
    <2>2. call'.method = m /\ call'.arg = call.arg /\ call'.step = call.step + 1
          /\ call' = [method |-> call'.method, arg |-> call'.arg, step |-> call'.step]
      BY <1>0, <2>1
    <2>3. call'.step \in DOMAIN Components!StepsOf(m)
      BY <1>0, <1>2, <2>2, StepsAre
    <2>4. RequestTypes'
      BY <1>0, <2>1, <2>2, <2>3 DEF RequestTypes, Components!Idle, Components!Nothing,
         Components!Outcome, Components!StepsOf, Components!Calls, Components!Requests
    <2>5. result'.kind = "none"
      BY <2>1 DEF Components!Nothing, Components!Outcome
    <2> QED
      BY <2>4, <2>5 DEF RequestsFollow, Components!VerifiedIsStored, Components!FallbackIsNeeded,
                        Components!RefusalsAreTold
  <1> QED
    BY <1>1, <1>2

(* What a request comes to has the answer's value; a good answer that is long
   enough is a value, and an error that can be told from one is told. *)
LEMMA ReadingIs ==
  ASSUME NEW q, NEW form, NEW len, NEW value
  PROVE  LET o == Components!Reading(q, [form |-> form, len |-> len, value |-> value]) IN
         /\ o.value = value
         /\ o.kind \in {"value", "done", "error", "nothing"}
         /\ form = "good" /\ Components!Takes(q, len) /\ q \in Components!Reads => o.kind = "value"
         /\ form \in {"nack", "byte"} /\ (q \in Components!ByErrorCode \/ ~Components!Takes(q, len))
              => o.kind \in {"error", "nothing"}
  <1> DEFINE a == [form |-> form, len |-> len, value |-> value]
             o == Components!Reading(q, a)
             bad == form = "nack" \/ (form = "byte" /\ q \in Components!ByErrorCode)
                      \/ ~Components!Takes(q, len)
             kind == IF q \in Components!Reads THEN "value" ELSE "done"
  <1>1. CASE q \in Components!Calibrations /\ form = "byte" /\ value = "CalNotSet"
    <2>1. o = Components!Outcome("nothing", value)
      BY <1>1 DEF Components!Reading
    <2> QED
      BY <1>1, <2>1 DEF Components!Outcome
  <1>2. CASE ~(q \in Components!Calibrations /\ form = "byte" /\ value = "CalNotSet")
    <2>1. o = Components!Decoded(q, a)
      BY <1>2 DEF Components!Reading
    <2>2. bad = (Components!IsError(q, a) \/ ~Components!Takes(q, a.len))
      BY DEF Components!IsError
    <2>3. o = IF bad THEN Components!Outcome("error", value) ELSE Components!Outcome(kind, value)
      BY <2>1, <2>2 DEF Components!Decoded
    <2> HIDE DEF bad, kind
    <2>4. o.value = value /\ o.kind = IF bad THEN "error" ELSE kind
      BY <2>3 DEF Components!Outcome
    <2> HIDE DEF o
    <2>5. CASE bad
      <3>1. o.kind = "error" /\ ~(form = "good" /\ Components!Takes(q, len))
        BY <2>4, <2>5 DEF bad
      <3> QED
        BY <2>4, <3>1 DEF o
    <2>6. CASE ~bad
      <3>1. o.kind = kind /\ kind \in {"value", "done"}
            /\ (q \in Components!Reads => kind = "value")
        BY <2>4, <2>6 DEF kind
      <3>2. ~(form \in {"nack", "byte"}
              /\ (q \in Components!ByErrorCode \/ ~Components!Takes(q, len)))
        BY <2>6 DEF bad
      <3> QED
        BY <2>4, <3>1, <3>2 DEF o
    <2> QED
      BY <2>5, <2>6
  <1> QED
    BY <1>1, <1>2

(* Every step of a call keeps it. *)
LEMMA RequestStep == ASSUME RequestsFollow, Components!Next PROVE RequestsFollow'
  <1> DEFINE q == Components!Request
  <1>0. RequestTypes
    BY DEF RequestsFollow
  <1>1. CASE Components!Begin
    <2>1. PICK m \in Components!Calls, v \in Values : call' = [method |-> m, arg |-> v, step |-> 1]
      BY <1>1, Zenon DEF Components!Begin
    <2>2. result' = Components!Nothing /\ flash' = flash
      BY <1>0, <1>1 DEF Components!Begin, RequestTypes
    <2>3. 1 \in DOMAIN Components!StepsOf(m)
      BY StepsAre
    <2>4. call'.method = m /\ call'.arg = v /\ call'.step = 1
          /\ call' = [method |-> call'.method, arg |-> call'.arg, step |-> call'.step]
      BY <2>1
    <2>5. RequestTypes'
      BY <1>0, <2>2, <2>3, <2>4 DEF RequestTypes, Components!Nothing, Components!Outcome,
         Components!Calls, Components!Requests, Components!StepsOf
    <2>6. result'.kind = "none"
      BY <2>2 DEF Components!Nothing, Components!Outcome
    <2> QED
      BY <2>5, <2>6 DEF RequestsFollow, Components!VerifiedIsStored, Components!FallbackIsNeeded,
                        Components!RefusalsAreTold
  <1>2. CASE Components!ServeRead
    <2> DEFINE o == Components!Reading(q, Components!Good(flash))
    <2>1. call.step # 0 /\ Components!Goes(o) /\ flash' = flash /\ refused' = FALSE
          /\ q \in Components!Reads
      BY <1>0, <1>2 DEF Components!ServeRead, RequestTypes
    <2>2. /\ o.value = flash
          /\ o.kind \in {"value", "done", "error", "nothing"}
          /\ Components!Takes(q, Components!Length(q)) => o.kind = "value"
      BY <2>1, ReadingIs DEF Components!Good
    <2>3. q = "read_fisheye" => Components!Takes(q, Components!Length(q))
      BY FisheyeRow DEF Components!Takes, Components!Length
    <2> HIDE DEF o
    <2>4. Truly(o)
      BY <2>1, <2>2, <2>3 DEF Truly, Components!Failed
    <2> QED
      BY <1>0, <2>1, <2>4, GoesKeeps DEF RequestTypes
  <1>3. CASE Components!ServeWrite
    <2> DEFINE o == Components!Reading(q, Components!Good(flash'))
    <2>1. call.step # 0 /\ Components!Goes(o) /\ flash' \in {flash, call.arg} /\ refused' = FALSE
          /\ q \in Components!Writes
      BY <1>0, <1>3 DEF Components!ServeWrite, RequestTypes
    <2>2. o.value = flash' /\ o.kind \in {"value", "done", "error", "nothing"}
      BY <2>1, ReadingIs DEF Components!Good
    <2>3. q # "read_fisheye"
      BY <2>1, FisheyeRow DEF Components!Writes, Components!Reads, Components!Requests
    <2> HIDE DEF o
    <2>4. Truly(o)
      BY <2>1, <2>2, <2>3 DEF Truly, Components!Failed
    <2> QED
      BY <1>0, <2>1, <2>4, GoesKeeps DEF RequestTypes
  <1>4. CASE Components!Refuse
    <2>1. PICK form \in {"nack", "byte"}, e \in Components!Reasons :
            Components!Goes(Components!Reading(q, [form |-> form, len |-> 1, value |-> e]))
      BY <1>4, Zenon DEF Components!Refuse
    <2> DEFINE o == Components!Reading(q, [form |-> form, len |-> 1, value |-> e])
    <2>2. call.step # 0 /\ flash' = flash /\ refused' = TRUE
      BY <1>0, <1>4 DEF Components!Refuse, RequestTypes
    <2>3. e \notin Values
      BY ValuesAssumption DEF Components!Reasons
    <2>4. /\ o.value = e /\ o.kind \in {"value", "done", "error", "nothing"}
          /\ q \in Components!ByErrorCode \/ ~Components!Takes(q, 1) => o.kind \in {"error", "nothing"}
      BY ReadingIs
    <2>5. q = "read_fisheye" => q \in Components!ByErrorCode
      BY FisheyeRow DEF Components!ByErrorCode, Components!Requests
    <2> HIDE DEF o
    <2>6. Truly(o)
      BY <2>2, <2>3, <2>4, <2>5 DEF Truly, Components!Failed
    <2> QED
      BY <1>0, <2>1, <2>2, <2>6, GoesKeeps DEF RequestTypes, o
  <1>5. CASE Components!TimeOut
    <2> DEFINE o == Components!Outcome("timeout", Unset)
    <2>1. call.step # 0 /\ Components!Goes(o) /\ flash' \in {flash, call.arg}
      BY <1>0, <1>5 DEF Components!TimeOut, RequestTypes
    <2>2. o.kind = "timeout" /\ o.value = Unset
      BY DEF Components!Outcome
    <2> HIDE DEF o
    <2>3. Truly(o)
      BY <2>2, ValuesAssumption DEF Truly, Components!Failed
    <2> QED
      BY <1>0, <2>1, <2>3, GoesKeeps DEF RequestTypes
  <1>6. CASE Components!Return
    <2>1. call' = Components!Idle /\ result' = Components!Nothing /\ flash' = flash /\ refused' = FALSE
      BY <1>6 DEF Components!Return
    <2>2. RequestTypes'
      BY <1>0, <2>1 DEF RequestTypes, Components!Idle, Components!Nothing, Components!Outcome
    <2>3. result'.kind = "none"
      BY <2>1 DEF Components!Nothing, Components!Outcome
    <2> QED
      BY <2>2, <2>3 DEF RequestsFollow, Components!VerifiedIsStored, Components!FallbackIsNeeded,
                        Components!RefusalsAreTold
  <1> QED
    BY <1>1, <1>2, <1>3, <1>4, <1>5, <1>6 DEF Components!Next

(* No call is under way at first. *)
LEMMA RequestInit == ASSUME Components!Init PROVE RequestsFollow
  <1>1. /\ flash \in {Unset, Blank} /\ call = Components!Idle /\ result = Components!Nothing
    BY DEF Components!Init
  <1>2. RequestTypes
    BY <1>1 DEF RequestTypes, Components!Idle
  <1>3. result.kind = "none"
    BY <1>1 DEF Components!Nothing, Components!Outcome
  <1> QED
    BY <1>2, <1>3 DEF RequestsFollow, Components!VerifiedIsStored, Components!FallbackIsNeeded,
                      Components!RefusalsAreTold

(* A verified write that returns is in the flash, the reference calibration is
   used only where there is no other, and a call that can tell a refusal does. *)
THEOREM AnswersAreTrueHolds == Spec => []AnswersAreTrue
  <1> DEFINE Follows == part = "requests" => RequestsFollow
  <1>1. Init => Follows
    BY RequestInit DEF Init
  <1>2. Follows /\ [Next]_vars => Follows'
    <2> SUFFICES ASSUME Follows, [Next]_vars PROVE Follows'
      OBVIOUS
    <2>1. CASE part = "requests" /\ Components!Next /\ part' = part
      BY <2>1, RequestStep
    <2>2. CASE UNCHANGED <<part, requestVars>>
      BY <2>2 DEF requestVars, RequestsFollow, RequestTypes, Components!VerifiedIsStored,
         Components!FallbackIsNeeded, Components!RefusalsAreTold, Components!Idle,
         Components!Nothing, Components!Outcome, Components!Calls, Components!Requests,
         Components!StepsOf, Components!ByErrorCode, Components!Takes
    <2>3. CASE part # "requests" /\ part' = part
      BY <2>3
    <2> QED
      BY <2>1, <2>2, <2>3 DEF Next, vars, OfMcu, OfMotor
  <1>3. Follows => AnswersAreTrue
    BY DEF RequestsFollow, AnswersAreTrue
  <1> QED
    BY <1>1, <1>2, <1>3, PTL DEF Spec

-----------------------------------------------------------------------------
(* The camera (Camera). *)

(* What the program has to see to: no two threads start and stop. *)
OneOwner == \A a, b \in Owners : a = b

CallStages == {"idle", "locking", "reading", "spawning", "joining"}
LoopPoints == {"unborn", "check", "reading", "callback", "done"}
LoopOver == {"unborn", "done"}

CameraTypes ==
  /\ capturing \in BOOLEAN
  /\ spawned \in 0 .. MaxStarts
  /\ grabber \in 0 .. spawned
  /\ loop \in [Wrist!Threads -> LoopPoints]
  /\ op \in [Wrist!Callers -> CallStages]

(* Only the thread whose handle is held may still run, and those to come have
   not begun. *)
HandleOfTheLiving ==
  /\ \A n \in Wrist!Threads : loop[n] \notin LoopOver => n = grabber
  /\ \A n \in Wrist!Threads : n > spawned => loop[n] = "unborn"

(* Between the calls of its owner, running_ says whether a handle is held; in
   start() it is ahead of the handle, in stop() behind it. *)
HandleFollows ==
  \A o \in Owners :
    /\ op[o] = "spawning" => capturing /\ grabber = 0 /\ spawned < MaxStarts
    /\ op[o] = "joining" => ~capturing
    /\ op[o] \notin {"spawning", "joining"} => (capturing <=> grabber # 0)

(* Only owners start and stop, and running_ is set by nobody else. *)
OnlyOwners ==
  \A c \in Wrist!Callers : op[c] \in {"spawning", "joining"} => c \in Owners

CaptureJoins == CameraTypes /\ HandleOfTheLiving /\ HandleFollows /\ OnlyOwners

(* A pass of the capture thread moves a thread that runs, and it alone. *)
LEMMA CameraPass ==
  ASSUME MaxStarts \in Nat, CaptureJoins, NEW n \in Wrist!Threads, Wrist!CaptureLoop(n)
  PROVE  CaptureJoins'
  <1>1. PICK from \in LoopPoints \ LoopOver, to \in LoopPoints \ {"unborn"} : Wrist!LoopGoes(n, from, to)
    BY DEF Wrist!CaptureLoop, Wrist!Grab, Wrist!Leave, Wrist!Deliver, Wrist!Fail, Wrist!Returned, LoopPoints, LoopOver
  <1>2. CameraTypes' /\ HandleFollows' /\ OnlyOwners'
    BY <1>1 DEF Wrist!LoopGoes, CaptureJoins, CameraTypes, HandleFollows, OnlyOwners
  <1>3. HandleOfTheLiving'
    BY <1>1 DEF Wrist!LoopGoes, CaptureJoins, CameraTypes, HandleOfTheLiving, LoopOver, Wrist!Threads
  <1> QED
    BY <1>2, <1>3 DEF CaptureJoins

(* A poll has nothing to do with the capture thread. *)
LEMMA CameraPoll ==
  ASSUME CaptureJoins, NEW c \in Pollers, Wrist!ReadEnter(c) \/ Wrist!ReadBegin(c) \/ Wrist!ReadEnd(c)
  PROVE  CaptureJoins'
  <1>1. PICK from \in {"idle", "locking", "reading"}, to \in {"idle", "locking", "reading"} :
          op[c] = from /\ op' = [op EXCEPT ![c] = to]
    BY DEF Wrist!ReadEnter, Wrist!ReadBegin, Wrist!ReadEnd, Wrist!Goes
  <1>2. UNCHANGED <<capturing, grabber, spawned, loop>>
    BY DEF Wrist!ReadEnter, Wrist!ReadBegin, Wrist!ReadEnd
  <1>3. c \in Wrist!Callers
    BY DEF Wrist!Callers
  <1>4. CameraTypes' /\ HandleOfTheLiving'
    BY <1>1, <1>2, <1>3 DEF CaptureJoins, CameraTypes, HandleOfTheLiving, CallStages
  <1>5. HandleFollows'
    BY <1>1, <1>2, <1>3 DEF CaptureJoins, CameraTypes, HandleFollows, Wrist!Callers
  <1>6. OnlyOwners'
    BY <1>1, <1>3 DEF CaptureJoins, CameraTypes, OnlyOwners
  <1> QED
    BY <1>4, <1>5, <1>6 DEF CaptureJoins

(* start() and stop(), when nobody else is in either. *)
LEMMA CameraOwner ==
  ASSUME MaxStarts \in Nat, OneOwner, CaptureJoins, NEW c \in Owners,
         Wrist!StartEnter(c) \/ Wrist!Spawn(c) \/ Wrist!StopEnter(c) \/ Wrist!Join(c)
  PROVE  CaptureJoins'
  <1>0. c \in Wrist!Callers /\ \A o \in Owners : o = c
    BY DEF Wrist!Callers, OneOwner
  <1>1. CASE Wrist!StartEnter(c)
    BY <1>0, <1>1 DEF Wrist!StartEnter, Wrist!Goes, CaptureJoins, CameraTypes, HandleOfTheLiving, HandleFollows,
                      OnlyOwners, CallStages
  <1>2. CASE Wrist!Spawn(c)
    <2>1. spawned' = spawned + 1 /\ spawned' \in Wrist!Threads /\ grabber' = spawned'
      BY <1>0, <1>2 DEF Wrist!Spawn, CaptureJoins, CameraTypes, HandleFollows, Wrist!Threads
    <2>2. CameraTypes'
      BY <1>0, <1>2, <2>1 DEF Wrist!Spawn, Wrist!Goes, CaptureJoins, CameraTypes, CallStages, LoopPoints, Wrist!Threads
    <2>3. HandleOfTheLiving'
      BY <1>0, <1>2, <2>1 DEF Wrist!Spawn, CaptureJoins, CameraTypes, HandleOfTheLiving, HandleFollows, LoopOver, Wrist!Threads
    <2>4. HandleFollows' /\ OnlyOwners'
      BY <1>0, <1>2, <2>1 DEF Wrist!Spawn, Wrist!Goes, CaptureJoins, CameraTypes, HandleFollows, OnlyOwners, Wrist!Threads
    <2> QED
      BY <2>2, <2>3, <2>4 DEF CaptureJoins
  <1>3. CASE Wrist!StopEnter(c)
    BY <1>0, <1>3 DEF Wrist!StopEnter, Wrist!Goes, CaptureJoins, CameraTypes, HandleOfTheLiving, HandleFollows,
                      OnlyOwners, CallStages
  <1>4. CASE Wrist!Join(c)
    <2>1. CameraTypes' /\ HandleFollows' /\ OnlyOwners'
      BY <1>0, <1>4 DEF Wrist!Join, Wrist!Goes, CaptureJoins, CameraTypes, HandleFollows, OnlyOwners, CallStages
    <2>2. HandleOfTheLiving'
      BY <1>4 DEF Wrist!Join, Wrist!Joined, CaptureJoins, CameraTypes, HandleOfTheLiving, LoopOver, Wrist!Threads
    <2> QED
      BY <2>1, <2>2 DEF CaptureJoins
  <1> QED
    BY <1>1, <1>2, <1>3, <1>4

(* No camera has been started at first. *)
LEMMA CameraInit == ASSUME MaxStarts \in Nat, Wrist!Init PROVE CaptureJoins
  <1>1. CameraTypes
    <2>0. capturing \in BOOLEAN
      BY DEF Wrist!Init
    <2>1. spawned \in 0 .. MaxStarts /\ grabber \in 0 .. spawned
      <3> spawned = 0 /\ grabber = 0
        BY DEF Wrist!Init
      <3> QED
        OBVIOUS
    <2>2. loop \in [Wrist!Threads -> LoopPoints] /\ op \in [Wrist!Callers -> CallStages]
      BY DEF Wrist!Init, CallStages, LoopPoints
    <2> QED
      BY <2>0, <2>1, <2>2 DEF CameraTypes
  <1>2. HandleOfTheLiving
    BY DEF Wrist!Init, HandleOfTheLiving, LoopOver
  <1>3. HandleFollows /\ OnlyOwners
    BY DEF Wrist!Init, HandleFollows, OnlyOwners, Wrist!Callers
  <1> QED
    BY <1>1, <1>2, <1>3 DEF CaptureJoins

(* The handle and running_ stay together through every step. *)
LEMMA CameraStep ==
  ASSUME MaxStarts \in Nat, OneOwner, CaptureJoins, [Wrist!Next]_(Wrist!vars)
  PROVE  CaptureJoins'
  <1>1. CASE UNCHANGED Wrist!vars
    BY <1>1 DEF Wrist!vars, CaptureJoins, CameraTypes, HandleOfTheLiving, HandleFollows, OnlyOwners
  <1>2. CASE Wrist!Next
    BY <1>2, CameraPass, CameraPoll, CameraOwner DEF Wrist!Next
  <1> QED
    BY <1>1, <1>2

(* Where the handle and running_ are together, stop() has waited. *)
LEMMA CameraEnds ==
  ASSUME OneOwner, Owners # {}, CaptureJoins
  PROVE  Wrist!StopEndsCapture
  BY DEF CaptureJoins, CameraTypes, HandleOfTheLiving, HandleFollows, Wrist!StopEndsCapture, Wrist!Threads, LoopOver,
         LoopPoints, OneOwner

(* Once stop() of the camera has returned, no capture thread calls back. *)
THEOREM StopEndsCaptureHolds == Spec => []StopEndsCapture
  <1> DEFINE Follows == part = "camera" => CaptureJoins
  <1>0. OneOwner /\ Owners # {} /\ MaxStarts \in Nat
    BY OwnerAssumption DEF OneOwner
  <1>1. Init => Follows
    BY <1>0, CameraInit DEF Init
  <1>2. Follows /\ [Next]_vars => Follows'
    <2> SUFFICES ASSUME Follows, [Next]_vars PROVE Follows'
      OBVIOUS
    <2>1. CASE part = "camera" /\ Wrist!Next /\ part' = part
      BY <1>0, <2>1, CameraStep
    <2>2. CASE UNCHANGED <<part, cameraVars>>
      BY <1>0, <2>2, CameraStep DEF cameraVars, Wrist!vars
    <2>3. CASE part # "camera" /\ part' = part
      BY <2>3
    <2> QED
      BY <2>1, <2>2, <2>3 DEF Next, vars, OfMcu, OfMotor
  <1>3. Follows => StopEndsCapture
    BY <1>0, CameraEnds DEF StopEndsCapture
  <1> QED
    BY <1>1, <1>2, <1>3, PTL DEF Spec

-----------------------------------------------------------------------------
(* The bindings' callbacks (GilCallbacks). *)

(* What Python asks for is one of six kinds of calls. *)
SixKinds ==
  {Python!Request, Python!HeldRequest, Python!Subscribe, Python!Unsubscribe, Python!Stop,
   Python!Drop}

BindingTypes ==
  /\ binding \in [Pythons -> SixKinds]
  /\ stage \in [Pythons -> {"python", "in", "clear", "back"}]
  /\ gil \in Pythons \union {"worker", None}

(* An object that was closed, or whose interpreter has gone, has no worker any
   more; and so has one that is being dropped. *)
WorkerHasEnded ==
  /\ object # "open" => worker = "ended"
  /\ interp = "gone" => object # "open"
  /\ \A t \in Pythons : stage[t] = "in" /\ binding[t] = Python!Drop => worker = "ended"

(* A thread in a binding has the lock only if the binding keeps it; the worker
   has it in its callback only. *)
LockIsPlaced ==
  /\ \A t \in Pythons : gil = t /\ stage[t] = "in" => ~binding[t].releases
  /\ gil = "worker" => worker = "callback"

PythonFollows == BindingTypes /\ WorkerHasEnded /\ LockIsPlaced /\ ~aborted

(* Every binding of every class is of one of the kinds. *)
LEMMA KindsAre == Python!BoundCalls \subseteq SixKinds
  <1> DEFINE Fits(tables) == \A table \in tables : \A n \in DOMAIN table : table[n] \in SixKinds
  <1>1. ASSUME NEW names, NEW kind \in SixKinds
        PROVE  \A n \in DOMAIN Python!Are(names, kind) : Python!Are(names, kind)[n] \in SixKinds
    BY DEF Python!Are
  <1>2. ASSUME NEW names
        PROVE  \A n \in DOMAIN Python!All(names) : Python!All(names)[n] \in SixKinds
    BY <1>1 DEF Python!All, SixKinds
  <1>3. /\ Python!HeldRequest \in SixKinds /\ Python!Subscribe \in SixKinds
        /\ Python!Unsubscribe \in SixKinds /\ Python!Stop \in SixKinds /\ Python!Drop \in SixKinds
    BY DEF SixKinds
  <1>4. /\ Fits(Python!TransportBindings) /\ Fits(Python!SerialBusBindings)
        /\ Fits(Python!DiscoveryBindings) /\ Fits(Python!LeaderBindings)
        /\ Fits(Python!FollowerStreamBindings) /\ Fits(Python!FollowerConfigBindings)
    BY <1>1, <1>2, <1>3
       DEF Python!TransportBindings, Python!SerialBusBindings, Python!DiscoveryBindings,
           Python!LeaderBindings, Python!FollowerStreamBindings, Python!FollowerConfigBindings
  <1>5. /\ Fits(Python!FollowerBindings) /\ Fits(Python!MotorBindings)
        /\ Fits(Python!MotorAdminBindings) /\ Fits(Python!MotorFirmwareBindings)
        /\ Fits(Python!EncoderBindings) /\ Fits(Python!ImuBindings) /\ Fits(Python!KeyBindings)
    BY <1>1, <1>2, <1>3
       DEF Python!FollowerBindings, Python!MotorBindings, Python!MotorAdminBindings,
           Python!MotorFirmwareBindings, Python!EncoderBindings, Python!ImuBindings,
           Python!KeyBindings
  <1>6. /\ Fits(Python!SensorErrorsBindings) /\ Fits(Python!LedBindings)
        /\ Fits(Python!DiagnosticsBindings) /\ Fits(Python!DeviceBindings)
        /\ Fits(Python!CalibrationBindings) /\ Fits(Python!ImpedanceBindings)
    BY <1>1, <1>2, <1>3
       DEF Python!SensorErrorsBindings, Python!LedBindings, Python!DiagnosticsBindings,
           Python!DeviceBindings, Python!CalibrationBindings, Python!ImpedanceBindings
  <1>7. /\ Fits(Python!ForcePositionBindings) /\ Fits(Python!OtaBindings)
        /\ Fits(Python!MotorOtaBindings) /\ Fits(Python!CameraBindings)
    BY <1>1, <1>2, <1>3
       DEF Python!ForcePositionBindings, Python!OtaBindings, Python!MotorOtaBindings,
           Python!CameraBindings
  <1> HIDE DEF Fits
  <1>8. \A tables \in
          {Python!TransportBindings, Python!SerialBusBindings, Python!DiscoveryBindings,
           Python!LeaderBindings, Python!FollowerStreamBindings, Python!FollowerConfigBindings,
           Python!FollowerBindings, Python!MotorBindings, Python!MotorAdminBindings,
           Python!MotorFirmwareBindings, Python!EncoderBindings, Python!ImuBindings,
           Python!KeyBindings, Python!SensorErrorsBindings, Python!LedBindings,
           Python!DiagnosticsBindings, Python!DeviceBindings, Python!CalibrationBindings,
           Python!ImpedanceBindings, Python!ForcePositionBindings, Python!OtaBindings,
           Python!MotorOtaBindings, Python!CameraBindings} : Fits(tables)
    BY <1>4, <1>5, <1>6, <1>7, Zenon
  <1>9. \A f : Python!Range(f) = {f[x] : x \in DOMAIN f}
    BY DEF Python!Range
  <1>10. ASSUME NEW kind \in Python!BoundCalls PROVE kind \in SixKinds
    <2>1. PICK table : kind \in Python!Range(table) /\ (\A n \in DOMAIN table : table[n] \in SixKinds)
      BY <1>8, <1>10, Zenon DEF Python!BoundCalls, Fits
    <2> QED
      BY <1>9, <2>1
  <1> QED
    BY <1>10

(* A thread calls a binding. *)
LEMMA EnterKeeps ==
  ASSUME Careful, PythonFollows, NEW t \in Pythons, NEW k \in Python!BoundCalls,
         Python!Enter(t, k)
  PROVE  PythonFollows' /\ function' = function
  <1> USE DEF PythonFollows
  <1>1. k \in SixKinds
    BY KindsAre
  <1>2. /\ gil = t /\ Python!Allowed(t, k)
        /\ binding' = [binding EXCEPT ![t] = k] /\ stage' = [stage EXCEPT ![t] = "in"]
        /\ gil' = IF k.releases THEN None ELSE gil
        /\ UNCHANGED <<interp, worker, object, function, aborted>>
    BY DEF Python!Enter, Python!Releases
  <1>3. BindingTypes'
    BY <1>1, <1>2 DEF BindingTypes
  <1>4. k = Python!Drop => worker = "ended"
    <2>1. k = Python!Drop => object = "stopped"
      BY <1>2 DEF Python!Allowed, Python!Drop, Python!Kind
    <2> QED
      BY <2>1 DEF WorkerHasEnded
  <1>5. WorkerHasEnded'
    BY <1>2, <1>4 DEF WorkerHasEnded, BindingTypes
  <1>6. LockIsPlaced'
    <2>1. t # "worker" /\ t # None
      BY ThreadsAssumption
    <2>2. gil' # "worker"
      BY <1>2, <2>1, ThreadsAssumption DEF LockIsPlaced, BindingTypes
    <2>3. ASSUME NEW u \in Pythons, gil' = u, stage'[u] = "in" PROVE ~binding'[u].releases
      <3>1. CASE k.releases
        BY <1>2, <2>3, <3>1, ThreadsAssumption
      <3>2. CASE ~k.releases
        BY <1>2, <2>3, <3>2 DEF BindingTypes
      <3> QED
        BY <3>1, <3>2
    <2> QED
      BY <2>2, <2>3 DEF LockIsPlaced
  <1> QED
    BY <1>2, <1>3, <1>5, <1>6

(* A binding has done what it does; only a subscription makes a callback. *)
LEMMA WorkKeeps ==
  ASSUME PythonFollows, NEW t \in Pythons, Python!Work(t)
  PROVE  PythonFollows' /\ function' \in {function, "live"}
  <1> USE DEF PythonFollows
  <1>1. /\ stage[t] = "in"
        /\ binding[t].joins => worker = "ended"
        /\ UNCHANGED <<gil, interp, binding, worker, aborted>>
        /\ function' \in {function, "live"}
    BY DEF Python!Work, Python!JoinsWorker
  <1>2. object' = IF binding[t].does = "drop" THEN "dropped"
                  ELSE IF binding[t].does = "stop" THEN "stopped" ELSE object
    BY DEF Python!Work
  <1>3. PICK next \in {"clear", "back"} : stage' = [stage EXCEPT ![t] = next]
    BY Zenon DEF Python!Work
  <1>4. BindingTypes' /\ LockIsPlaced'
    BY <1>1, <1>3 DEF BindingTypes, LockIsPlaced
  <1>5. binding[t].does \in {"drop", "stop"} => worker = "ended"
    <2>1. binding[t] \in SixKinds
      BY DEF BindingTypes
    <2>2. binding[t].does \in {"drop", "stop"} => binding[t].joins
      BY <2>1 DEF SixKinds, Python!Request, Python!HeldRequest, Python!Subscribe,
                  Python!Unsubscribe, Python!Stop, Python!Drop, Python!Kind
    <2> QED
      BY <1>1, <2>2
  <1>6. object' # "open" => worker' = "ended"
    BY <1>1, <1>2, <1>5 DEF WorkerHasEnded
  <1>7. interp' = "gone" => object' # "open"
    BY <1>1, <1>2 DEF WorkerHasEnded
  <1>8. WorkerHasEnded'
    BY <1>1, <1>3, <1>6, <1>7 DEF WorkerHasEnded, BindingTypes
  <1> QED
    BY <1>1, <1>4, <1>8

(* Every step keeps it, and frees a callback under the lock only. *)
LEMMA PythonStep ==
  ASSUME Careful, PythonFollows, Python!Next
  PROVE  PythonFollows' /\ Python!FreesUnderTheLock
  <1> USE DEF PythonFollows
  <1>0. ASSUME function' \in {function, "live"} PROVE Python!FreesUnderTheLock
    BY <1>0 DEF Python!FreesUnderTheLock
  <1>1. ASSUME NEW t \in Pythons, NEW k \in Python!BoundCalls, Python!Enter(t, k)
        PROVE  PythonFollows' /\ Python!FreesUnderTheLock
    BY <1>0, <1>1, EnterKeeps
  <1>2. ASSUME NEW t \in Pythons, Python!Work(t)
        PROVE  PythonFollows' /\ Python!FreesUnderTheLock
    BY <1>0, <1>2, WorkKeeps
  <1>3. ASSUME NEW t \in Pythons, Python!Clear(t)
        PROVE  PythonFollows' /\ Python!FreesUnderTheLock
    <2>1. /\ stage[t] = "clear" /\ stage' = [stage EXCEPT ![t] = "back"]
          /\ UNCHANGED <<gil, interp, binding, worker, object, aborted>>
          /\ interp = "gone" \/ gil \in {None, t}
          /\ function' = IF function # "live" THEN function
                         ELSE IF interp = "gone" THEN "leaked" ELSE "freed"
      BY <1>3 DEF Python!Clear, Python!CanFree, Python!Gone, Python!AfterFree
    <2>2. BindingTypes' /\ WorkerHasEnded' /\ LockIsPlaced'
      BY <2>1 DEF BindingTypes, WorkerHasEnded, LockIsPlaced
    <2>3. function = "live" /\ function' = "freed" => gil \in {None, t}
      BY <2>1
    <2>4. t # "worker" /\ stage'[t] # stage[t]
      BY <2>1, ThreadsAssumption DEF BindingTypes
    <2>5. Python!FreesUnderTheLock
      BY <2>3, <2>4 DEF Python!FreesUnderTheLock, Python!Worker
    <2> QED
      BY <2>1, <2>2, <2>5
  <1>4. ASSUME NEW t \in Pythons, Python!Return(t)
        PROVE  PythonFollows' /\ Python!FreesUnderTheLock
    <2>1. /\ gil' = t /\ stage' = [stage EXCEPT ![t] = "python"]
          /\ binding' = [binding EXCEPT ![t] = Python!HeldRequest]
          /\ UNCHANGED <<interp, worker, object, function, aborted>>
      BY <1>4 DEF Python!Return
    <2>2. Python!HeldRequest \in SixKinds
      BY DEF SixKinds
    <2>3. BindingTypes' /\ WorkerHasEnded' /\ LockIsPlaced'
      BY <2>1, <2>2, ThreadsAssumption DEF BindingTypes, WorkerHasEnded, LockIsPlaced
    <2> QED
      BY <1>0, <2>1, <2>3
  <1>5. ASSUME NEW t \in Pythons, Python!Take(t) \/ Python!Yield(t)
        PROVE  PythonFollows' /\ Python!FreesUnderTheLock
    <2>1. /\ gil' \in {t, None} /\ stage[t] = "python"
          /\ UNCHANGED <<binding, stage, interp, worker, object, function, aborted>>
      BY <1>5 DEF Python!Take, Python!Yield
    <2>2. BindingTypes' /\ WorkerHasEnded' /\ LockIsPlaced'
      BY <2>1, ThreadsAssumption DEF BindingTypes, WorkerHasEnded, LockIsPlaced
    <2> QED
      BY <1>0, <2>1, <2>2
  <1>6. ASSUME Python!Finalize PROVE PythonFollows' /\ Python!FreesUnderTheLock
    <2>1. /\ object # "open" /\ UNCHANGED <<gil, binding, stage, worker, object, function, aborted>>
      BY <1>6 DEF Python!Finalize
    <2>2. BindingTypes' /\ WorkerHasEnded' /\ LockIsPlaced'
      BY <2>1 DEF BindingTypes, WorkerHasEnded, LockIsPlaced
    <2> QED
      BY <1>0, <2>1, <2>2
  <1>7. ASSUME Python!Snapshot \/ Python!Check \/ Python!End
        PROVE  PythonFollows' /\ Python!FreesUnderTheLock
    <2>1. /\ worker # "ended" /\ worker # "callback"
          /\ UNCHANGED <<gil, interp, binding, stage, object, function, aborted>>
      BY <1>7 DEF Python!Snapshot, Python!Check, Python!End, Python!WorkerGoes
    <2>2. BindingTypes' /\ WorkerHasEnded' /\ LockIsPlaced'
      BY <2>1 DEF BindingTypes, WorkerHasEnded, LockIsPlaced
    <2> QED
      BY <1>0, <2>1, <2>2
  <1>8. ASSUME Python!Ask PROVE PythonFollows' /\ Python!FreesUnderTheLock
    <2>1. /\ worker = "ask" /\ UNCHANGED <<interp, binding, stage, object, function>>
      BY <1>8 DEF Python!Ask
    <2>2. interp # "gone"
      BY <2>1 DEF WorkerHasEnded
    <2>3. gil' = "worker" /\ worker' = "callback" /\ aborted' = aborted
      BY <1>8, <2>2 DEF Python!Ask, Python!Gone, Python!Worker
    <2>4. BindingTypes' /\ WorkerHasEnded' /\ LockIsPlaced'
      BY <2>1, <2>3, ThreadsAssumption DEF BindingTypes, WorkerHasEnded, LockIsPlaced
    <2> QED
      BY <1>0, <2>1, <2>3, <2>4
  <1>9. ASSUME Python!CallbackReturns PROVE PythonFollows' /\ Python!FreesUnderTheLock
    <2>1. /\ worker = "callback" /\ worker' = "release" /\ gil' = None
          /\ UNCHANGED <<interp, binding, stage, object, function, aborted>>
      BY <1>9 DEF Python!CallbackReturns, Python!WorkerGoes
    <2>2. BindingTypes' /\ WorkerHasEnded'
      BY <2>1 DEF BindingTypes, WorkerHasEnded
    <2>4. LockIsPlaced'
      BY <2>1, ThreadsAssumption DEF LockIsPlaced
    <2> QED
      BY <1>0, <2>1, <2>2, <2>4
  <1>10. ASSUME Python!Release PROVE PythonFollows' /\ Python!FreesUnderTheLock
    <2>1. /\ worker = "release" /\ worker' = "idle"
          /\ UNCHANGED <<gil, interp, binding, stage, object, aborted>>
      BY <1>10 DEF Python!Release
    <2>2. BindingTypes' /\ WorkerHasEnded' /\ LockIsPlaced'
      BY <2>1 DEF BindingTypes, WorkerHasEnded, LockIsPlaced
    <2>3. interp # "gone" /\ gil # "worker"
      BY <2>1 DEF WorkerHasEnded, LockIsPlaced
    <2>4. function' = function \/ gil = None
      BY <1>10, <2>3 DEF Python!Release, Python!CanFree, Python!Gone, Python!Worker
    <2>5. Python!FreesUnderTheLock
      BY <2>4 DEF Python!FreesUnderTheLock
    <2> QED
      BY <2>1, <2>2, <2>5
  <1> QED
    BY <1>1, <1>2, <1>3, <1>4, <1>5, <1>6, <1>7, <1>8, <1>9, <1>10 DEF Python!Next

(* In an open interpreter no thread has called anything. *)
LEMMA PythonInit == ASSUME Python!Init PROVE PythonFollows
  BY ThreadsAssumption DEF Python!Init, PythonFollows, BindingTypes, WorkerHasEnded, LockIsPlaced, SixKinds

(* What joins the worker with the lock in its hand is a drop, and then the worker
   has ended. *)
LEMMA PythonRespects ==
  ASSUME PythonFollows
  PROVE  Python!JoinsWithoutTheLock /\ Python!NeverAborted
  <1>1. ASSUME NEW t \in Pythons, gil = t, stage[t] = "in", binding[t].joins
        PROVE  worker = "ended"
    <2>1. binding[t] \in SixKinds /\ ~binding[t].releases
      BY <1>1 DEF PythonFollows, BindingTypes, LockIsPlaced
    <2>2. binding[t] = Python!Drop
      BY <1>1, <2>1 DEF SixKinds, Python!Request, Python!HeldRequest, Python!Subscribe,
                        Python!Unsubscribe, Python!Stop, Python!Kind
    <2> QED
      BY <1>1, <2>2 DEF PythonFollows, WorkerHasEnded
  <1> QED
    BY <1>1 DEF Python!JoinsWithoutTheLock, Python!JoinsWorker, Python!NeverAborted, PythonFollows

(* A program that closes its objects before it drops them never joins a worker
   with the interpreter's lock in its hand, never has a worker end the process,
   and frees its callbacks under the lock. *)
THEOREM GilIsRespectedHolds ==
  ASSUME Careful
  PROVE  Spec => GilIsRespected
  <1> DEFINE Follows == part = "python" => PythonFollows
             Frees == part = "python" => Python!FreesUnderTheLock
  <1>1. Init => Follows
    BY PythonInit DEF Init
  <1>2. Follows /\ [Next]_vars => Follows' /\ (Frees \/ UNCHANGED vars)
    <2> SUFFICES ASSUME Follows, [Next]_vars PROVE Follows' /\ Frees
      OBVIOUS
    <2>1. CASE part = "python" /\ Python!Next /\ part' = part
      BY <2>1, PythonStep
    <2>2. CASE UNCHANGED <<part, gilVars>>
      BY <2>2 DEF gilVars, PythonFollows, BindingTypes, WorkerHasEnded, LockIsPlaced,
                  Python!FreesUnderTheLock
    <2>3. CASE part # "python" /\ part' = part
      BY <2>3
    <2> QED
      BY <2>1, <2>2, <2>3 DEF Next, vars, OfMcu, OfMotor
  <1>3. Follows => (part = "python" => Python!JoinsWithoutTheLock /\ Python!NeverAborted)
    BY PythonRespects
  <1> QED
    BY <1>1, <1>2, <1>3, PTL DEF Spec, GilIsRespected
=============================================================================
