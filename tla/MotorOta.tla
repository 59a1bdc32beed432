------------------------------ MODULE MotorOta ------------------------------
(***************************************************************************)
(* MotorOtaSession (motor_ota.hpp, motor_ota.cpp): the firmware of the     *)
(* follower's motor, pack by pack over CAN frames the MCU relays.  Every   *)
(* frame is answered before the next one is sent; an answer names the      *)
(* motor and the kind of frame but not the pack, so a late answer is taken *)
(* for that of the next frame of its kind.  The motor's bootloader is      *)
(* external: it keeps its own position, takes the pack it waits for, and   *)
(* answers anything else with the index to resume from.                    *)
(* Frames and answers may be lost or late, a CAN transmission may fail, an *)
(* answer may be cut short or name a position the image does not have; at  *)
(* most MaxFaults of these happen.  A pack may fail to be written any      *)
(* number of times.                                                        *)
(***************************************************************************)
EXTENDS Integers, Sequences

CONSTANTS
  MaxUpdates,     \* calls of update_from_bytes() made one after the other
  Packs,          \* the sizes of the images, in packs
  MaxImagePacks,  \* kMaxImageSize / 8
  IndexRange,     \* pack indices are sent modulo this (2^16 in the code)
  MaxAttempts,    \* Options::max_attempts
  StartAttempts,  \* Options::start_attempts
  MaxResumes,     \* Options::max_resumes
  MaxFaults       \* bound on the faults of the bus

VARIABLES
  mpc,       \* the frame waited for: "uid", "start", "info", "data", "end"; or "idle"
  mupdate,   \* the update under way, or the last one; 0 before the first
  packs,     \* its size
  cnt,       \* the pack to send next
  resumes,   \* rewinds the motor asked for
  waiting,   \* the frame was sent, the relay waits for an answer
  mattempt,  \* attempts made of this frame
  mtold,     \* what the caller was told last
  motor,     \* the bootloader: [mode, packs, pos, flash]
  bus,       \* answers on the CAN bus, in order
  mrunning,  \* the update whose image the motor runs, 0 for the one it came with,
             \* -1 for none, -2 for one that is not what was sent
  mfaults    \* faults so far

hostVars == <<mpc, mupdate, packs, cnt, resumes, waiting, mattempt, mtold>>
vars == <<hostVars, motor, bus, mrunning, mfaults>>

Frames == {"uid", "start", "info", "data", "end"}
Slots == 0 .. IndexRange
ErasedSlot == <<0, 0>>

-----------------------------------------------------------------------------
(* Replies are matched on id bits: the communication type, the motor, the  *)
(* host (or 0xFE for the UID).  For data the mask keeps bits 0, 3 and 4 of *)
(* the type, so that both documented types pass.                           *)

TypeOf == [uid |-> 0, start |-> 11, info |-> 12, data |-> 13, end |-> 14]

DataMaskAdmits(t) == t % 2 = 1 /\ (t \div 8) % 2 = 1 /\ (t \div 16) % 2 = 0

Admits(frame, t) == IF frame = "data" THEN DataMaskAdmits(t) ELSE t = TypeOf[frame]

Attempts(frame) == IF frame = "start" THEN StartAttempts ELSE MaxAttempts

(* make_id: the pack index has 16 bits of the frame's id. *)
PackIndex(n) == n % IndexRange

(* An answer: its type, whether it reports failure, the position it carries
   and whether its data field is long enough to hold one. *)
Reply(t, failed, to, whole) == [type |-> t, failed |-> failed, to |-> to, whole |-> whole]
Ack(frame) == Reply(TypeOf[frame], FALSE, 0, TRUE)

Fault ==
  /\ mfaults < MaxFaults
  /\ mfaults' = mfaults + 1

-----------------------------------------------------------------------------
(* The motor (external): what it does with a frame it hears.  An           *)
(* application answers for the UID and to OtaStart only.                   *)

Answer(reply) == bus' = Append(bus, reply)
Ask(position) == Answer(Reply(13, TRUE, position % IndexRange, TRUE))

Store(m) == [m EXCEPT !.flash[m.pos] = <<mupdate, cnt>>, !.pos = @ + 1]

HearsUid ==
  /\ mpc = "uid"
  /\ Answer(Ack("uid"))
  /\ UNCHANGED motor

HearsStart ==
  /\ mpc = "start"
  /\ \/ /\ motor' = [mode |-> "boot", packs |-> 0, pos |-> 0, flash |-> [s \in Slots |-> ErasedSlot]]
        /\ Answer(Ack("start"))
     \/ UNCHANGED motor /\ Answer(Reply(11, TRUE, 0, TRUE))

ApplicationIsSilent ==
  /\ mpc \in {"info", "data", "end"}
  /\ motor.mode = "app"
  /\ UNCHANGED <<motor, bus>>

HearsInfo ==
  /\ mpc = "info" /\ motor.mode = "boot"
  /\ motor' = [motor EXCEPT !.packs = packs]
  /\ Answer(Ack("info"))

(* The pack it waits for: taken, or not written and asked for again. *)
Expected == motor.pos < motor.packs /\ PackIndex(cnt) = PackIndex(motor.pos)

HearsData ==
  /\ mpc = "data" /\ motor.mode = "boot"
  /\ IF Expected
     THEN \/ motor' = Store(motor) /\ \E t \in {11, 13} : Answer(Reply(t, FALSE, 0, TRUE))
          \/ \E p \in 0 .. motor.pos : motor' = [motor EXCEPT !.pos = p] /\ Ask(p)
     ELSE /\ UNCHANGED motor
          /\ \/ Ask(motor.pos)
             \/ /\ motor.pos > 0 /\ PackIndex(cnt) = PackIndex(motor.pos - 1)
                /\ Answer(Ack("data"))

HearsEnd ==
  /\ mpc = "end" /\ motor.mode = "boot"
  /\ IF motor.pos = motor.packs
     THEN motor' = [motor EXCEPT !.mode = "app"] /\ Answer(Ack("end"))
     ELSE UNCHANGED motor /\ Answer(Reply(14, TRUE, motor.pos, TRUE))

MotorHears ==
  HearsUid \/ HearsStart \/ ApplicationIsSilent \/ HearsInfo \/ HearsData \/ HearsEnd

(* The image the motor starts after an accepted OtaEnd: this update's when it
   holds every pack of it. *)
StartedImage ==
  IF /\ motor.packs = packs
     /\ \A i \in 0 .. packs - 1 : motor.flash[i] = <<mupdate, i>>
  THEN mupdate
  ELSE -2

RunningAfter(m) ==
  IF m.mode = "boot" THEN -1
  ELSE IF motor.mode = "boot" THEN StartedImage ELSE mrunning

-----------------------------------------------------------------------------
(* exchange(): a frame is sent, the relay waits for the first answer that  *)
(* the mask admits, and the frame is sent again when none came.            *)

(* The next frame, whatever it is, starts with a fresh budget of attempts. *)
Await(frame) == mpc' = frame /\ waiting' = FALSE /\ mattempt' = 0

Return(how) ==
  /\ mpc' = "idle"
  /\ mtold' = how
  /\ UNCHANGED <<mupdate, packs, waiting, mattempt>>

Transmit ==
  /\ mpc \in Frames
  /\ ~waiting
  /\ waiting' = TRUE
  /\ mattempt' = mattempt + 1
  /\ \/ /\ MotorHears
        /\ mrunning' = RunningAfter(motor')
        /\ UNCHANGED mfaults
     \/ /\ Fault
        /\ UNCHANGED <<motor, mrunning, bus>>
  /\ UNCHANGED <<mpc, mupdate, packs, cnt, resumes, mtold>>

(* The frame never left the MCU: IoError, whatever the attempt. *)
TxFailed ==
  /\ mpc \in Frames
  /\ ~waiting
  /\ Fault
  /\ Return("failed")
  /\ UNCHANGED <<cnt, resumes, motor, bus, mrunning>>

Matching == {i \in DOMAIN bus : Admits(mpc, bus[i].type)}

(* The relay's wait runs out: nothing matched, or the answer is late. *)
NoReply ==
  /\ waiting
  /\ IF Matching = {} THEN UNCHANGED mfaults ELSE Fault
  /\ \/ mattempt < Attempts(mpc) /\ waiting' = FALSE /\ UNCHANGED <<mpc, mtold, mattempt>>
     \/ mattempt = Attempts(mpc) /\ mpc' = "idle" /\ mtold' = "failed"
        /\ waiting' = FALSE /\ UNCHANGED mattempt
  /\ UNCHANGED <<mupdate, packs, cnt, resumes, motor, bus, mrunning>>

(* The answers on the bus: one is lost, cut short, or names a position the
   image does not have; or the motor sends something nobody asked for, a status
   report (type 2) or a type the mask for data admits. *)
Garble ==
  /\ bus # <<>>
  /\ Fault
  /\ \/ bus' = Tail(bus)
     \/ \E t \in {2, 15} : bus' = <<Reply(t, FALSE, 0, TRUE)>> \o bus
     \/ bus' = <<[Head(bus) EXCEPT !.whole = FALSE]>> \o Tail(bus)
     \/ bus' = <<[Head(bus) EXCEPT !.to = packs + 1]>> \o Tail(bus)
  /\ UNCHANGED <<hostVars, motor, mrunning>>

(* The relay returns the first answer the mask admits; those before it are gone. *)
Received(r) ==
  /\ waiting
  /\ waiting' = FALSE
  /\ \E i \in Matching :
       /\ \A j \in Matching : i <= j
       /\ r = bus[i]
       /\ bus' = SubSeq(bus, i + 1, Len(bus))
  /\ UNCHANGED <<motor, mrunning, mfaults, mupdate, packs>>

Answers == {bus[i] : i \in DOMAIN bus}

-----------------------------------------------------------------------------
(* update_from_bytes() *)

BeginUpdate ==
  /\ mpc = "idle"
  /\ mtold # "pending"
  /\ mupdate < MaxUpdates
  /\ mupdate' = mupdate + 1
  /\ \E n \in Packs : packs' = n
  /\ cnt' = 0
  /\ resumes' = 0
  /\ mtold' = "pending"
  /\ UNCHANGED <<mpc, waiting, mattempt, motor, bus, mrunning, mfaults>>

SizeFits == packs \in 1 .. MaxImagePacks

(* Refused before a frame is sent: an image of a wrong size, or preflight()
   found the motor on the MIT protocol or of another model. *)
Refuse ==
  /\ mpc = "idle"
  /\ mtold = "pending"
  /\ mtold' = "failed"
  /\ UNCHANGED <<mpc, mupdate, packs, cnt, resumes, waiting, mattempt,
                 motor, bus, mrunning, mfaults>>

ReadUid ==
  /\ mpc = "idle"
  /\ mtold = "pending"
  /\ SizeFits
  /\ Await("uid")
  /\ UNCHANGED <<mupdate, packs, cnt, resumes, mtold, motor, bus, mrunning, mfaults>>

(* uid -> start -> info -> data, each on success of the one before. *)
Handshake ==
  \E r \in Answers :
    /\ mpc \in {"uid", "start", "info"}
    /\ Received(r)
    /\ ~r.failed
    /\ mpc = "uid" => r.whole
    /\ mpc' = [uid |-> "start", start |-> "info", info |-> "data"][mpc]
    /\ mattempt' = 0
    /\ UNCHANGED <<cnt, resumes, mtold>>

HandshakeRefused ==
  \E r \in Answers :
    /\ mpc \in {"uid", "start", "info"}
    /\ Received(r)
    /\ r.failed \/ (mpc = "uid" /\ ~r.whole)
    /\ mpc' = "idle"
    /\ mtold' = "failed"
    /\ UNCHANGED <<mattempt, cnt, resumes>>

(* A pack was taken: the next one, or OtaEnd when all are through. *)
PackTaken ==
  \E r \in Answers :
    /\ mpc = "data"
    /\ Received(r)
    /\ r.type \in {TypeOf["data"], TypeOf["start"]}
    /\ ~r.failed
    /\ cnt' = cnt + 1
    /\ mpc' = IF cnt + 1 < packs THEN "data" ELSE "end"
    /\ mattempt' = 0
    /\ UNCHANGED <<resumes, mtold>>

(* rewind: the motor asks for an earlier (or a later) pack, at most MaxResumes times. *)
MayRewind(to) == to <= packs /\ resumes < MaxResumes

CountResume(n) == n + 1

Rewind ==
  \E r \in Answers :
    /\ mpc \in {"data", "end"}
    /\ Received(r)
    /\ mpc = "data" => r.type \in {TypeOf["data"], TypeOf["start"]}
    /\ r.failed /\ r.whole
    /\ MayRewind(r.to)
    /\ mpc = "end" => r.to < packs
    /\ cnt' = r.to
    /\ resumes' = CountResume(resumes)
    /\ mpc' = IF r.to < packs THEN "data" ELSE "end"
    /\ mattempt' = 0
    /\ UNCHANGED mtold

(* An answer nothing can be made of: an unexpected type, no position, one
   beyond the image, or one resume too many. *)
Unusable ==
  \E r \in Answers :
    /\ mpc \in {"data", "end"}
    /\ Received(r)
    /\ \/ mpc = "data" /\ r.type \notin {TypeOf["data"], TypeOf["start"]}
       \/ r.failed /\ ~(r.whole /\ MayRewind(r.to) /\ (mpc = "end" => r.to < packs))
    /\ mpc' = "idle"
    /\ mtold' = "failed"
    /\ UNCHANGED <<mattempt, cnt, resumes>>

Finish ==
  \E r \in Answers :
    /\ mpc = "end"
    /\ Received(r)
    /\ ~r.failed
    /\ mpc' = "idle"
    /\ mtold' = "ok"
    /\ UNCHANGED <<mattempt, cnt, resumes>>

(* on_progress() throws, after a pack (every 256th is reported, here any may be)
   or after the accepted OtaEnd: the call fails, whatever the motor runs by then. *)
CallbackThrows ==
  \E r \in Answers :
    /\ mpc \in {"data", "end"}
    /\ Received(r)
    /\ mpc = "data" => r.type \in {TypeOf["data"], TypeOf["start"]}
    /\ ~r.failed
    /\ cnt' = IF mpc = "data" THEN cnt + 1 ELSE cnt
    /\ mpc' = "idle"
    /\ mtold' = "failed"
    /\ UNCHANGED <<mattempt, resumes>>

-----------------------------------------------------------------------------
Init ==
  /\ mpc = "idle"
  /\ mupdate = 0
  /\ packs = 0
  /\ cnt = 0
  /\ resumes = 0
  /\ waiting = FALSE
  /\ mattempt = 0
  /\ mtold = "none"
  /\ motor = [mode |-> "app", packs |-> 0, pos |-> 0, flash |-> [s \in Slots |-> ErasedSlot]]
  /\ bus = <<>>
  /\ mrunning = 0
  /\ mfaults = 0

HostNext ==
  \/ Refuse \/ ReadUid \/ Transmit \/ NoReply \/ Handshake \/ HandshakeRefused
  \/ PackTaken \/ Rewind \/ Unusable \/ Finish

Next == BeginUpdate \/ HostNext \/ CallbackThrows \/ TxFailed \/ Garble

(* The calling thread goes on: every transfer ends with an answer or with its
   time-out.  Nobody must call again. *)
Fairness == WF_vars(HostNext)

Spec == Init /\ [][Next]_vars /\ Fairness

-----------------------------------------------------------------------------
TypeOK ==
  /\ mpc \in Frames \union {"idle"}
  /\ mupdate \in 0 .. MaxUpdates
  /\ cnt \in 0 .. packs
  /\ resumes \in 0 .. MaxResumes
  /\ mattempt \in 0 .. StartAttempts
  /\ mtold \in {"none", "pending", "ok", "failed"}
  /\ motor.mode \in {"app", "boot"}
  /\ motor.pos \in 0 .. motor.packs
  /\ mrunning \in -2 .. MaxUpdates

(* What the bootloader holds is what was sent for that place: the index that
   numbers a pack on the wire (motor_ota.cpp:212) never stands for two packs,
   however often the cursor was rewound, resent or moved by a late answer. *)
PacksInPlace ==
  motor.mode = "boot" =>
    \A i \in 0 .. motor.pos - 1 : motor.flash[i][2] = i

(* A call returns: a silent motor ends it through the attempts, one that never
   takes a pack through MaxResumes. *)
UpdateEnds == (mtold = "pending") ~> (mtold # "pending")

(* The update as its caller sees it: the motor has no application from
   OtaStart on, and runs one again when OtaEnd is accepted. *)
Caller == INSTANCE AtomicUpdate WITH
  Updates <- 1 .. MaxUpdates,
  Old <- 0,
  None <- -1,
  MayErase <- TRUE,
  running <- mrunning,
  offered <- 1 .. mupdate,
  current <- mupdate,
  told <- mtold

(* MotorOtaSession implements AtomicUpdate: success is reported only of a
   motor that runs the image it was given. *)
Implements == Caller!Spec

=============================================================================
