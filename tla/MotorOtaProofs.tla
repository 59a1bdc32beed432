--------------------------- MODULE MotorOtaProofs ---------------------------
(***************************************************************************)
(* Every pack of the motor's image lands in its place, and the update      *)
(* implements AtomicUpdate, for any number of updates, faults and attempts *)
(* and images of any size the session accepts.  The second holds as long   *)
(* as no answer to an earlier OtaStart is left on the bus when an update   *)
(* begins: a reply names the motor and the kind of frame, not the update   *)
(* (motor_ota.cpp:20-31), so such an answer would be taken for this one's. *)
(***************************************************************************)
EXTENDS MotorOta, TLAPS

(* kMaxImageSize is 8 bytes for every pack index of 16 bits. *)
Parameters ==
  /\ IndexRange \in Nat \ {0}
  /\ MaxImagePacks \in Nat
  /\ MaxImagePacks <= IndexRange
  /\ Packs \subseteq Nat
  /\ MaxUpdates \in Nat

-----------------------------------------------------------------------------
(* The inductive invariant. *)

Replies == [type : Nat, failed : BOOLEAN, to : Nat, whole : BOOLEAN]

Types ==
  /\ mpc \in Frames \union {"idle"}
  /\ mupdate \in 0 .. MaxUpdates
  /\ packs \in Nat
  /\ cnt \in Nat
  /\ waiting \in BOOLEAN
  /\ mtold \in {"none", "pending", "ok", "failed"}
  /\ motor \in [mode : {"app", "boot"}, packs : Nat, pos : Nat, flash : [Slots -> Nat \X Nat]]
  /\ motor.packs <= MaxImagePacks
  /\ motor.pos <= motor.packs
  /\ bus \in Seq(Replies)
  /\ mrunning \in Int

(* A frame is under way only for a caller that waits, of an image that fits,
   and the cursor is where the frame says. *)
Asked ==
  /\ mpc # "idle" => mtold = "pending" /\ SizeFits
  /\ waiting => mpc # "idle"
  /\ mtold = "pending" => mupdate > 0
  /\ mtold = "pending" /\ mpc \in {"idle", "uid", "start", "info"} => cnt = 0
  /\ mpc = "data" => cnt < packs

(* The motor says that it took an OtaStart. *)
Started(reply) == reply.type = 11 /\ ~reply.failed
NoneStarted == \A k \in DOMAIN bus : ~Started(bus[k])

(* No answer to OtaStart is there before it is sent. *)
NotYetStarted == mtold = "pending" /\ mpc \in {"idle", "uid"} => NoneStarted

(* From the accepted OtaStart to the first pack the motor is empty. *)
Erased ==
  (mpc = "start" /\ ~NoneStarted) \/ mpc = "info" =>
    motor.mode = "boot" /\ motor.pos = 0 /\ motor.packs \in {0, packs}

(* The bus keeps its order: behind the answer to OtaStart no older answer follows. *)
InTurn ==
  mpc = "start" =>
    \A i, j \in DOMAIN bus : i <= j /\ Started(bus[i]) => bus[j].type \notin {12, 14}

(* An answer to OtaInfo is one of a motor that knows this image's size. *)
Informed ==
  mpc = "info" =>
    \A i \in DOMAIN bus : bus[i].type # 14 /\ (bus[i].type = 12 => motor.packs = packs)

(* While packs are sent, the motor holds those of this image up to its
   position, or has started the image. *)
Filled ==
  mpc \in {"data", "end"} =>
    \/ /\ motor.mode = "boot"
       /\ motor.packs = packs
       /\ \A i \in 0 .. motor.pos - 1 : motor.flash[i] = <<mupdate, i>>
    \/ motor.mode = "app" /\ mrunning = mupdate

(* OtaEnd is accepted by a motor that starts the image. *)
Ended ==
  mpc \in {"data", "end"} =>
    \A i \in DOMAIN bus : bus[i].type = 14 /\ ~bus[i].failed => motor.mode = "app"

UpdateConsistent ==
  /\ Types /\ Asked /\ NotYetStarted /\ Erased /\ InTurn
  /\ Informed /\ Filled /\ Ended

-----------------------------------------------------------------------------
(* The bus. *)

(* What is on the bus afterwards was there before, in the same order, or is a
   frame the motor was not asked for. *)
Shifted(d) ==
  \A k \in DOMAIN bus' :
    \/ bus'[k].type \in {2, 15}
    \/ /\ k + d \in DOMAIN bus
       /\ bus'[k].type = bus[k + d].type
       /\ bus'[k].failed = bus[k + d].failed

BusTypes == bus \in Seq(Replies) /\ packs \in Nat

(* An answer is put behind those that are there. *)
LEMMA Appended ==
  ASSUME BusTypes, NEW x \in Replies, Answer(x)
  PROVE  /\ bus' \in Seq(Replies)
         /\ Len(bus) + 1 \in DOMAIN bus' /\ bus'[Len(bus) + 1] = x
         /\ Len(bus) + 1 \notin DOMAIN bus
         /\ \A k \in DOMAIN bus : k < Len(bus) + 1
         /\ \A k \in DOMAIN bus' : k = Len(bus) + 1 \/ (k \in DOMAIN bus /\ bus'[k] = bus[k])
  <1> DEFINE n == Len(bus)
  <1>1. n \in Nat /\ DOMAIN bus = 1 .. n /\ bus \in Seq(Replies) /\ bus' = Append(bus, x)
    BY DEF BusTypes, Answer
  <1>2. bus' \in Seq(Replies) /\ Len(bus') = n + 1 /\ DOMAIN bus' = 1 .. n + 1
    BY <1>1
  <1>3. bus'[n + 1] = x /\ \A k \in 1 .. n : bus'[k] = bus[k]
    BY <1>1
  <1> HIDE DEF n
  <1>4. /\ n + 1 \in DOMAIN bus' /\ n + 1 \notin DOMAIN bus
        /\ \A k \in DOMAIN bus : k < n + 1
    BY <1>1, <1>2
  <1>5. \A k \in DOMAIN bus' : k = n + 1 \/ (k \in DOMAIN bus /\ bus'[k] = bus[k])
    <2> TAKE k \in DOMAIN bus'
    <2>1. k = n + 1 \/ k \in 1 .. n
      BY <1>1, <1>2
    <2>2. ASSUME k \in 1 .. n PROVE k \in DOMAIN bus /\ bus'[k] = bus[k]
      BY <1>1, <1>3, <2>2, Zenon
    <2> QED
      BY <2>1, <2>2, Zenon
  <1> QED
    BY <1>2, <1>3, <1>4, <1>5 DEF n

(* Garble keeps the order of the answers and adds none of a kind that is waited for. *)
LEMMA GarbleShifts ==
  ASSUME BusTypes, Garble
  PROVE  bus' \in Seq(Replies) /\ \E d \in Int : Shifted(d)
  <1> USE DEF BusTypes
  <1>0. Len(bus) \in Nat \ {0} /\ DOMAIN bus = 1 .. Len(bus) /\ Head(bus) = bus[1]
        /\ Head(bus) \in Replies
    BY DEF Garble
  <1>1. CASE bus' = Tail(bus)
    <2>1. bus' \in Seq(Replies) /\ Len(bus') = Len(bus) - 1
          /\ \A k \in 1 .. Len(bus) - 1 : bus'[k] = bus[k + 1]
      BY <1>0, <1>1
    <2>2. \A k \in DOMAIN bus' : k + 1 \in DOMAIN bus /\ bus'[k] = bus[k + 1]
      BY <1>0, <2>1
    <2>3. Shifted(1)
      BY <2>2, Zenon DEF Shifted
    <2> QED
      BY <2>1, <2>3
  <1>2. CASE \E t \in {2, 15} : bus' = <<Reply(t, FALSE, 0, TRUE)>> \o bus
    <2>1. PICK t \in {2, 15} : bus' = <<Reply(t, FALSE, 0, TRUE)>> \o bus
      BY <1>2
    <2>2. Reply(t, FALSE, 0, TRUE) \in Replies /\ Reply(t, FALSE, 0, TRUE).type = t
      BY DEF Reply, Replies
    <2> HIDE DEF Reply
    <2>3. bus' \in Seq(Replies) /\ Len(bus') = Len(bus) + 1
          /\ bus'[1] = Reply(t, FALSE, 0, TRUE)
          /\ \A k \in 1 .. Len(bus) : bus'[k + 1] = bus[k]
      <3> DEFINE x == Reply(t, FALSE, 0, TRUE)
      <3>1. x \in Replies /\ bus' = <<x>> \o bus
        BY <2>1, <2>2
      <3> HIDE DEF x
      <3>2. bus' \in Seq(Replies) /\ Len(bus') = Len(bus) + 1 /\ bus'[1] = x
        BY <1>0, <3>1
      <3>3. \A k \in 1 .. Len(bus) : bus'[k + 1] = bus[k]
        BY <1>0, <3>1
      <3> QED
        BY <3>2, <3>3 DEF x
    <2>4. Shifted(-1)
      <3> SUFFICES ASSUME NEW k \in DOMAIN bus', bus'[k].type \notin {2, 15}
                   PROVE  k + (-1) \in DOMAIN bus /\ bus'[k] = bus[k + (-1)]
        BY Zenon DEF Shifted
      <3>1. k \in 2 .. Len(bus) + 1
        <4>1. k \in 1 .. Len(bus) + 1
          BY <2>3
        <4>2. k # 1
          BY <2>2, <2>3
        <4> QED
          BY <1>0, <4>1, <4>2
      <3>2. k - 1 \in 1 .. Len(bus) /\ k + (-1) = k - 1 /\ (k - 1) + 1 = k
        BY <1>0, <3>1
      <3> QED
        BY <1>0, <2>3, <3>2
    <2> QED
      BY <2>3, <2>4
  <1>3. ASSUME NEW x \in Replies, bus' = <<x>> \o Tail(bus),
               x.type = Head(bus).type, x.failed = Head(bus).failed
        PROVE  bus' \in Seq(Replies) /\ \E d \in Int : Shifted(d)
    <2>1. bus' \in Seq(Replies) /\ Len(bus') = Len(bus) /\ bus'[1] = x
          /\ \A k \in 2 .. Len(bus) : bus'[k] = bus[k]
      BY <1>0, <1>3
    <2>2. Shifted(0)
      BY <1>0, <1>3, <2>1 DEF Shifted
    <2> QED
      BY <2>1, <2>2
  <1>4. CASE bus' = <<[Head(bus) EXCEPT !.whole = FALSE]>> \o Tail(bus)
    <2>1. [Head(bus) EXCEPT !.whole = FALSE] \in Replies
          /\ [Head(bus) EXCEPT !.whole = FALSE].type = Head(bus).type
          /\ [Head(bus) EXCEPT !.whole = FALSE].failed = Head(bus).failed
      BY <1>0 DEF Replies
    <2> QED
      BY <1>3, <1>4, <2>1
  <1>5. CASE bus' = <<[Head(bus) EXCEPT !.to = packs + 1]>> \o Tail(bus)
    <2> DEFINE n == packs + 1
    <2>0. n \in Nat
      OBVIOUS
    <2> HIDE DEF n
    <2>1. [Head(bus) EXCEPT !.to = n] \in Replies
          /\ [Head(bus) EXCEPT !.to = n].type = Head(bus).type
          /\ [Head(bus) EXCEPT !.to = n].failed = Head(bus).failed
      BY <1>0, <2>0 DEF Replies
    <2> USE DEF n
    <2> QED
      BY <1>3, <1>5, <2>1
  <1> QED
    BY <1>1, <1>2, <1>4, <1>5 DEF Garble

(* Taking an answer takes those before it as well. *)
LEMMA ReceivedShifts ==
  ASSUME BusTypes, NEW r, Received(r)
  PROVE  \E i \in DOMAIN bus :
           /\ r = bus[i] /\ r \in Replies
           /\ Admits(mpc, r.type)
           /\ \A j \in DOMAIN bus : Admits(mpc, bus[j].type) => i <= j
           /\ i \in Nat
           /\ bus' \in Seq(Replies)
           /\ \A k \in DOMAIN bus' : k + i \in DOMAIN bus /\ bus'[k] = bus[k + i]
  <1> USE DEF BusTypes
  <1>1. PICK i \in Matching : /\ \A j \in Matching : i <= j
                              /\ r = bus[i]
                              /\ bus' = SubSeq(bus, i + 1, Len(bus))
    BY DEF Received
  <1>2. i \in DOMAIN bus /\ Admits(mpc, r.type) /\ i \in 1 .. Len(bus) /\ r \in Replies
    BY <1>1 DEF Matching
  <1>3. bus' \in Seq(Replies) /\ Len(bus') = Len(bus) - i
        /\ \A k \in 1 .. Len(bus) - i : bus'[k] = bus[k + i]
    BY <1>1, <1>2
  <1>4. \A k \in DOMAIN bus' : k + i \in DOMAIN bus /\ bus'[k] = bus[k + i]
    BY <1>2, <1>3
  <1>5. \A j \in DOMAIN bus : Admits(mpc, bus[j].type) => i <= j
    BY <1>1 DEF Matching
  <1>6. i \in Nat /\ r = bus[i]
    BY <1>1, <1>2
  <1> QED
    BY <1>2, <1>3, <1>4, <1>5, <1>6, Zenon

(* An index below the range stands for itself. *)
LEMMA IndexIs ==
  ASSUME Parameters, NEW a \in 0 .. IndexRange - 1
  PROVE  PackIndex(a) = a
  BY DEF Parameters, PackIndex


-----------------------------------------------------------------------------
(* Init. *)
LEMMA InitConsistent ==
  ASSUME Parameters, Init
  PROVE  UpdateConsistent
  <1>1. Types
    <2>1. motor \in [mode : {"app", "boot"}, packs : Nat, pos : Nat, flash : [Slots -> Nat \X Nat]]
      BY DEF Init, ErasedSlot
    <2>2. bus \in Seq(Replies)
      BY DEF Init
    <2>3. motor.packs = 0 /\ motor.pos = 0
      BY DEF Init
    <2>4. 0 <= MaxImagePacks /\ 0 \in 0 .. MaxUpdates
      BY DEF Parameters
    <2>5. mpc = "idle" /\ mupdate = 0 /\ packs = 0 /\ cnt = 0 /\ waiting = FALSE
          /\ mtold = "none" /\ mrunning = 0
      BY DEF Init
    <2>6. motor.packs <= MaxImagePacks /\ motor.pos <= motor.packs
      BY <2>3, <2>4
    <2>7. /\ mupdate \in 0 .. MaxUpdates /\ packs \in Nat
          /\ cnt \in Nat /\ mrunning \in Int
      BY <2>4, <2>5
    <2>8. /\ mpc \in Frames \union {"idle"} /\ waiting \in BOOLEAN
          /\ mtold \in {"none", "pending", "ok", "failed"}
      BY <2>5, Zenon
    <2> QED
      BY <2>1, <2>2, <2>6, <2>7, <2>8, Zenon DEF Types
  <1> QED
    BY <1>1 DEF UpdateConsistent, Init, Asked, NotYetStarted, Erased, InTurn, Informed,
                      Filled, Ended, NoneStarted

(* The caller's own steps: nothing is sent and nothing taken from the bus. *)
LEMMA CallerConsistent ==
  ASSUME Parameters, UpdateConsistent,
         (BeginUpdate /\ NoneStarted) \/ Refuse \/ ReadUid \/ TxFailed \/ NoReply
  PROVE  UpdateConsistent'
  <1> USE DEF UpdateConsistent
  <1>u. UNCHANGED <<motor, bus, mrunning>>
    BY DEF BeginUpdate, Refuse, ReadUid, TxFailed, NoReply
  <1>s. NoneStarted' = NoneStarted
    BY <1>u DEF NoneStarted
  <1>1. CASE BeginUpdate /\ NoneStarted
    <2> USE <1>1, <1>u DEF BeginUpdate
    <2>1. Types'
      BY DEF Types, Parameters
    <2>2. Asked'
      BY DEF Asked, Types
    <2>3. NotYetStarted' /\ Erased' /\ InTurn' /\ Informed' /\ Filled' /\ Ended'
      BY <1>s DEF NotYetStarted, Erased, InTurn, Informed, Filled, Ended
    <2> QED
      BY <2>1, <2>2, <2>3
  <1>2. CASE Refuse
    <2> USE <1>2, <1>u DEF Refuse
    <2>1. Types'
      BY DEF Types
    <2>2. Asked'
      BY DEF Asked
    <2>3. NotYetStarted' /\ Erased' /\ InTurn' /\ Informed' /\ Filled' /\ Ended'
      BY <1>s DEF NotYetStarted, Erased, InTurn, Informed, Filled, Ended
    <2> QED
      BY <2>1, <2>2, <2>3
  <1>3. CASE ReadUid
    <2> USE <1>3, <1>u DEF ReadUid, Await
    <2>1. Types'
      BY DEF Types, Frames
    <2>2. Asked'
      BY DEF Asked, SizeFits
    <2>3. NotYetStarted' /\ Erased' /\ InTurn' /\ Informed' /\ Filled' /\ Ended'
      BY <1>s DEF NotYetStarted, Erased, InTurn, Informed, Filled, Ended
    <2> QED
      BY <2>1, <2>2, <2>3
  <1>4. ASSUME mpc' = "idle", mtold' = "failed", UNCHANGED <<mupdate, packs, cnt>>,
               waiting' = FALSE
        PROVE  UpdateConsistent'
    <2> USE <1>4, <1>u
    <2>1. Types'
      BY DEF Types
    <2>2. Asked'
      BY DEF Asked
    <2>3. NotYetStarted' /\ Erased' /\ InTurn' /\ Informed' /\ Filled' /\ Ended'
      BY <1>s DEF NotYetStarted, Erased, InTurn, Informed, Filled, Ended
    <2> QED
      BY <2>1, <2>2, <2>3
  <1>5. CASE TxFailed
    BY <1>4, <1>5 DEF TxFailed, Return, Types
  <1>6. CASE NoReply
    <2>1. CASE mpc' = "idle"
      BY <1>4, <1>6, <2>1 DEF NoReply, Asked
    <2>2. CASE UNCHANGED <<mpc, mtold>>
      <3> USE <1>6, <2>2, <1>u DEF NoReply
      <3>1. Types'
        BY DEF Types
      <3>2. Asked'
        BY DEF Asked, SizeFits
      <3>3. NotYetStarted' /\ Erased' /\ InTurn' /\ Informed' /\ Filled' /\ Ended'
        BY <1>s DEF NotYetStarted, Erased, InTurn, Informed, Filled, Ended, Started
      <3> QED
        BY <3>1, <3>2, <3>3
    <2> QED
      BY <1>6, <2>1, <2>2 DEF NoReply
  <1> QED
    BY <1>1, <1>2, <1>3, <1>5, <1>6

(* Whatever befalls the answers on the bus, none appears that the motor did not give. *)
LEMMA GarbleConsistent ==
  ASSUME UpdateConsistent, Garble
  PROVE  UpdateConsistent'
  <1> USE DEF UpdateConsistent
  <1>u. UNCHANGED <<hostVars, motor, mrunning>>
    BY DEF Garble
  <1>g. bus' \in Seq(Replies) /\ \E d \in Int : Shifted(d)
    BY GarbleShifts DEF BusTypes, Types
  <1>d. PICK d \in Int : Shifted(d)
    BY <1>g
  <1>f. \A k \in DOMAIN bus' : k \in Int
    BY <1>g
  <1>n. NoneStarted => NoneStarted'
    BY <1>d DEF Shifted, NoneStarted, Started
  <1>1. Types'
    BY <1>u, <1>g DEF Types, hostVars
  <1>2. Asked'
    BY <1>u DEF Asked, hostVars, SizeFits
  <1>3. NotYetStarted'
    BY <1>u, <1>n DEF NotYetStarted, hostVars
  <1>4. Erased'
    BY <1>u, <1>n DEF Erased, hostVars
  <1>5. InTurn'
    <2> SUFFICES ASSUME mpc = "start", NEW i \in DOMAIN bus', NEW j \in DOMAIN bus',
                        i <= j, Started(bus'[i])
                 PROVE  bus'[j].type \notin {12, 14}
      BY <1>u DEF InTurn, hostVars, Started
    <2>1. i + d \in DOMAIN bus /\ Started(bus[i + d])
      BY <1>d DEF Shifted, Started
    <2>2. CASE bus'[j].type \in {2, 15}
      BY <2>2
    <2>3. CASE j + d \in DOMAIN bus /\ bus'[j].type = bus[j + d].type
      <3>1. i + d <= j + d
        BY <1>f
      <3> QED
        BY <2>1, <2>3, <3>1 DEF InTurn
    <2> QED
      BY <1>d, <2>2, <2>3 DEF Shifted
  <1>6. Informed'
    <2> SUFFICES ASSUME mpc = "info", NEW i \in DOMAIN bus'
                 PROVE  bus'[i].type # 14 /\ (bus'[i].type = 12 => motor.packs = packs)
      BY <1>u DEF Informed, hostVars
    <2>1. bus'[i].type \in {2, 15} \/ \E k \in DOMAIN bus : bus'[i].type = bus[k].type
      BY <1>d DEF Shifted
    <2> QED
      BY <2>1 DEF Informed
  <1>7. Filled'
    BY <1>u DEF Filled, hostVars
  <1>8. Ended'
    <2> SUFFICES ASSUME mpc \in {"data", "end"}, NEW i \in DOMAIN bus',
                        bus'[i].type = 14, ~bus'[i].failed
                 PROVE  motor.mode = "app"
      BY <1>u DEF Ended, hostVars
    <2>1. i + d \in DOMAIN bus /\ bus[i + d].type = 14 /\ ~bus[i + d].failed
      BY <1>d DEF Shifted
    <2> QED
      BY <2>1 DEF Ended
  <1> QED
    BY <1>1, <1>2, <1>3, <1>4, <1>5, <1>6, <1>7, <1>8


-----------------------------------------------------------------------------
(* The answers a frame's mask admits. *)
LEMMA Admitted ==
  ASSUME NEW r \in Replies, mpc \in Frames, Admits(mpc, r.type)
  PROVE  /\ mpc = "uid" => r.type = 0
         /\ mpc = "start" => r.type = 11
         /\ mpc = "info" => r.type = 12
         /\ mpc = "end" => r.type = 14
  BY DEF Admits, TypeOf, Frames

(* The wait for OtaStart takes every answer to OtaStart. *)
LEMMA StartIsAdmitted == ASSUME mpc = "start" PROVE Admits(mpc, 11)
  BY DEF Admits, TypeOf

(* An answer is taken and the update goes on or ends. *)
LEMMA AnswerConsistent ==
  ASSUME Parameters, UpdateConsistent,
         Handshake \/ HandshakeRefused \/ PackTaken \/ Rewind \/ Unusable \/ Finish
         \/ CallbackThrows
  PROVE  UpdateConsistent'
  <1> USE DEF UpdateConsistent
  <1>0. PICK r \in Answers : Received(r) /\
          \/ Handshake /\ ~r.failed /\ mpc \in {"uid", "start", "info"}
          \/ HandshakeRefused \/ PackTaken \/ Rewind \/ Unusable \/ Finish \/ CallbackThrows
    BY DEF Handshake, HandshakeRefused, PackTaken, Rewind, Unusable, Finish, CallbackThrows
  <1>u. UNCHANGED <<motor, mrunning, mupdate, packs>> /\ waiting' = FALSE
    BY <1>0 DEF Received
  <1>w. mtold = "pending" /\ SizeFits
    BY <1>0 DEF Received, Asked
  <1>c. BusTypes
    BY DEF BusTypes, Types
  <1>b. PICK i \in DOMAIN bus :
           /\ r = bus[i] /\ r \in Replies
           /\ Admits(mpc, r.type)
           /\ \A j \in DOMAIN bus : Admits(mpc, bus[j].type) => i <= j
           /\ i \in Nat
           /\ bus' \in Seq(Replies)
           /\ \A k \in DOMAIN bus' : k + i \in DOMAIN bus /\ bus'[k] = bus[k + i]
    BY <1>0, <1>c, ReceivedShifts, Zenon
  <1>1. ASSUME mpc' = "idle", mtold' # "pending",
               mtold' \in {"ok", "failed"}, cnt' \in Nat
        PROVE  UpdateConsistent'
    <2> USE <1>1, <1>u, <1>b
    <2>1. Types'
      BY DEF Types
    <2>2. Asked'
      BY DEF Asked
    <2>3. NotYetStarted' /\ Erased' /\ InTurn' /\ Informed' /\ Filled' /\ Ended'
      BY DEF NotYetStarted, Erased, InTurn, Informed, Filled, Ended
    <2> QED
      BY <2>1, <2>2, <2>3
  <1>2. ASSUME Handshake, mpc = "uid"
        PROVE  UpdateConsistent'
    <2>u. mpc' = "start" /\ UNCHANGED <<cnt, mtold>>
      BY <1>2 DEF Handshake
    <2>n. NoneStarted /\ NoneStarted'
      BY <1>b, <1>2, <1>w DEF NotYetStarted, NoneStarted
    <2>1. Types'
      BY <1>u, <1>b, <2>u DEF Types, Frames
    <2>2. Asked'
      BY <1>u, <1>w, <1>2, <2>u DEF Asked, SizeFits
    <2>3. NotYetStarted' /\ Erased' /\ InTurn' /\ Informed' /\ Filled' /\ Ended'
      BY <2>u, <2>n DEF NotYetStarted, Erased, InTurn, Informed, Filled, Ended, NoneStarted
    <2> QED
      BY <2>1, <2>2, <2>3
  <1>3. ASSUME Handshake, mpc = "start", ~r.failed
        PROVE  UpdateConsistent'
    <2>u. mpc' = "info" /\ UNCHANGED <<cnt, mtold>>
      BY <1>3 DEF Handshake
    <2>s. r.type = 11 /\ Started(bus[i])
      BY <1>b, <1>3, Admitted DEF Started, Frames
    <2>1. Types'
      BY <1>u, <1>b, <2>u DEF Types, Frames
    <2>2. Asked'
      BY <1>u, <1>w, <1>3, <2>u DEF Asked, SizeFits
    <2>3. Erased'
      BY <1>u, <1>3, <2>u, <2>s DEF Erased, NoneStarted
    <2>4. Informed'
      <3> SUFFICES ASSUME NEW k \in DOMAIN bus'
                   PROVE  bus'[k].type \notin {12, 14}
        BY DEF Informed
      <3>1. k + i \in DOMAIN bus /\ bus'[k] = bus[k + i] /\ i <= k + i
        BY <1>b
      <3> QED
        BY <1>3, <2>s, <3>1 DEF InTurn
    <2>5. NotYetStarted' /\ InTurn' /\ Filled' /\ Ended'
      BY <2>u DEF NotYetStarted, InTurn, Filled, Ended
    <2> QED
      BY <2>1, <2>2, <2>3, <2>4, <2>5
  <1>4. ASSUME Handshake, mpc = "info"
        PROVE  UpdateConsistent'
    <2>u. mpc' = "data" /\ UNCHANGED <<cnt, mtold>>
      BY <1>4 DEF Handshake
    <2>s. r.type = 12 /\ motor.packs = packs
      BY <1>b, <1>4, Admitted DEF Informed, Frames
    <2>1. Types'
      BY <1>u, <1>b, <2>u DEF Types, Frames
    <2>2. Asked'
      BY <1>u, <1>w, <1>4, <2>u DEF Asked, SizeFits
    <2>3. Filled'
      <3>1. motor.mode = "boot" /\ motor.pos = 0
        BY <1>4 DEF Erased
      <3>2. \A k \in 0 .. motor.pos - 1 : motor.flash[k] = <<mupdate, k>>
        BY <3>1
      <3> QED
        BY <1>u, <2>s, <3>1, <3>2 DEF Filled
    <2>4. Ended'
      BY <1>b, <1>4 DEF Informed, Ended
    <2>5. NotYetStarted' /\ Erased' /\ InTurn' /\ Informed'
      BY <2>u DEF NotYetStarted, Erased, InTurn, Informed
    <2> QED
      BY <2>1, <2>2, <2>3, <2>4, <2>5
  <1>5. ASSUME mpc \in {"data", "end"}, mpc' \in {"data", "end"}, cnt' \in Nat,
               mpc' = "data" => cnt' < packs, UNCHANGED mtold
        PROVE  UpdateConsistent'
    <2>1. Types'
      BY <1>u, <1>b, <1>5 DEF Types, Frames
    <2>2. Asked'
      BY <1>u, <1>w, <1>5 DEF Asked, SizeFits
    <2>3. Filled'
      BY <1>u, <1>5 DEF Filled
    <2>4. Ended'
      <3> SUFFICES ASSUME NEW k \in DOMAIN bus', bus'[k].type = 14, ~bus'[k].failed
                   PROVE  motor.mode = "app"
        BY <1>u DEF Ended
      <3> QED
        BY <1>b, <1>5 DEF Ended
    <2>5. NotYetStarted' /\ Erased' /\ InTurn' /\ Informed'
      BY <1>5 DEF NotYetStarted, Erased, InTurn, Informed
    <2> QED
      BY <2>1, <2>2, <2>3, <2>4, <2>5
  <1>6. CASE PackTaken
    BY <1>5, <1>6 DEF PackTaken, Types
  <1>7. CASE Rewind
    <2>0. mpc \in {"data", "end"} /\ mtold' = mtold
      BY <1>7, Zenon DEF Rewind
    <2>1. PICK q \in Answers : cnt' = q.to /\ mpc' = IF q.to < packs THEN "data" ELSE "end"
      BY <1>7, Zenon DEF Rewind
    <2>2. q \in Replies
      BY DEF Answers, Types
    <2>3. q.to \in Nat
      BY <2>2 DEF Replies
    <2>4. /\ mpc' \in {"data", "end"} /\ cnt' \in Nat
          /\ mpc' = "data" => cnt' < packs
      BY <2>1, <2>3
    <2> QED
      BY <1>5, <2>0, <2>4
  <1>8. CASE HandshakeRefused \/ Unusable \/ Finish
    BY <1>1, <1>8 DEF HandshakeRefused, Unusable, Finish, Types
  <1>9. CASE CallbackThrows
    BY <1>1, <1>9 DEF CallbackThrows, Types
  <1> QED
    BY <1>0, <1>2, <1>3, <1>4, <1>6, <1>7, <1>8, <1>9


-----------------------------------------------------------------------------
(* A frame reaches the motor. *)

MotorTypes(m) ==
  /\ m \in [mode : {"app", "boot"}, packs : Nat, pos : Nat, flash : [Slots -> Nat \X Nat]]
  /\ m.packs <= MaxImagePacks
  /\ m.pos <= m.packs

(* A pack is stored only in its own place, and only while it is this update's. *)
LEMMA StoreIsInPlace ==
  ASSUME Parameters, Types, Asked, Filled,
         mpc = "data", motor.mode = "boot",
         motor.pos < motor.packs, PackIndex(cnt) = PackIndex(motor.pos)
  PROVE  /\ MotorTypes(Store(motor))
         /\ Store(motor).mode = "boot"
         /\ Store(motor).packs = packs
         /\ \A i \in 0 .. Store(motor).pos - 1 : Store(motor).flash[i] = <<mupdate, i>>
  <1> USE DEF Types
  <1>1. motor.packs = packs /\ \A i \in 0 .. motor.pos - 1 : motor.flash[i] = <<mupdate, i>>
    BY DEF Filled
  <1>2. motor.pos \in 0 .. IndexRange - 1 /\ cnt \in 0 .. IndexRange - 1
    BY <1>1 DEF Asked, SizeFits, Parameters
  <1>3. cnt = motor.pos /\ motor.pos \in Slots
    <2>1. PackIndex(cnt) = cnt /\ PackIndex(motor.pos) = motor.pos
      BY <1>2, IndexIs
    <2>2. motor.pos \in Slots
      BY <1>2 DEF Slots, Parameters
    <2> QED
      BY <2>1, <2>2
  <1>4. Store(motor) = [motor EXCEPT !.flash = [motor.flash EXCEPT ![motor.pos] = <<mupdate, cnt>>],
                                     !.pos = motor.pos + 1]
    BY DEF Store
  <1>5. /\ Store(motor).mode = "boot" /\ Store(motor).packs = packs
        /\ Store(motor).pos = motor.pos + 1
        /\ Store(motor).flash = [motor.flash EXCEPT ![motor.pos] = <<mupdate, cnt>>]
    BY <1>1, <1>4
  <1>6. \A i \in 0 .. motor.pos : Store(motor).flash[i] = <<mupdate, i>>
    <2> TAKE i \in 0 .. motor.pos
    <2>1. i \in Slots
      BY <1>2 DEF Slots, Parameters
    <2>2. motor.flash \in [Slots -> Nat \X Nat]
      OBVIOUS
    <2>3. CASE i = motor.pos
      BY <1>3, <1>5, <2>1, <2>2, <2>3
    <2>4. CASE i # motor.pos
      <3>1. i \in 0 .. motor.pos - 1
        BY <1>2, <2>4
      <3> QED
        BY <1>1, <1>5, <2>1, <2>2, <2>4, <3>1
    <2> QED
      BY <2>3, <2>4
  <1>7. MotorTypes(Store(motor))
    <2>1. Store(motor).flash \in [Slots -> Nat \X Nat]
      BY <1>3, <1>5
    <2>2. Store(motor) \in [mode : {"app", "boot"}, packs : Nat, pos : Nat,
                             flash : [Slots -> Nat \X Nat]]
      <3> DEFINE f == [motor.flash EXCEPT ![motor.pos] = <<mupdate, cnt>>]
                 q == motor.pos + 1
      <3>1. f \in [Slots -> Nat \X Nat] /\ q \in Nat
        BY <1>5, <2>1
      <3>2. Store(motor) = [motor EXCEPT !.flash = f, !.pos = q]
        BY <1>4
      <3> HIDE DEF f, q
      <3> QED
        BY <3>1, <3>2
    <2> QED
      BY <1>1, <1>5, <2>2 DEF MotorTypes
  <1>8. (motor.pos + 1) - 1 = motor.pos
    OBVIOUS
  <1> QED
    BY <1>1, <1>5, <1>6, <1>7, <1>8

(* What follows whatever the motor does with a frame it hears. *)
LEMMA TransmitConsistent ==
  ASSUME Parameters, UpdateConsistent, Transmit
  PROVE  UpdateConsistent'
  <1> USE DEF UpdateConsistent
  <1>u. /\ UNCHANGED <<mpc, mupdate, packs, cnt, mtold>> /\ waiting' = TRUE
        /\ mpc \in Frames
    BY DEF Transmit
  <1>c. BusTypes
    BY DEF BusTypes, Types
  <1> USE <1>c
  <1>a. Asked'
    BY <1>u DEF Asked, SizeFits, Frames
  <1>m. MotorTypes(motor)
    BY DEF Types, MotorTypes
  <1>i. StartedImage \in Int
    BY DEF StartedImage, Types
  <1>r. \A t \in Nat, f \in BOOLEAN, n \in Nat : Reply(t, f, n, TRUE) \in Replies
    BY DEF Reply, Replies
  <1>f. \A t \in Nat, f \in BOOLEAN, n \in Nat :
          Reply(t, f, n, TRUE).type = t /\ Reply(t, f, n, TRUE).failed = f
    BY DEF Reply
  <1>n. mrunning' \in Int
    BY <1>i DEF Transmit, RunningAfter, Types
  <1>t. ASSUME MotorTypes(motor'), bus' \in Seq(Replies)
        PROVE  Types'
    BY <1>t, <1>u, <1>n DEF Types, MotorTypes
  <1>0. CASE UNCHANGED <<motor, bus, mrunning>>
    <2>1. NoneStarted' = NoneStarted
      BY <1>0 DEF NoneStarted
    <2>2. NotYetStarted' /\ Erased' /\ InTurn' /\ Informed' /\ Filled' /\ Ended'
      BY <1>0, <1>u, <2>1 DEF NotYetStarted, Erased, InTurn, Informed, Filled, Ended, Started
    <2>3. Types'
      BY <1>0, <1>m, <1>t DEF Types
    <2> QED
      BY <1>a, <2>2, <2>3
  <1>1. ASSUME HearsUid PROVE UpdateConsistent'
    <2>1. mpc = "uid" /\ motor' = motor /\ Ack("uid") \in Replies /\ Answer(Ack("uid"))
          /\ Ack("uid").type = 0
      BY <1>1, <1>r, <1>f DEF HearsUid, Ack, TypeOf
    <2>2. NoneStarted'
      BY <2>1, <1>a, <1>u, Appended DEF NotYetStarted, NoneStarted, Started, Asked
    <2>3. NotYetStarted' /\ Erased' /\ InTurn' /\ Informed' /\ Filled' /\ Ended'
      BY <1>u, <2>1, <2>2 DEF NotYetStarted, Erased, InTurn, Informed, Filled, Ended
    <2>4. Types'
      BY <1>m, <1>t, <2>1, Appended
    <2> QED
      BY <1>a, <2>3, <2>4
  <1>2. ASSUME HearsStart PROVE UpdateConsistent'
    <2>s. mpc = "start"
      BY <1>2 DEF HearsStart
    <2>o. ASSUME NEW x \in Replies, Answer(x), x.type = 11
          PROVE  /\ NotYetStarted' /\ InTurn' /\ Informed' /\ Filled' /\ Ended'
                 /\ x.failed /\ NoneStarted => NoneStarted'
      <3>1. ASSUME NEW i \in DOMAIN bus', NEW j \in DOMAIN bus', i <= j, Started(bus'[i])
            PROVE  bus'[j].type \notin {12, 14}
        <4>1. CASE j = Len(bus) + 1
          BY <2>o, <4>1, Appended
        <4>2. CASE j # Len(bus) + 1
          <5>1. j \in DOMAIN bus /\ bus'[j] = bus[j] /\ j < Len(bus) + 1
            BY <2>o, <4>2, Appended
          <5>2. i # Len(bus) + 1
            BY <3>1, <5>1 DEF Types
          <5>3. i \in DOMAIN bus /\ bus'[i] = bus[i]
            BY <2>o, <5>2, Appended
          <5> QED
            BY <2>s, <3>1, <5>1, <5>3 DEF InTurn
        <4> QED
          BY <4>1, <4>2
      <3>2. InTurn'
        BY <3>1, Zenon DEF InTurn, Started
      <3>3. NotYetStarted' /\ Informed' /\ Filled' /\ Ended'
        BY <1>u, <2>s DEF NotYetStarted, Informed, Filled, Ended
      <3>4. x.failed /\ NoneStarted => NoneStarted'
        BY <2>o, Appended DEF NoneStarted, Started
      <3> QED
        BY <3>2, <3>3, <3>4
    <2>1. ASSUME motor' = [mode |-> "boot", packs |-> 0, pos |-> 0,
                           flash |-> [s \in Slots |-> ErasedSlot]],
                 Answer(Ack("start"))
          PROVE  UpdateConsistent'
      <3>1. Ack("start") \in Replies /\ Ack("start").type = 11
        BY <1>r, <1>f DEF Ack, TypeOf
      <3>2. motor' \in [mode : {"app", "boot"}, packs : Nat, pos : Nat,
                        flash : [Slots -> Nat \X Nat]]
        BY <2>1 DEF ErasedSlot
      <3>3. motor'.mode = "boot" /\ motor'.pos = 0 /\ motor'.packs = 0
        BY <2>1
      <3>4. MotorTypes(motor')
        BY <3>2, <3>3 DEF MotorTypes, Parameters
      <3>5. Erased'
        BY <1>u, <2>s, <3>3 DEF Erased
      <3>6. Types'
        BY <1>t, <2>1, <3>1, <3>4, Appended
      <3> QED
        BY <1>a, <2>1, <2>o, <3>1, <3>5, <3>6
    <2>2. ASSUME motor' = motor, Answer(Reply(11, TRUE, 0, TRUE))
          PROVE  UpdateConsistent'
      <3>1. /\ Reply(11, TRUE, 0, TRUE) \in Replies /\ Reply(11, TRUE, 0, TRUE).type = 11
            /\ Reply(11, TRUE, 0, TRUE).failed
        BY <1>r, <1>f
      <3>2. NoneStarted => NoneStarted'
        BY <2>2, <2>o, <3>1
      <3>3. Erased'
        BY <1>u, <2>2, <2>s, <3>2 DEF Erased
      <3>4. Types'
        BY <1>m, <1>t, <2>2, <3>1, Appended
      <3> QED
        BY <1>a, <2>2, <2>o, <3>1, <3>3, <3>4
    <2> QED
      BY <1>2, <2>1, <2>2 DEF HearsStart
  <1>3. ASSUME HearsInfo PROVE UpdateConsistent'
    <2>1. /\ mpc = "info" /\ motor' = [motor EXCEPT !.packs = packs]
          /\ Ack("info") \in Replies /\ Answer(Ack("info")) /\ Ack("info").type = 12
      BY <1>3, <1>r, <1>f DEF HearsInfo, Ack, TypeOf
    <2>2. /\ motor.pos = 0 /\ motor.mode = "boot"
          /\ packs \in Nat /\ packs <= MaxImagePacks
      BY <2>1 DEF Erased, Asked, SizeFits, Types
    <2>3. motor'.mode = "boot" /\ motor'.pos = 0 /\ motor'.packs = packs
          /\ motor'.flash = motor.flash
      BY <1>m, <2>1, <2>2 DEF MotorTypes
    <2>4. MotorTypes(motor')
      BY <1>m, <2>1, <2>2, <2>3 DEF MotorTypes
    <2>5. Types'
      BY <1>t, <2>1, <2>4, Appended
    <2>6. Erased'
      BY <1>u, <2>3 DEF Erased
    <2>7. Informed'
      BY <1>u, <2>1, <2>3, Appended DEF Informed
    <2>8. NotYetStarted' /\ InTurn' /\ Filled' /\ Ended'
      BY <1>u, <2>1 DEF NotYetStarted, InTurn, Filled, Ended
    <2> QED
      BY <1>a, <2>5, <2>6, <2>7, <2>8
  <1>4. ASSUME HearsData PROVE UpdateConsistent'
    <2>s. mpc = "data" /\ motor.mode = "boot"
      BY <1>4 DEF HearsData
    <2>b. motor.packs = packs /\ \A i \in 0 .. motor.pos - 1 : motor.flash[i] = <<mupdate, i>>
      BY <2>s DEF Filled
    <2>o. ASSUME NEW x \in Replies, Answer(x), x.type # 14,
                 MotorTypes(motor'), motor'.mode = "boot", motor'.packs = packs,
                 \A i \in 0 .. motor'.pos - 1 : motor'.flash[i] = <<mupdate, i>>
          PROVE  UpdateConsistent'
      <3>1. Types'
        BY <1>t, <2>o, Appended
      <3>2. Filled'
        BY <1>u, <2>o DEF Filled
      <3>3. Ended'
        <4> SUFFICES ASSUME NEW k \in DOMAIN bus', bus'[k].type = 14, ~bus'[k].failed
                     PROVE  FALSE
          BY Zenon DEF Ended
        <4>1. k \in DOMAIN bus /\ bus'[k] = bus[k]
          BY <2>o, Appended
        <4> QED
          BY <2>s, <4>1 DEF Ended
      <3>4. NotYetStarted' /\ Erased' /\ InTurn' /\ Informed'
        BY <1>u, <2>s DEF NotYetStarted, Erased, InTurn, Informed
      <3> QED
        BY <1>a, <3>1, <3>2, <3>3, <3>4
    <2>p. ASSUME NEW p \in 0 .. motor.pos, motor' = [motor EXCEPT !.pos = p],
                 NEW x \in Replies, Answer(x), x.type # 14
          PROVE  UpdateConsistent'
      <3>1. /\ motor'.mode = "boot" /\ motor'.packs = packs /\ motor'.pos = p
            /\ motor'.flash = motor.flash
        BY <1>m, <2>p, <2>s, <2>b DEF MotorTypes
      <3>2. MotorTypes(motor')
        BY <1>m, <2>p, <2>b, <3>1 DEF MotorTypes
      <3>3. 0 .. p - 1 \subseteq 0 .. motor.pos - 1
        BY <1>m DEF MotorTypes
      <3>5. \A i \in 0 .. motor'.pos - 1 : motor'.flash[i] = <<mupdate, i>>
        BY <2>b, <3>1, <3>3
      <3> QED
        BY <2>o, <2>p, <3>1, <3>2, <3>5
    <2>r. \A p \in 0 .. motor.pos : p % IndexRange \in Nat
      BY <1>m DEF MotorTypes, Parameters
    <2>a. \A p \in 0 .. motor.pos : Reply(13, TRUE, p % IndexRange, TRUE) \in Replies
      BY <1>r, <2>r
    <2>q. \A p \in 0 .. motor.pos : Reply(13, TRUE, p % IndexRange, TRUE).type # 14
      BY DEF Reply
    <2>1. ASSUME Expected, motor' = Store(motor), NEW t \in {11, 13},
                 Answer(Reply(t, FALSE, 0, TRUE))
          PROVE  UpdateConsistent'
      <3>0. t \in Nat /\ t # 14
        OBVIOUS
      <3>1. Reply(t, FALSE, 0, TRUE) \in Replies /\ Reply(t, FALSE, 0, TRUE).type # 14
        BY <1>r, <1>f, <3>0
      <3>2. /\ MotorTypes(Store(motor))
            /\ Store(motor).mode = "boot" /\ Store(motor).packs = packs
            /\ \A i \in 0 .. Store(motor).pos - 1 : Store(motor).flash[i] = <<mupdate, i>>
        BY <2>1, <2>s, StoreIsInPlace DEF Expected
      <3> QED
        BY <2>1, <2>o, <3>1, <3>2
    <2>2. ASSUME NEW p \in 0 .. motor.pos, motor' = [motor EXCEPT !.pos = p], Ask(p)
          PROVE  UpdateConsistent'
      BY <2>2, <2>a, <2>q, <2>p DEF Ask
    <2>3. ASSUME motor' = motor, Ask(motor.pos) \/ Answer(Ack("data"))
          PROVE  UpdateConsistent'
      <3>1. motor.pos \in 0 .. motor.pos /\ motor' = [motor EXCEPT !.pos = motor.pos]
        BY <1>m, <2>3 DEF MotorTypes
      <3>a. Ack("data") = Reply(13, FALSE, 0, TRUE)
        BY DEF Ack, TypeOf
      <3>2. Ack("data") \in Replies /\ Ack("data").type # 14
        <4>1. Reply(13, FALSE, 0, TRUE) \in Replies
          BY <1>r
        <4>2. Reply(13, FALSE, 0, TRUE).type # 14
          BY DEF Reply
        <4> QED
          BY <3>a, <4>1, <4>2
      <3> QED
        BY <2>3, <2>a, <2>q, <2>p, <3>1, <3>2 DEF Ask
    <2> QED
      BY <1>4, <2>1, <2>2, <2>3, Zenon DEF HearsData
  <1>5. ASSUME HearsEnd, mrunning' = RunningAfter(motor') PROVE UpdateConsistent'
    <2>s. mpc = "end" /\ motor.mode = "boot"
      BY <1>5 DEF HearsEnd
    <2>b. motor.packs = packs /\ \A i \in 0 .. motor.pos - 1 : motor.flash[i] = <<mupdate, i>>
      BY <2>s DEF Filled
    <2>n. NotYetStarted' /\ Erased' /\ InTurn' /\ Informed'
      BY <1>u, <2>s DEF NotYetStarted, Erased, InTurn, Informed
    <2>1. ASSUME motor.pos = motor.packs, motor' = [motor EXCEPT !.mode = "app"],
                 Answer(Ack("end"))
          PROVE  UpdateConsistent'
      <3>1. Ack("end") \in Replies
        BY <1>r DEF Ack, TypeOf
      <3>2. motor'.mode = "app" /\ MotorTypes(motor')
        BY <1>m, <2>1 DEF MotorTypes
      <3>3. Types'
        BY <1>t, <2>1, <3>1, <3>2, Appended
      <3>4. StartedImage = mupdate
        BY <2>1, <2>b DEF StartedImage
      <3>5. mrunning' = mupdate
        BY <1>5, <2>s, <3>2, <3>4 DEF RunningAfter
      <3>6. Filled' /\ Ended'
        BY <1>u, <3>2, <3>5 DEF Filled, Ended
      <3> QED
        BY <1>a, <2>n, <3>3, <3>6
    <2>2. ASSUME motor' = motor, Answer(Reply(14, TRUE, motor.pos, TRUE))
          PROVE  UpdateConsistent'
      <3>1. /\ Reply(14, TRUE, motor.pos, TRUE) \in Replies
            /\ Reply(14, TRUE, motor.pos, TRUE).failed
        BY <1>m, <1>r, <1>f DEF MotorTypes
      <3>2. Types'
        BY <1>m, <1>t, <2>2, <3>1, Appended
      <3>3. Filled'
        BY <1>u, <2>2, <2>s, <2>b DEF Filled
      <3>4. Ended'
        BY <1>u, <2>2, <2>s, <3>1, Appended DEF Ended
      <3> QED
        BY <1>a, <2>n, <3>2, <3>3, <3>4
    <2> QED
      BY <1>5, <2>1, <2>2 DEF HearsEnd
  <1>6. ASSUME ApplicationIsSilent, mrunning' = RunningAfter(motor') PROVE UpdateConsistent'
    <2>1. UNCHANGED <<motor, bus, mrunning>>
      BY <1>6 DEF ApplicationIsSilent, RunningAfter
    <2> QED
      BY <1>0, <2>1
  <1> QED
    BY <1>0, <1>1, <1>2, <1>3, <1>4, <1>5, <1>6 DEF Transmit, MotorHears

-----------------------------------------------------------------------------
(* No answer to an OtaStart of an earlier update is on the bus when one begins. *)
BusIsClear == BeginUpdate => NoneStarted

(* The steps of MotorOta, updates beginning on a clear bus. *)
Steps == Init /\ [][Next]_vars /\ [][BusIsClear]_vars

(* Every step keeps the invariant. *)
LEMMA NextConsistent ==
  ASSUME Parameters, UpdateConsistent, [Next]_vars, [BusIsClear]_vars
  PROVE  UpdateConsistent'
  <1>1. CASE UNCHANGED vars
    <2> USE <1>1 DEF vars, hostVars
    <2>1. Types' /\ Asked' /\ NoneStarted' = NoneStarted
      BY DEF UpdateConsistent, Types, Asked, SizeFits, NoneStarted
    <2>2. NotYetStarted' /\ Erased' /\ InTurn' /\ Informed' /\ Filled' /\ Ended'
      BY <2>1 DEF UpdateConsistent, NotYetStarted, Erased, InTurn, Informed, Filled, Ended, Started
    <2> QED
      BY <2>1, <2>2 DEF UpdateConsistent
  <1>2. CASE BeginUpdate
    <2>1. NoneStarted
      <3>1. vars' # vars
        BY <1>2 DEF BeginUpdate, vars, hostVars, UpdateConsistent, Types
      <3> QED
        BY <1>2, <3>1 DEF BusIsClear
    <2> QED
      BY <1>2, <2>1, CallerConsistent
  <1>3. CASE HostNext \/ CallbackThrows \/ TxFailed \/ Garble
    BY <1>3, CallerConsistent, GarbleConsistent, AnswerConsistent, TransmitConsistent DEF HostNext
  <1> QED
    BY <1>1, <1>2, <1>3 DEF Next

(* The invariant holds. *)
LEMMA Consistent == ASSUME Parameters PROVE Steps => []UpdateConsistent
  <1>1. Init => UpdateConsistent
    BY InitConsistent
  <1>2. UpdateConsistent /\ [Next]_vars /\ [BusIsClear]_vars => UpdateConsistent'
    BY NextConsistent
  <1> QED
    BY <1>1, <1>2, PTL DEF Steps

-----------------------------------------------------------------------------
(* Every pack in its place, whatever answers are on the bus when an update
   begins: the cursor of either side stays below the range of the index. *)

(* Where every pack of the motor is the one numbered for its place. *)
InPlace(m) == m.mode = "boot" => \A i \in 0 .. m.pos - 1 : m.flash[i][2] = i

Placed ==
  /\ packs \in Nat /\ cnt \in Nat /\ mupdate \in Nat
  /\ bus \in Seq(Replies)
  /\ motor \in [mode : {"app", "boot"}, packs : Nat, pos : Nat, flash : [Slots -> Nat \X Nat]]
  /\ motor.packs <= MaxImagePacks
  /\ Asked
  /\ InPlace(motor)

(* Nothing is sent: the motor stays as it is and the cursor where it may be. *)
LEMMA HostKeepsPlaces ==
  ASSUME Parameters, Placed,
         \/ BeginUpdate \/ Refuse \/ ReadUid \/ TxFailed \/ NoReply \/ Garble
         \/ Handshake \/ HandshakeRefused \/ PackTaken \/ Rewind \/ Unusable \/ Finish
         \/ CallbackThrows
  PROVE  Placed'
  <1> USE DEF Placed
  <1>c. BusTypes
    BY DEF BusTypes
  <1>u. motor' = motor
    BY DEF BeginUpdate, Refuse, ReadUid, TxFailed, NoReply, Garble, Handshake, HandshakeRefused,
           PackTaken, Rewind, Unusable, Finish, CallbackThrows, Received
  <1>m. ASSUME packs' \in Nat, cnt' \in Nat, mupdate' \in Nat, bus' \in Seq(Replies), Asked'
        PROVE  Placed'
    BY <1>u, <1>m
  <1>1. CASE BeginUpdate
    BY <1>m, <1>1 DEF BeginUpdate, Parameters, Asked
  <1>2. CASE Refuse \/ ReadUid \/ TxFailed
    BY <1>m, <1>2 DEF Refuse, ReadUid, TxFailed, Return, Await, Asked, SizeFits, Frames
  <1>3. CASE NoReply
    BY <1>m, <1>3 DEF NoReply, Asked, SizeFits
  <1>4. CASE Garble
    BY <1>c, <1>m, <1>4, GarbleShifts DEF Garble, hostVars, Asked, SizeFits
  <1>5. ASSUME NEW r, Received(r), cnt' \in Nat,
               \/ mtold' \in {"ok", "failed"} /\ mpc' = "idle"
               \/ mtold' = mtold /\ mpc' # "idle" /\ (mpc' = "data" => cnt' < packs)
                  /\ (mpc' \in {"start", "info"} => mpc \in {"uid", "start"} /\ cnt' = cnt)
                  /\ mpc' # "uid"
        PROVE  Placed'
    <2>1. bus' \in Seq(Replies) /\ UNCHANGED <<mupdate, packs>> /\ waiting' = FALSE
          /\ mtold = "pending" /\ SizeFits
      BY <1>c, <1>5, ReceivedShifts DEF Received, Asked
    <2> QED
      BY <1>m, <1>5, <2>1 DEF Asked, SizeFits
  <1>6. CASE Handshake
    <2>1. PICK r \in Answers : Received(r)
      BY <1>6 DEF Handshake
    <2>2. /\ mpc \in {"uid", "start", "info"} /\ UNCHANGED <<cnt, mtold>>
          /\ mpc' = [uid |-> "start", start |-> "info", info |-> "data"][mpc]
      BY <1>6 DEF Handshake
    <2>3. cnt = 0 /\ 0 < packs
      BY <2>1, <2>2 DEF Received, Asked, SizeFits
    <2>4. /\ mpc' \in {"start", "info", "data"} /\ cnt' \in Nat /\ mtold' = mtold
          /\ mpc' = "data" => cnt' < packs
          /\ mpc' \in {"start", "info"} => mpc \in {"uid", "start"} /\ cnt' = cnt
      BY <2>2, <2>3
    <2> QED
      BY <1>5, <2>1, <2>4
  <1>7. CASE HandshakeRefused \/ Unusable \/ Finish
    BY <1>5, <1>7, Zenon DEF HandshakeRefused, Unusable, Finish
  <1>8. CASE PackTaken
    BY <1>5, <1>8 DEF PackTaken
  <1>9. CASE Rewind
    <2>1. PICK r \in Answers : /\ Received(r) /\ cnt' = r.to /\ mtold' = mtold
                              /\ mpc' = IF r.to < packs THEN "data" ELSE "end"
      BY <1>9, Zenon DEF Rewind
    <2>2. r \in Replies
      BY DEF Answers
    <2>3. r.to \in Nat
      BY <2>2 DEF Replies
    <2> QED
      BY <1>5, <2>1, <2>3
  <1>10. CASE CallbackThrows
    BY <1>5, <1>10 DEF CallbackThrows
  <1> QED
    BY <1>1, <1>2, <1>3, <1>4, <1>6, <1>7, <1>8, <1>9, <1>10

(* The pack that the motor takes has the number of its place. *)
LEMMA TakesItsPack ==
  ASSUME Parameters, Placed, mpc = "data", motor.mode = "boot", Expected
  PROVE  /\ Store(motor) \in [mode : {"app", "boot"}, packs : Nat, pos : Nat,
                              flash : [Slots -> Nat \X Nat]]
         /\ Store(motor).packs <= MaxImagePacks
         /\ InPlace(Store(motor))
  <1> USE DEF Placed
  <1>1. motor.pos \in 0 .. IndexRange - 1 /\ cnt \in 0 .. IndexRange - 1
    BY DEF Expected, Asked, SizeFits, Parameters
  <1>2. cnt = motor.pos /\ motor.pos \in Slots
    <2>1. PackIndex(cnt) = cnt /\ PackIndex(motor.pos) = motor.pos
      BY <1>1, IndexIs
    <2>2. motor.pos \in Slots
      BY <1>1 DEF Slots, Parameters
    <2> QED
      BY <2>1, <2>2 DEF Expected
  <1> DEFINE f == [motor.flash EXCEPT ![motor.pos] = <<mupdate, cnt>>]
             q == motor.pos + 1
  <1>3. f \in [Slots -> Nat \X Nat] /\ q \in Nat
    BY <1>2
  <1>4. f[motor.pos] = <<mupdate, cnt>> /\ \A i \in Slots : i # motor.pos => f[i] = motor.flash[i]
    BY <1>2
  <1>5. Store(motor) = [motor EXCEPT !.flash = f, !.pos = q]
    BY DEF Store
  <1> HIDE DEF f
  <1>6. /\ Store(motor) \in [mode : {"app", "boot"}, packs : Nat, pos : Nat,
                              flash : [Slots -> Nat \X Nat]]
        /\ Store(motor).packs = motor.packs /\ Store(motor).pos = q
        /\ Store(motor).flash = f
    BY <1>3, <1>5
  <1>7. \A i \in 0 .. q - 1 : f[i][2] = i
    <2> TAKE i \in 0 .. q - 1
    <2>1. i \in Slots
      BY <1>1 DEF Slots, Parameters
    <2>2. CASE i = motor.pos
      BY <1>2, <1>4, <2>2
    <2>3. CASE i # motor.pos
      <3>1. i \in 0 .. motor.pos - 1
        BY <1>1, <2>3
      <3> QED
        BY <1>4, <2>1, <2>3, <3>1 DEF InPlace
    <2> QED
      BY <2>2, <2>3
  <1>8. InPlace(Store(motor))
    BY <1>6, <1>7, Zenon DEF InPlace
  <1> QED
    BY <1>6, <1>8

(* What the motor does with a frame leaves every pack in its place. *)
LEMMA MotorKeepsPlaces ==
  ASSUME Parameters, Placed, Transmit
  PROVE  Placed'
  <1> USE DEF Placed
  <1>c. BusTypes
    BY DEF BusTypes
  <1>u. UNCHANGED <<mpc, mupdate, packs, cnt, mtold>> /\ mpc \in Frames
    BY DEF Transmit
  <1>a. Asked'
    BY <1>u DEF Transmit, Asked, SizeFits, Frames
  <1>r. \A t \in Nat, f \in BOOLEAN, n \in Nat : Reply(t, f, n, TRUE) \in Replies
    BY DEF Reply, Replies
  <1>k. \A frame \in Frames : Ack(frame) \in Replies
    <2> TAKE frame \in Frames
    <2>1. TypeOf[frame] \in Nat
      BY DEF TypeOf, Frames
    <2> QED
      BY <1>r, <2>1 DEF Ack
  <1> DEFINE Fits(m) ==
        /\ m \in [mode : {"app", "boot"}, packs : Nat, pos : Nat, flash : [Slots -> Nat \X Nat]]
        /\ m.packs <= MaxImagePacks
        /\ InPlace(m)
  <1>f. Fits(motor)
    OBVIOUS
  <1>m. ASSUME Fits(motor'), bus' \in Seq(Replies) PROVE Placed'
    BY <1>a, <1>m, <1>u DEF InPlace
  <1>n. ASSUME Fits(motor'), NEW x \in Replies, Answer(x) PROVE Placed'
    BY <1>c, <1>m, <1>n, Appended
  <1>p. ASSUME NEW p \in 0 .. motor.pos, motor' = [motor EXCEPT !.pos = p]
        PROVE  Fits(motor')
    <2>1. /\ motor'.packs = motor.packs /\ motor'.pos = p /\ motor'.mode = motor.mode
          /\ motor'.flash = motor.flash
      BY <1>p
    <2>2. 0 .. p - 1 \subseteq 0 .. motor.pos - 1
      OBVIOUS
    <2>3. InPlace(motor')
      BY <2>1, <2>2 DEF InPlace
    <2>4. p \in Nat
      OBVIOUS
    <2>5. motor' \in [mode : {"app", "boot"}, packs : Nat, pos : Nat, flash : [Slots -> Nat \X Nat]]
      BY <1>p, <2>4
    <2> QED
      BY <2>1, <2>3, <2>5
  <1>q. \A p \in Nat : Reply(13, TRUE, p % IndexRange, TRUE) \in Replies
    <2> TAKE p \in Nat
    <2>1. p % IndexRange \in Nat
      BY DEF Parameters
    <2> QED
      BY <1>r, <2>1
  <1> HIDE DEF Fits
  <1>1. CASE UNCHANGED <<motor, bus>>
    BY <1>1, <1>f, <1>m
  <1>2. CASE HearsUid
    BY <1>2, <1>f, <1>k, <1>n DEF HearsUid, Frames
  <1>3. CASE HearsStart
    <2>1. ASSUME motor' = [mode |-> "boot", packs |-> 0, pos |-> 0,
                           flash |-> [s \in Slots |-> ErasedSlot]]
          PROVE  Fits(motor')
      BY <2>1 DEF Fits, InPlace, ErasedSlot, Parameters
    <2>2. Ack("start") \in Replies /\ Reply(11, TRUE, 0, TRUE) \in Replies
      BY <1>r, <1>k DEF Frames
    <2>3. CASE motor' = motor /\ Answer(Reply(11, TRUE, 0, TRUE))
      BY <1>f, <1>n, <2>2, <2>3
    <2>4. CASE /\ motor' = [mode |-> "boot", packs |-> 0, pos |-> 0,
                            flash |-> [s \in Slots |-> ErasedSlot]]
               /\ Answer(Ack("start"))
      BY <1>n, <2>1, <2>2, <2>4
    <2> QED
      BY <1>3, <2>3, <2>4 DEF HearsStart
  <1>4. CASE HearsInfo
    <2>1. packs <= MaxImagePacks
      BY <1>4, <1>u DEF HearsInfo, Asked, SizeFits
    <2>2. Fits(motor')
      BY <1>4, <1>f, <2>1 DEF HearsInfo, Fits, InPlace
    <2> QED
      BY <1>4, <1>k, <1>n, <2>2 DEF HearsInfo, Frames
  <1>5. CASE HearsData
    <2>1. ASSUME Expected, motor' = Store(motor), NEW t \in {11, 13},
                 Answer(Reply(t, FALSE, 0, TRUE))
          PROVE  Placed'
      <3>1. Fits(Store(motor))
        BY <1>5, <2>1, TakesItsPack DEF HearsData, Fits
      <3>2. Reply(t, FALSE, 0, TRUE) \in Replies
        BY <1>r
      <3> QED
        BY <1>n, <2>1, <3>1, <3>2
    <2>2. ASSUME NEW p \in 0 .. motor.pos, motor' = [motor EXCEPT !.pos = p], Ask(p)
          PROVE  Placed'
      <3>1. p \in Nat
        OBVIOUS
      <3> QED
        BY <1>n, <1>p, <1>q, <2>2, <3>1 DEF Ask
    <2>3. ASSUME motor' = motor, Ask(motor.pos) \/ Answer(Ack("data"))
          PROVE  Placed'
      BY <1>f, <1>k, <1>n, <1>q, <2>3 DEF Ask, Frames
    <2> QED
      BY <1>5, <2>1, <2>2, <2>3, Zenon DEF HearsData
  <1>6. CASE HearsEnd
    <2>1. Reply(14, TRUE, motor.pos, TRUE) \in Replies /\ Ack("end") \in Replies
      BY <1>r, <1>k DEF Frames
    <2>2. CASE motor' = [motor EXCEPT !.mode = "app"] /\ Answer(Ack("end"))
      <3>1. Fits(motor')
        BY <1>f, <2>2 DEF Fits, InPlace
      <3> QED
        BY <1>n, <2>1, <2>2, <3>1
    <2>3. CASE motor' = motor /\ Answer(Reply(14, TRUE, motor.pos, TRUE))
      BY <1>f, <1>n, <2>1, <2>3
    <2> QED
      BY <1>6, <2>2, <2>3 DEF HearsEnd
  <1> QED
    BY <1>1, <1>2, <1>3, <1>4, <1>5, <1>6 DEF Transmit, MotorHears, ApplicationIsSilent

(* The places are kept from the start. *)
LEMMA InitPlaced == ASSUME Parameters, Init PROVE Placed
  <1>1. motor \in [mode : {"app", "boot"}, packs : Nat, pos : Nat, flash : [Slots -> Nat \X Nat]]
    BY DEF Init, ErasedSlot
  <1> QED
    BY <1>1 DEF Init, Placed, Asked, InPlace, Parameters

LEMMA NextPlaced == ASSUME Parameters, Placed, [Next]_vars PROVE Placed'
  <1>1. CASE UNCHANGED vars
    BY <1>1 DEF vars, hostVars, Placed, Asked, SizeFits, InPlace
  <1> QED
    BY <1>1, HostKeepsPlaces, MotorKeepsPlaces DEF Next, HostNext

(* Whatever is lost, late, repeated or asked for again, within an update or from
   one before it, the bootloader holds in every place the pack that was sent for
   it: 16 bits of index suffice (motor_ota.cpp:212). *)
THEOREM PacksInPlaceHolds == ASSUME Parameters PROVE Spec => []PacksInPlace
  <1>1. Init => Placed
    BY InitPlaced
  <1>2. Placed /\ [Next]_vars => Placed'
    BY NextPlaced
  <1>3. Placed => PacksInPlace
    BY DEF Placed, InPlace, PacksInPlace
  <1> QED
    BY <1>1, <1>2, <1>3, PTL DEF Spec

-----------------------------------------------------------------------------
(* The refinement. *)
(* Before the first call nothing was offered and the old image runs. *)
LEMMA InitRefines == ASSUME Init PROVE Caller!Init
  BY DEF Init, Caller!Init

(* Each step is one of AtomicUpdate or changes nothing it speaks of. *)
LEMMA StepRefines ==
  ASSUME Parameters, UpdateConsistent, [Next]_vars, [BusIsClear]_vars
  PROVE  [Caller!Next]_Caller!vars
  <1> USE DEF UpdateConsistent
  <1>0. ASSUME UNCHANGED <<mrunning, mupdate, mtold>>
        PROVE  UNCHANGED Caller!vars
    BY <1>0 DEF Caller!vars
  <1>f. ASSUME mtold = "pending", mtold' = "failed", UNCHANGED <<mrunning, mupdate>>
        PROVE  Caller!Next
    BY <1>f DEF Caller!Next, Caller!Fail
  <1>1. CASE UNCHANGED vars
    BY <1>0, <1>1 DEF vars, hostVars
  <1>2. CASE BeginUpdate
    <2>1. /\ mupdate' = mupdate + 1 /\ mupdate + 1 \in 1 .. MaxUpdates
          /\ mtold # "pending" /\ mtold' = "pending" /\ mrunning' = mrunning
      BY <1>2 DEF BeginUpdate, Types, Parameters
    <2>2. 1 .. mupdate' = (1 .. mupdate) \union {mupdate + 1} /\ mupdate + 1 \notin 1 .. mupdate
      BY <2>1 DEF Types
    <2>3. Caller!Offer(mupdate + 1)
      BY <2>1, <2>2 DEF Caller!Offer
    <2> QED
      BY <2>1, <2>3 DEF Caller!Next
  <1>3. CASE Transmit
    <2>1. UNCHANGED <<mupdate, mtold>> /\ mtold = "pending" /\ mupdate \in 1 .. MaxUpdates
      BY <1>3 DEF Transmit, Frames, Asked, Types
    <2>2. CASE mrunning' = mrunning
      BY <1>0, <2>1, <2>2
    <2>3. CASE mrunning' = -1
      <3>1. 1 .. mupdate # {}
        BY <2>1
      <3>2. Caller!Erase
        BY <2>1, <2>3, <3>1 DEF Caller!Erase
      <3> QED
        BY <3>2 DEF Caller!Next
    <2>4. CASE mrunning' # mrunning /\ mrunning' # -1
      <3>1. motor.mode = "boot" /\ motor'.mode = "app" /\ MotorHears
        <4>1. MotorHears /\ mrunning' = RunningAfter(motor')
          BY <1>3, <2>4 DEF Transmit
        <4>2. motor'.mode # "boot" /\ motor.mode = "boot"
          BY <2>4, <4>1 DEF RunningAfter
        <4>3. Types'
          BY TransmitConsistent, <1>3
        <4> QED
          BY <4>1, <4>2, <4>3 DEF Types
      <3>2. mpc \in {"data", "end"}
        <4>1. HearsData \/ HearsEnd
          <5>1. ~HearsUid /\ ~ApplicationIsSilent
            BY <3>1 DEF HearsUid, ApplicationIsSilent
          <5>2. ~HearsStart
            <6> SUFFICES ASSUME HearsStart PROVE motor'.mode = "boot"
              BY <3>1
            <6>1. CASE motor' = motor
              BY <3>1, <6>1
            <6>2. CASE motor' = [mode |-> "boot", packs |-> 0, pos |-> 0,
                                 flash |-> [s \in Slots |-> ErasedSlot]]
              BY <6>2
            <6> QED
              BY <6>1, <6>2, Zenon DEF HearsStart
          <5>3. ~HearsInfo
            BY <3>1 DEF HearsInfo, Types
          <5> QED
            BY <3>1, <5>1, <5>2, <5>3 DEF MotorHears
        <4> QED
          BY <4>1 DEF HearsData, HearsEnd
      <3>3. mrunning' = mupdate
        <4>1. Filled' /\ mpc' = mpc
          BY <1>3, TransmitConsistent DEF Transmit
        <4> QED
          BY <2>1, <3>1, <3>2, <4>1 DEF Filled
      <3>4. Caller!Activate(mupdate)
        BY <2>1, <3>3 DEF Caller!Activate
      <3> QED
        BY <2>1, <3>4 DEF Caller!Next
    <2> QED
      BY <2>2, <2>3, <2>4
  <1>4. CASE NoReply
    <2>1. UNCHANGED <<mrunning, mupdate>> /\ mtold = "pending"
      BY <1>4 DEF NoReply, Asked
    <2> QED
      BY <1>0, <1>f, <1>4, <2>1 DEF NoReply
  <1>5. CASE Finish
    <2>1. /\ UNCHANGED <<mrunning, mupdate>> /\ mtold = "pending" /\ mtold' = "ok"
          /\ mpc = "end"
      BY <1>5 DEF Finish, Received, Asked
    <2>2. PICK r \in Answers : Received(r) /\ ~r.failed
      BY <1>5 DEF Finish
    <2>3. PICK i \in DOMAIN bus : r = bus[i] /\ r \in Replies /\ Admits(mpc, r.type)
      BY <2>2, ReceivedShifts DEF BusTypes, Types
    <2>4. r.type = 14
      BY <2>1, <2>3, Admitted DEF Frames
    <2>5. motor.mode = "app"
      BY <2>1, <2>2, <2>3, <2>4 DEF Ended
    <2>6. mrunning = mupdate
      BY <2>1, <2>5 DEF Filled
    <2>7. Caller!Succeed
      BY <2>1, <2>6 DEF Caller!Succeed
    <2> QED
      BY <2>7 DEF Caller!Next
  <1>6. CASE Refuse
    BY <1>f, <1>6 DEF Refuse
  <1>7. CASE TxFailed
    BY <1>f, <1>7 DEF TxFailed, Return, Asked, Frames
  <1>8. CASE HandshakeRefused
    <2>1. mtold = "pending" /\ mtold' = "failed" /\ UNCHANGED <<mrunning, mupdate>>
      BY <1>8 DEF HandshakeRefused, Received, Asked
    <2> QED
      BY <1>f, <2>1
  <1>9. CASE Unusable
    <2>1. mtold = "pending" /\ mtold' = "failed" /\ UNCHANGED <<mrunning, mupdate>>
      BY <1>9 DEF Unusable, Received, Asked
    <2> QED
      BY <1>f, <2>1
  <1>10. CASE ReadUid \/ Garble
    BY <1>0, <1>10 DEF ReadUid, Garble, hostVars
  <1>11. CASE Handshake \/ PackTaken \/ Rewind
    <2>1. UNCHANGED <<mrunning, mupdate, mtold>>
      BY <1>11 DEF Handshake, PackTaken, Rewind, Received
    <2> QED
      BY <1>0, <2>1
  <1>12. CASE CallbackThrows
    <2>1. mtold = "pending" /\ mtold' = "failed" /\ UNCHANGED <<mrunning, mupdate>>
      BY <1>12 DEF CallbackThrows, Received, Asked
    <2> QED
      BY <1>f, <2>1
  <1> QED
    BY <1>1, <1>2, <1>3, <1>4, <1>5, <1>6, <1>7, <1>8, <1>9, <1>10, <1>11, <1>12 DEF Next, HostNext

(* MotorOtaSession implements AtomicUpdate: update_from_bytes() returns only
   when the motor runs the image it was given, and the motor never runs one that
   was put together from two (motor_ota.cpp:149-255). *)
THEOREM MotorImplements == ASSUME Parameters PROVE Steps => Implements
  <1>1. Init => Caller!Init
    BY InitRefines
  <1>2. UpdateConsistent /\ [Next]_vars /\ [BusIsClear]_vars => [Caller!Next]_Caller!vars
    BY StepRefines
  <1> QED
    BY <1>1, <1>2, Consistent, PTL DEF Steps, Implements, Caller!Spec

=============================================================================
