-------------------------- MODULE OtaSessionProofs --------------------------
(***************************************************************************)
(* The update of the MCU implements AtomicUpdate, for any number of        *)
(* updates, faults and retries and images of any size, as long as a        *)
(* sequence number is not drawn again while something that bears it is     *)
(* still under way (NumbersAreFresh).  It never is while fewer faults      *)
(* happen than SeqRange - 1 (256 numbers are drawn in turn): since the     *)
(* number of anything under way at most one number more was drawn than     *)
(* there were faults.  Nor is a late or repeated command then ever taken   *)
(* for a new one.                                                          *)
(***************************************************************************)
EXTENDS OtaSession, TLAPS

Parameters ==
  /\ SeqRange \in Nat /\ SeqRange > 1
  /\ MaxUpdates \in Nat
  /\ Sizes \subseteq Nat
  /\ BlockSize \in Nat \ {0}
  /\ MaxSize \in Nat

-----------------------------------------------------------------------------
(* The inductive invariant. *)

Commands == {"start", "write", "verify", "apply", "abort"}
Codes == {"ok", "busy", "not started", "offset", "verify", "flash", "invalid"}
Units == Nat \X Nat
Args == [at : Nat, units : Seq(Units)]
Requests == [seq : Nat, cmd : Commands, arg : Args]
Answers == [seq : Nat, cmd : Commands, nack : BOOLEAN, code : Codes]
Sessions == [state : {"idle", "started", "receiving", "verified", "applying", "error"},
             update : Nat, total : Nat, flash : Seq(Units)]

HostTypes ==
  /\ pc \in Commands \union {"idle", "size"}
  /\ update \in 0 .. MaxUpdates
  /\ total \in Nat
  /\ offset \in Nat
  /\ req \in Requests \union {NoRequest}
  /\ told \in {"none", "pending", "ok", "failed"}

WireTypes == toMcu \in Seq(Requests) /\ toHost \in Seq(Answers)

McuTypes ==
  /\ mcu \in Sessions
  /\ cache.request \in Requests \union {NoRequest}
  /\ cache.answer \in Answers \union {NoAnswer}
  /\ running \in 0 .. MaxUpdates

Types == HostTypes /\ WireTypes /\ McuTypes

(* The update an OtaStart is for. *)
Of(r) == r.arg.units[1][1]

(* A caller is told nothing before its call returns, and its step is the
   command it sent last. *)
Calls ==
  /\ pc \in Commands => req \in Requests /\ req.cmd = pc
  /\ pc # "idle" => told = "pending"
  /\ pc = "idle" => told # "pending"
  /\ told = "pending" => update > 0
  /\ pc = "start" => Of(req) = update

(* The number of the request under way is borne by nothing else. *)
Numbered ==
  /\ \A i \in DOMAIN toMcu : toMcu[i].seq = req.seq => toMcu[i] = req
  /\ \A i \in DOMAIN toHost : toHost[i].seq = req.seq => toHost[i].cmd = req.cmd
  /\ cache.request # NoRequest /\ cache.request.seq = req.seq => cache.request = req
  /\ cache.request # NoRequest =>
       /\ cache.answer \in Answers
       /\ cache.answer.seq = cache.request.seq
       /\ cache.answer.cmd = cache.request.cmd

(* Behind the request under way come only its repeats. *)
InTurn == \A i, j \in DOMAIN toMcu : i <= j /\ toMcu[i] = req => toMcu[j] = req

(* A session is one of an image that was offered. *)
Offered ==
  /\ mcu.state # "idle" => mcu.update \in 1 .. update
  /\ \A i \in DOMAIN toMcu : toMcu[i].cmd = "start" => Of(toMcu[i]) \in 1 .. update

(* The MCU did what the request under way asks for. *)
Granted ==
  \/ \E i \in DOMAIN toHost : toHost[i].seq = req.seq /\ toHost[i].code = "ok"
  \/ cache.request = req /\ cache.answer.code = "ok"

(* From the answer to OtaStart on, a session of the MCU is this update's. *)
SessionIsMine ==
  pc \in {"write", "verify", "apply"} \/ (pc = "start" /\ Granted) =>
    /\ mcu.state # "idle" => mcu.update = update
    /\ \A i \in DOMAIN toMcu : toMcu[i].cmd = "start" => Of(toMcu[i]) = update

(* What the MCU runs, or will run when its banks are swapped. *)
Runs == IF mcu.state = "applying" THEN mcu.update ELSE running

(* An OtaApply that was granted was this update's. *)
AppliedIsMine == pc = "apply" /\ Granted => Runs = update

SessionConsistent ==
  /\ Types /\ Calls /\ Numbered /\ InTurn /\ Offered /\ SessionIsMine /\ AppliedIsMine

-----------------------------------------------------------------------------
(* Sequences. *)

(* What is left of a wire when its first frame is taken. *)
LEMMA Tails ==
  ASSUME NEW S, NEW s \in Seq(S), s # <<>>
  PROVE  /\ Tail(s) \in Seq(S)
         /\ Head(s) = s[1] /\ 1 \in DOMAIN s /\ s[1] \in S
         /\ \A i \in DOMAIN s : 1 <= i
         /\ \A i \in DOMAIN Tail(s) : i + 1 \in DOMAIN s /\ Tail(s)[i] = s[i + 1]
  <1>1. Len(s) \in Nat \ {0} /\ DOMAIN s = 1 .. Len(s) /\ Tail(s) \in Seq(S)
    OBVIOUS
  <1>2. Len(Tail(s)) = Len(s) - 1 /\ \A i \in 1 .. Len(s) - 1 : Tail(s)[i] = s[i + 1]
    BY <1>1
  <1>3. \A i \in DOMAIN Tail(s) : i + 1 \in DOMAIN s /\ Tail(s)[i] = s[i + 1]
    BY <1>1, <1>2
  <1>4. Head(s) = s[1] /\ 1 \in DOMAIN s /\ s[1] \in S /\ \A i \in DOMAIN s : 1 <= i
    BY <1>1
  <1> QED
    BY <1>1, <1>3, <1>4

(* A wire with one more frame behind the others. *)
LEMMA Appends ==
  ASSUME NEW S, NEW s \in Seq(S), NEW x \in S
  PROVE  /\ Append(s, x) \in Seq(S)
         /\ \A i \in DOMAIN s : i < Len(s) + 1
         /\ Append(s, x)[Len(s) + 1] = x
         /\ \A i \in DOMAIN Append(s, x) :
              i = Len(s) + 1 \/ (i \in DOMAIN s /\ Append(s, x)[i] = s[i])
  <1>1. Len(s) \in Nat /\ DOMAIN s = 1 .. Len(s) /\ Append(s, x) \in Seq(S)
        /\ DOMAIN Append(s, x) = 1 .. Len(s) + 1
    OBVIOUS
  <1>2. Append(s, x)[Len(s) + 1] = x /\ \A i \in 1 .. Len(s) : Append(s, x)[i] = s[i]
    BY <1>1
  <1>3. ASSUME NEW i \in DOMAIN Append(s, x)
        PROVE  i = Len(s) + 1 \/ (i \in DOMAIN s /\ Append(s, x)[i] = s[i])
    <2>1. i = Len(s) + 1 \/ i \in 1 .. Len(s)
      BY <1>1
    <2> QED
      BY <1>1, <1>2, <2>1
  <1>4. \A i \in DOMAIN s : i < Len(s) + 1
    BY <1>1
  <1> QED
    BY <1>1, <1>2, <1>3, <1>4

(* An image and its blocks are sequences of units. *)
LEMMA ImageIs ==
  ASSUME NEW u \in Nat, NEW n \in Nat
  PROVE  Image(u, n) \in Seq(Units) /\ Len(Image(u, n)) = n /\ (n > 0 => Image(u, n)[1][1] = u)
  <1>1. Image(u, n) \in [1 .. n -> Units]
    BY DEF Image, Units
  <1>2. Image(u, n) \in Seq(Units)
    BY <1>1
  <1>3. n > 0 => Image(u, n)[1] = <<u, 1>>
    BY DEF Image
  <1> QED
    BY <1>1, <1>2, <1>3

(* A block is a sequence of units, and its offset a number. *)
LEMMA BlockIs ==
  ASSUME Parameters, Types, NEW at \in Nat, at < total
  PROVE  EncodeBlock(at) \in Args
  <1> DEFINE length == IF total - at < BlockSize THEN total - at ELSE BlockSize
             image == Image(update, total)
  <1>1. length \in Nat \ {0} /\ at + length <= total
    BY DEF Parameters, Types, HostTypes
  <1>2. image \in Seq(Units) /\ Len(image) = total
    BY ImageIs DEF Types, HostTypes
  <1> HIDE DEF length, image
  <1>3. SubSeq(image, at + 1, at + length) \in Seq(Units)
    BY <1>1, <1>2
  <1>4. EncodeBlock(at) = [at |-> at, units |-> SubSeq(image, at + 1, at + length)]
    BY DEF EncodeBlock, length, image
  <1> QED
    BY <1>3, <1>4 DEF Args

-----------------------------------------------------------------------------
(* Nothing is under way at first. *)
LEMMA InitConsistent == ASSUME Parameters, Init PROVE SessionConsistent
  <1> USE DEF Init
  <1>1. HostTypes
    BY DEF HostTypes, Parameters
  <1>2. WireTypes
    BY DEF WireTypes
  <1>3. McuTypes
    <2>1. NoSession \in Sessions /\ NoSession.state = "idle"
      BY DEF NoSession, Sessions
    <2>2. 0 \in 0 .. MaxUpdates
      BY DEF Parameters
    <2>3. cache.request = NoRequest /\ cache.answer = NoAnswer
      OBVIOUS
    <2> QED
      BY <2>1, <2>2, <2>3 DEF McuTypes
  <1>4. Numbered /\ InTurn /\ Offered
    BY DEF Numbered, InTurn, Offered, NoSession
  <1>5. Calls /\ SessionIsMine /\ AppliedIsMine
    BY DEF Calls, SessionIsMine, AppliedIsMine, Commands
  <1> QED
    BY <1>1, <1>2, <1>3, <1>4, <1>5 DEF SessionConsistent, Types

-----------------------------------------------------------------------------
(* What stays true when nothing is sent. *)

(* A wire keeps its order and loses at most what is in front. *)
Shortened(s, t) == \E d \in Nat : \A i \in DOMAIN t : i + d \in DOMAIN s /\ t[i] = s[i + d]

(* To leave a wire alone, to take its first frame and to empty it shorten it. *)
LEMMA Shorter ==
  ASSUME NEW S, NEW s \in Seq(S), NEW t, t = s \/ (s # <<>> /\ t = Tail(s)) \/ t = <<>>
  PROVE  t \in Seq(S) /\ Shortened(s, t)
  <1>0. \A i \in DOMAIN s : i + 0 = i
    OBVIOUS
  <1>1. CASE t = s
    <2>1. \A i \in DOMAIN t : i + 0 \in DOMAIN s /\ t[i] = s[i + 0]
      BY <1>0, <1>1
    <2> QED
      BY <1>1, <2>1 DEF Shortened
  <1>2. CASE s # <<>> /\ t = Tail(s)
    <2>1. t \in Seq(S) /\ \A i \in DOMAIN t : i + 1 \in DOMAIN s /\ t[i] = s[i + 1]
      BY <1>2, Tails
    <2> QED
      BY <2>1 DEF Shortened
  <1>3. CASE t = <<>>
    BY <1>3 DEF Shortened
  <1> QED
    BY <1>1, <1>2, <1>3

(* What is kept when nothing is sent and the session of the MCU at most ends. *)
LEMMA Kept ==
  ASSUME Parameters, SessionConsistent,
         UNCHANGED <<req, update>>,
         pc' \in {pc, "idle"},
         Shortened(toMcu, toMcu'), Shortened(toHost, toHost'),
         toMcu' \in Seq(Requests), toHost' \in Seq(Answers),
         UNCHANGED cache \/ cache' = [request |-> NoRequest, answer |-> NoAnswer],
         \/ UNCHANGED <<mcu, running>>
         \/ mcu' = NoSession /\ running' = Runs
  PROVE  Numbered' /\ InTurn' /\ Offered' /\ SessionIsMine' /\ AppliedIsMine' /\ McuTypes'
  <1> USE DEF SessionConsistent
  <1>m. PICK d \in Nat : \A i \in DOMAIN toMcu' : i + d \in DOMAIN toMcu /\ toMcu'[i] = toMcu[i + d]
    BY Zenon DEF Shortened
  <1>h. PICK e \in Nat : \A i \in DOMAIN toHost' :
                            i + e \in DOMAIN toHost /\ toHost'[i] = toHost[i + e]
    BY Zenon DEF Shortened
  <1>c. cache' = cache \/ (cache'.request = NoRequest /\ cache'.answer = NoAnswer)
    OBVIOUS
  <1>s. mcu' = mcu \/ (mcu' = NoSession /\ mcu'.state = "idle")
    BY DEF NoSession
  <1>r. Runs' = Runs
    BY DEF Runs, NoSession
  <1>n. req \in Requests => req # NoRequest
    BY DEF Requests, NoRequest, Commands
  <1>g. pc' \in Commands => (Granted' => Granted)
    <2> SUFFICES ASSUME pc' \in Commands, Granted' PROVE Granted
      OBVIOUS
    <2>0. req \in Requests
      BY DEF Calls, Commands
    <2>1. CASE \E i \in DOMAIN toHost' : toHost'[i].seq = req'.seq /\ toHost'[i].code = "ok"
      <3>1. PICK i \in DOMAIN toHost' : toHost'[i].seq = req.seq /\ toHost'[i].code = "ok"
        BY <2>1
      <3>2. i + e \in DOMAIN toHost /\ toHost'[i] = toHost[i + e]
        BY <1>h
      <3> QED
        BY <3>1, <3>2 DEF Granted
    <2>2. CASE cache'.request = req /\ cache'.answer.code = "ok"
      BY <1>c, <1>n, <2>0, <2>2 DEF Granted
    <2> QED
      BY <2>1, <2>2 DEF Granted
  <1>1. Numbered'
    <2>1. \A i \in DOMAIN toMcu' : toMcu'[i].seq = req.seq => toMcu'[i] = req
      BY <1>m DEF Numbered
    <2>2. \A i \in DOMAIN toHost' : toHost'[i].seq = req.seq => toHost'[i].cmd = req.cmd
      BY <1>h DEF Numbered
    <2> QED
      BY <1>c, <2>1, <2>2 DEF Numbered
  <1>2. InTurn'
    <2> SUFFICES ASSUME NEW i \in DOMAIN toMcu', NEW j \in DOMAIN toMcu', i <= j, toMcu'[i] = req
                 PROVE  toMcu'[j] = req
      BY Zenon DEF InTurn
    <2>1. i + d <= j + d
      OBVIOUS
    <2> QED
      BY <1>m, <2>1 DEF InTurn
  <1>3. Offered'
    <2>1. \A i \in DOMAIN toMcu' : toMcu'[i].cmd = "start" => Of(toMcu'[i]) \in 1 .. update
      BY <1>m, Zenon DEF Offered
    <2>2. mcu'.state # "idle" => mcu'.update \in 1 .. update
      BY <1>s DEF Offered
    <2> QED
      BY <2>1, <2>2 DEF Offered, Of
  <1>4. SessionIsMine'
    <2> SUFFICES ASSUME pc' \in {"write", "verify", "apply"} \/ (pc' = "start" /\ Granted')
                 PROVE  /\ mcu'.state # "idle" => mcu'.update = update
                        /\ \A i \in DOMAIN toMcu' : toMcu'[i].cmd = "start" => Of(toMcu'[i]) = update
      BY Zenon DEF SessionIsMine, Of
    <2>1. pc \in {"write", "verify", "apply"} \/ (pc = "start" /\ Granted)
      BY <1>g DEF Commands
    <2>2. /\ mcu.state # "idle" => mcu.update = update
          /\ \A i \in DOMAIN toMcu : toMcu[i].cmd = "start" => Of(toMcu[i]) = update
      BY <2>1, Zenon DEF SessionIsMine
    <2>3. \A i \in DOMAIN toMcu' : toMcu'[i].cmd = "start" => Of(toMcu'[i]) = update
      BY <1>m, <2>2, Zenon
    <2> QED
      BY <1>s, <2>2, <2>3
  <1>5. AppliedIsMine'
    BY <1>g, <1>r DEF AppliedIsMine, Commands
  <1>6. McuTypes'
    <2>0. NoSession \in Sessions
      BY DEF NoSession, Sessions
    <2>1. mcu' \in Sessions
      BY <1>s, <2>0 DEF Types, McuTypes
    <2>2. /\ cache'.request \in Requests \union {NoRequest}
          /\ cache'.answer \in Answers \union {NoAnswer}
      BY <1>c DEF Types, McuTypes
    <2>3. running' \in 0 .. MaxUpdates
      <3>1. running \in 0 .. MaxUpdates /\ (running' = running \/ running' = Runs)
        BY DEF Types, McuTypes
      <3>2. Runs = running \/ Runs \in 1 .. update
        BY DEF Offered, Runs
      <3> QED
        BY <3>1, <3>2 DEF Types, HostTypes, Parameters
    <2> QED
      BY <2>1, <2>2, <2>3 DEF McuTypes
  <1> QED
    BY <1>1, <1>2, <1>3, <1>4, <1>5, <1>6

(* A call begins, is refused for its size, or returns; something is lost. *)
LEMMA QuietConsistent ==
  ASSUME Parameters, SessionConsistent,
         \/ RefuseSize \/ Finish \/ AbortReturns \/ CallbackThrows
         \/ LoseRequest \/ LoseAnswer \/ StrayAnswer \/ McuReboots \/ McuLosesPower
         \/ (StepRefused \/ StepTimedOut) /\ pc' = "idle" /\ told' = "failed"
            /\ UNCHANGED <<req, toMcu>>
  PROVE  SessionConsistent'
  <1> USE DEF SessionConsistent
  <1>1. UNCHANGED <<req, update, total>> /\ offset' \in Nat /\ HostTypes'
    <2>1. UNCHANGED <<req, update, total>>
      BY DEF RefuseSize, Finish, AbortReturns, CallbackThrows, LoseRequest, LoseAnswer, StrayAnswer,
             McuReboots, McuLosesPower, StepRefused, StepTimedOut, hostVars
    <2>2. offset' \in Nat
      <3>1. CASE CallbackThrows
        <4>1. req \in Requests
          BY <3>1 DEF CallbackThrows, Calls, Commands
        <4>2. Len(req.arg.units) \in Nat
          BY <4>1 DEF Requests, Args
        <4> QED
          BY <3>1, <4>2 DEF CallbackThrows, Types, HostTypes
      <3>2. CASE offset' = offset
        BY <3>2 DEF Types, HostTypes
      <3> QED
        BY <3>1, <3>2
        DEF RefuseSize, Finish, AbortReturns, LoseRequest, LoseAnswer, StrayAnswer,
            McuReboots, McuLosesPower, StepRefused, StepTimedOut, hostVars
    <2>3. pc' \in {pc, "idle"} /\ told' \in {told, "ok", "failed"}
      BY DEF RefuseSize, Finish, AbortReturns, CallbackThrows, LoseRequest, LoseAnswer, StrayAnswer,
             McuReboots, McuLosesPower, hostVars
    <2> QED
      BY <2>1, <2>2, <2>3 DEF Types, HostTypes
  <1>2. pc' \in {pc, "idle"}
    BY DEF RefuseSize, Finish, AbortReturns, CallbackThrows, LoseRequest, LoseAnswer, StrayAnswer,
           McuReboots, McuLosesPower, hostVars
  <1>3. \/ pc' = pc /\ told' = told
        \/ pc' = "idle" /\ told' \in {"ok", "failed"}
    BY DEF RefuseSize, Finish, AbortReturns, CallbackThrows, LoseRequest, LoseAnswer, StrayAnswer,
           McuReboots, McuLosesPower, hostVars
  <1>4. Calls'
    BY <1>1, <1>3 DEF Calls, Commands, Of
  <1>5. toMcu' = toMcu \/ (toMcu # <<>> /\ toMcu' = Tail(toMcu)) \/ toMcu' = <<>>
    BY DEF RefuseSize, Finish, AbortReturns, CallbackThrows, LoseRequest, LoseAnswer, StrayAnswer,
           McuReboots, McuLosesPower, StepRefused, StepTimedOut
  <1>6. toHost' = toHost \/ (toHost # <<>> /\ toHost' = Tail(toHost)) \/ toHost' = <<>>
    BY DEF RefuseSize, Finish, AbortReturns, CallbackThrows, LoseRequest, LoseAnswer, StrayAnswer,
           McuReboots, McuLosesPower, StepRefused, StepTimedOut, Answered, Succeeded
  <1>7. /\ toMcu' \in Seq(Requests) /\ Shortened(toMcu, toMcu')
        /\ toHost' \in Seq(Answers) /\ Shortened(toHost, toHost')
    BY <1>5, <1>6, Shorter DEF Types, WireTypes
  <1>8. UNCHANGED cache \/ cache' = [request |-> NoRequest, answer |-> NoAnswer]
    BY DEF RefuseSize, Finish, AbortReturns, CallbackThrows, LoseRequest, LoseAnswer, StrayAnswer,
           McuReboots, McuLosesPower, StepRefused, StepTimedOut, mcuVars
  <1>9. UNCHANGED <<mcu, running>> \/ (mcu' = NoSession /\ running' = Runs)
    BY DEF RefuseSize, Finish, AbortReturns, CallbackThrows, LoseRequest, LoseAnswer, StrayAnswer,
           McuReboots, McuLosesPower, StepRefused, StepTimedOut, mcuVars, Runs
  <1>10. Numbered' /\ InTurn' /\ Offered' /\ SessionIsMine' /\ AppliedIsMine' /\ McuTypes'
    BY <1>1, <1>2, <1>7, <1>8, <1>9, Kept
  <1> QED
    BY <1>1, <1>4, <1>7, <1>10 DEF Types, WireTypes

(* A call begins: the session an earlier one left behind is not its own yet. *)
LEMMA BeginConsistent ==
  ASSUME Parameters, SessionConsistent, BeginUpdate
  PROVE  SessionConsistent'
  <1> USE DEF SessionConsistent
  <1>u. /\ update' = update + 1 /\ pc' = "size" /\ told' = "pending" /\ offset' = 0
        /\ UNCHANGED <<req, toMcu, toHost, mcu, cache, running>> /\ update < MaxUpdates
    BY DEF BeginUpdate, mcuVars
  <1>1. Types'
    <2>1. total' \in Nat
      BY DEF BeginUpdate, Parameters
    <2> QED
      BY <1>u, <2>1 DEF Types, HostTypes, WireTypes, McuTypes, Parameters
  <1>2. Calls'
    BY <1>u DEF Calls, Commands, Types, HostTypes
  <1>3. Numbered' /\ InTurn'
    BY <1>u DEF Numbered, InTurn
  <1>4. Offered'
    <2>1. \A n \in 1 .. update : n \in 1 .. update'
      BY <1>u DEF Types, HostTypes
    <2> QED
      BY <1>u, <2>1 DEF Offered, Of
  <1>5. SessionIsMine' /\ AppliedIsMine'
    BY <1>u DEF SessionIsMine, AppliedIsMine
  <1> QED
    BY <1>1, <1>2, <1>3, <1>4, <1>5

-----------------------------------------------------------------------------
(* A new command bears a number of its own: nothing on the wire answers it. *)
LEMMA Sent ==
  ASSUME Parameters, SessionConsistent,
         NEW cmd \in Commands, NEW arg \in Args, SendCmd(cmd, arg), NumbersAreFresh,
         toHost' = toHost \/ (toHost # <<>> /\ toHost' = Tail(toHost)),
         UNCHANGED <<update, total, mcu, cache, running>>,
         cmd = "start" => update > 0 /\ arg.units[1][1] = update
  PROVE  /\ WireTypes' /\ McuTypes' /\ Numbered' /\ InTurn' /\ Offered' /\ ~Granted'
         /\ req' \in Requests /\ req'.cmd = cmd /\ req'.arg = arg /\ pc' = cmd
         /\ \A i \in DOMAIN toMcu' : toMcu'[i] = req' \/ \E k \in DOMAIN toMcu : toMcu'[i] = toMcu[k]
  <1> USE DEF SessionConsistent
  <1>1. /\ req' = [seq |-> (req.seq + 1) % SeqRange, cmd |-> cmd, arg |-> arg]
        /\ pc' = cmd /\ toMcu' = Append(toMcu, req')
    BY DEF SendCmd
  <1>2. req.seq \in Nat
    BY DEF Types, HostTypes, Requests, NoRequest
  <1>3. (req.seq + 1) % SeqRange \in Nat
    BY <1>2 DEF Parameters
  <1>4. req' \in Requests /\ req'.cmd = cmd /\ req'.arg = arg /\ req'.seq = (req.seq + 1) % SeqRange
    BY <1>1, <1>3 DEF Requests
  <1>5. req' # NoRequest
    BY <1>4 DEF Requests, NoRequest, Commands
  <1>h. toHost' \in Seq(Answers) /\ Shortened(toHost, toHost')
    BY Shorter DEF Types, WireTypes
  <1>e. PICK e \in Nat : \A i \in DOMAIN toHost' :
                            i + e \in DOMAIN toHost /\ toHost'[i] = toHost[i + e]
    BY <1>h, Zenon DEF Shortened
  <1>m. /\ toMcu' \in Seq(Requests)
        /\ \A i \in DOMAIN toMcu : i < Len(toMcu) + 1
        /\ toMcu'[Len(toMcu) + 1] = req'
        /\ \A i \in DOMAIN toMcu' :
             i = Len(toMcu) + 1 \/ (i \in DOMAIN toMcu /\ toMcu'[i] = toMcu[i])
    BY <1>1, <1>4, Appends DEF Types, WireTypes
  <1>6. req' # req
    <2>1. SUFFICES ASSUME req' = req PROVE FALSE
      OBVIOUS
    <2>2. (req.seq + 1) % SeqRange # req.seq
      <3> DEFINE s == req.seq
                 q == (s + 1) \div SeqRange
      <3>1. SUFFICES ASSUME (s + 1) % SeqRange = s PROVE FALSE
        OBVIOUS
      <3>2. s \in Nat /\ SeqRange \in Nat /\ SeqRange > 1
        BY <1>2 DEF Parameters
      <3>3. 0 <= s /\ s < SeqRange
        BY <3>1, <3>2
      <3>4. CASE s + 1 < SeqRange
        BY <3>1, <3>2, <3>4
      <3>5. CASE s + 1 = SeqRange
        BY <3>1, <3>2, <3>5
      <3> QED
        BY <3>2, <3>3, <3>4, <3>5
    <2> QED
      BY <1>4, <2>1, <2>2
  <1>7. /\ \A i \in DOMAIN toMcu : toMcu[i].seq # req'.seq
        /\ \A i \in DOMAIN toHost : toHost[i].seq # req'.seq
        /\ cache.request # NoRequest => cache.request.seq # req'.seq
    BY <1>6, Zenon DEF NumbersAreFresh
  <1>8. \A i \in DOMAIN toHost' : toHost'[i].seq # req'.seq
    BY <1>e, <1>7, Zenon
  <1>9. ~Granted'
    BY <1>5, <1>7, <1>8 DEF Granted
  <1>10. Numbered'
    <2>1. \A i \in DOMAIN toMcu' : toMcu'[i].seq = req'.seq => toMcu'[i] = req'
      BY <1>m, <1>7
    <2> QED
      BY <1>7, <1>8, <2>1 DEF Numbered
  <1>11. InTurn'
    <2> SUFFICES ASSUME NEW i \in DOMAIN toMcu', NEW j \in DOMAIN toMcu', i <= j, toMcu'[i] = req'
                 PROVE  toMcu'[j] = req'
      BY Zenon DEF InTurn
    <2>1. i = Len(toMcu) + 1
      BY <1>m, <1>7
    <2>2. j = Len(toMcu) + 1
      BY <1>m, <2>1
    <2> QED
      BY <1>m, <2>2
  <1>12. Offered'
    <2>1. update \in Nat
      BY DEF Types, HostTypes
    <2>2. req'.cmd = "start" => Of(req') \in 1 .. update
      BY <1>4, <2>1 DEF Of
    <2>3. \A i \in DOMAIN toMcu' : toMcu'[i].cmd = "start" => Of(toMcu'[i]) \in 1 .. update
      <3> TAKE i \in DOMAIN toMcu'
      <3>1. toMcu'[i] = req' \/ (i \in DOMAIN toMcu /\ toMcu'[i] = toMcu[i])
        BY <1>m
      <3> QED
        BY <2>2, <3>1 DEF Offered
    <2> QED
      BY <2>3 DEF Offered, Of
  <1>13. \A i \in DOMAIN toMcu' : toMcu'[i] = req' \/ \E k \in DOMAIN toMcu : toMcu'[i] = toMcu[k]
    BY <1>m
  <1> QED
    BY <1>1, <1>4, <1>h, <1>m, <1>9, <1>10, <1>11, <1>12, <1>13 DEF Types, WireTypes, McuTypes

(* The caller sends its next command. *)
LEMMA SendConsistent ==
  ASSUME Parameters, SessionConsistent, NumbersAreFresh,
         \/ Start \/ WriteNext \/ Apply
         \/ (StepRefused \/ StepTimedOut) /\ SendCmd("abort", NoArg) /\ told' = told
  PROVE  SessionConsistent'
  <1> USE DEF SessionConsistent
  <1>a. NoArg \in Args
    BY DEF NoArg, Args
  <1>u. UNCHANGED <<update, total, told, mcu, cache, running>>
    BY DEF Start, WriteNext, Apply, StepRefused, StepTimedOut, mcuVars
  <1>h. toHost' = toHost \/ (toHost # <<>> /\ toHost' = Tail(toHost))
    BY DEF Start, WriteNext, Apply, StepRefused, StepTimedOut, Succeeded, Answered
  <1>w. pc # "idle" /\ told = "pending" /\ update > 0
    BY DEF Start, WriteNext, Apply, StepRefused, StepTimedOut, Calls, TimedOut, Succeeded, Answered,
           Commands, Types, HostTypes, Requests, NoRequest
  <1>o. offset' \in Nat
    <2>1. CASE WriteNext
      <3>1. pc \in {"start", "write"}
        BY <2>1 DEF WriteNext
      <3>2. req \in Requests
        BY <3>1 DEF Calls, Commands
      <3>3. Len(req.arg.units) \in Nat
        BY <3>2 DEF Requests, Args
      <3> QED
        BY <2>1, <3>3 DEF WriteNext, Types, HostTypes
    <2>2. CASE offset' = offset
      BY <2>2 DEF Types, HostTypes
    <2> QED
      BY <2>1, <2>2 DEF Start, Apply, StepRefused, StepTimedOut
  <1>1. ASSUME NEW cmd \in Commands, NEW arg \in Args, SendCmd(cmd, arg),
               cmd = "start" => arg.units[1][1] = update,
               cmd \in {"write", "verify", "apply"} =>
                 pc \in {"write", "verify", "apply"} \/ (pc = "start" /\ Granted)
        PROVE  SessionConsistent'
    <2>1. /\ WireTypes' /\ McuTypes' /\ Numbered' /\ InTurn' /\ Offered' /\ ~Granted'
          /\ req' \in Requests /\ req'.cmd = cmd /\ req'.arg = arg /\ pc' = cmd
          /\ \A i \in DOMAIN toMcu' :
               toMcu'[i] = req' \/ \E k \in DOMAIN toMcu : toMcu'[i] = toMcu[k]
      BY <1>1, <1>u, <1>h, <1>w, Sent
    <2>2. HostTypes'
      BY <1>u, <1>o, <2>1 DEF Types, HostTypes
    <2>3. Calls'
      BY <1>1, <1>u, <1>w, <2>1 DEF Calls, Of, Commands
    <2>4. SessionIsMine'
      <3> SUFFICES ASSUME cmd \in {"write", "verify", "apply"}
                   PROVE  /\ mcu.state # "idle" => mcu.update = update
                          /\ \A i \in DOMAIN toMcu' : toMcu'[i].cmd = "start" => Of(toMcu'[i]) = update
        BY <1>u, <2>1, Zenon DEF SessionIsMine, Of
      <3>1. /\ mcu.state # "idle" => mcu.update = update
            /\ \A i \in DOMAIN toMcu : toMcu[i].cmd = "start" => Of(toMcu[i]) = update
        BY <1>1 DEF SessionIsMine
      <3>2. req'.cmd # "start"
        BY <2>1
      <3> QED
        BY <2>1, <3>1, <3>2
    <2>5. AppliedIsMine'
      BY <2>1 DEF AppliedIsMine
    <2> QED
      BY <2>1, <2>2, <2>3, <2>4, <2>5 DEF Types
  <1>g. Succeeded => Granted
    <2>1. toHost # <<>> => Head(toHost) = toHost[1] /\ 1 \in DOMAIN toHost
      BY Tails DEF Types, WireTypes
    <2> QED
      BY <2>1 DEF Succeeded, Answered, AckErrorCode, Granted
  <1>2. CASE Start
    <2>1. Image(update, total) \in Seq(Units) /\ Image(update, total)[1][1] = update
      BY <1>2, ImageIs DEF Start, Types, HostTypes
    <2>2. [at |-> total, units |-> Image(update, total)] \in Args
      BY <2>1 DEF Args, Types, HostTypes
    <2>3. SendCmd("start", [at |-> total, units |-> Image(update, total)])
      BY <1>2 DEF Start
    <2> DEFINE arg == [at |-> total, units |-> Image(update, total)]
    <2>4. arg \in Args /\ SendCmd("start", arg) /\ arg.units[1][1] = update
      BY <2>1, <2>2, <2>3
    <2> HIDE DEF arg
    <2> QED
      BY <1>1, <2>4 DEF Commands
  <1>3. CASE WriteNext
    <2>1. pc \in {"write", "verify", "apply"} \/ (pc = "start" /\ Granted)
      BY <1>3, <1>g DEF WriteNext
    <2>2. \/ SendCmd("verify", NoArg)
          \/ \E n \in Nat : n < total /\ SendCmd("write", EncodeBlock(n))
      <3>1. /\ offset' = IF pc = "start" THEN 0 ELSE offset + Len(req.arg.units)
            /\ IF offset' < total THEN SendCmd("write", EncodeBlock(offset'))
               ELSE SendCmd("verify", NoArg)
        BY <1>3, Zenon DEF WriteNext
      <3> QED
        BY <1>o, <3>1
    <2>3. CASE SendCmd("verify", NoArg)
      BY <1>1, <1>a, <2>1, <2>3 DEF Commands
    <2>4. CASE \E n \in Nat : n < total /\ SendCmd("write", EncodeBlock(n))
      <3>1. PICK n \in Nat : n < total /\ SendCmd("write", EncodeBlock(n))
        BY <2>4
      <3>2. EncodeBlock(n) \in Args
        BY <3>1, BlockIs
      <3> QED
        BY <1>1, <2>1, <3>1, <3>2 DEF Commands
    <2> QED
      BY <2>2, <2>3, <2>4
  <1>4. CASE Apply
    BY <1>1, <1>a, <1>4 DEF Apply, Commands
  <1>5. CASE SendCmd("abort", NoArg)
    BY <1>1, <1>a, <1>5 DEF Commands
  <1> QED
    BY <1>2, <1>3, <1>4, <1>5

(* A repeat is the same request. *)
LEMMA RetryConsistent ==
  ASSUME Parameters, SessionConsistent, Retry
  PROVE  SessionConsistent'
  <1> USE DEF SessionConsistent
  <1>u. UNCHANGED <<pc, update, total, offset, told, toHost, mcu, cache, running, req>>
    BY DEF Retry, RepeatedRequest, mcuVars
  <1>1. req \in Requests /\ req.cmd = pc
    BY DEF Retry, TimedOut, Calls, Types, HostTypes, Requests, NoRequest, Commands
  <1>2. /\ toMcu' \in Seq(Requests)
        /\ \A i \in DOMAIN toMcu' : toMcu'[i] = req \/ (i \in DOMAIN toMcu /\ toMcu'[i] = toMcu[i])
        /\ \A i \in DOMAIN toMcu : i < Len(toMcu) + 1
        /\ \A i \in DOMAIN toMcu' : i = Len(toMcu) + 1 \/ (i \in DOMAIN toMcu /\ toMcu'[i] = toMcu[i])
        /\ toMcu'[Len(toMcu) + 1] = req
    BY <1>1, Appends DEF Retry, RepeatedRequest, Types, WireTypes
  <1>3. Types'
    BY <1>u, <1>2 DEF Types, HostTypes, WireTypes, McuTypes
  <1>4. Calls'
    BY <1>u DEF Calls, Of
  <1>5. Numbered'
    <2>1. \A i \in DOMAIN toMcu' : toMcu'[i].seq = req.seq => toMcu'[i] = req
      BY <1>2 DEF Numbered
    <2> QED
      BY <1>u, <2>1 DEF Numbered
  <1>6. InTurn'
    <2> SUFFICES ASSUME NEW i \in DOMAIN toMcu', NEW j \in DOMAIN toMcu', i <= j, toMcu'[i] = req
                 PROVE  toMcu'[j] = req
      BY <1>u, Zenon DEF InTurn
    <2>1. CASE j = Len(toMcu) + 1
      BY <1>2, <2>1
    <2>2. CASE j # Len(toMcu) + 1
      <3>1. j \in DOMAIN toMcu /\ toMcu'[j] = toMcu[j] /\ j < Len(toMcu) + 1
        BY <1>2, <2>2
      <3>2. i \in DOMAIN toMcu /\ toMcu'[i] = toMcu[i]
        BY <1>2, <3>1 DEF Types, WireTypes
      <3> QED
        BY <3>1, <3>2 DEF InTurn
    <2> QED
      BY <2>1, <2>2
  <1>7. req.cmd = "start" => Of(req) = update /\ update > 0
    BY <1>1, <1>u DEF Calls, Commands
  <1>8. Offered'
    <2>1. req.cmd = "start" => Of(req) \in 1 .. update
      BY <1>7 DEF Types, HostTypes
    <2>2. \A i \in DOMAIN toMcu' : toMcu'[i].cmd = "start" => Of(toMcu'[i]) \in 1 .. update
      BY <1>2, <2>1 DEF Offered
    <2> QED
      BY <1>u, <2>2 DEF Offered, Of
  <1>g. Granted' = Granted
    BY <1>u DEF Granted
  <1>9. SessionIsMine'
    <2> SUFFICES ASSUME pc \in {"write", "verify", "apply"} \/ (pc = "start" /\ Granted)
                 PROVE  /\ mcu.state # "idle" => mcu.update = update
                        /\ \A i \in DOMAIN toMcu' : toMcu'[i].cmd = "start" => Of(toMcu'[i]) = update
      BY <1>u, <1>g, Zenon DEF SessionIsMine, Of
    <2>1. /\ mcu.state # "idle" => mcu.update = update
          /\ \A i \in DOMAIN toMcu : toMcu[i].cmd = "start" => Of(toMcu[i]) = update
      BY DEF SessionIsMine
    <2> QED
      BY <1>2, <1>7, <2>1
  <1>10. AppliedIsMine'
    BY <1>u, <1>g DEF AppliedIsMine, Runs
  <1> QED
    BY <1>3, <1>4, <1>5, <1>6, <1>8, <1>9, <1>10

-----------------------------------------------------------------------------
(* The MCU. *)

(* The MCU answers a request it takes; whatever it does with its session, a
   number stays with its request. *)
LEMMA Replied ==
  ASSUME Parameters, SessionConsistent, toMcu # <<>>,
         NEW r, r = Head(toMcu), NEW isNack \in BOOLEAN, NEW code \in Codes,
         Reply(r, isNack, code), UNCHANGED <<hostVars, running>>
  PROVE  /\ HostTypes' /\ WireTypes' /\ Calls' /\ Numbered' /\ InTurn'
         /\ cache'.request \in Requests /\ cache'.answer \in Answers
         /\ r \in Requests
         /\ \A i \in DOMAIN toMcu' : \E k \in DOMAIN toMcu : toMcu'[i] = toMcu[k]
         /\ \E k \in DOMAIN toMcu : r = toMcu[k]
         /\ r = req => \A k \in DOMAIN toMcu : toMcu[k] = req
         /\ Granted' => Granted \/ (r = req /\ code = "ok")
  <1> USE DEF SessionConsistent
  <1> DEFINE a == [seq |-> r.seq, cmd |-> r.cmd, nack |-> isNack, code |-> code]
  <1>h. UNCHANGED <<pc, update, total, offset, req, told>>
    BY DEF hostVars
  <1>t. /\ toMcu' \in Seq(Requests) /\ r = toMcu[1] /\ 1 \in DOMAIN toMcu /\ r \in Requests
        /\ \A i \in DOMAIN toMcu : 1 <= i
        /\ \A i \in DOMAIN toMcu' : i + 1 \in DOMAIN toMcu /\ toMcu'[i] = toMcu[i + 1]
    BY Tails DEF Reply, Types, WireTypes
  <1>a. a \in Answers /\ a.seq = r.seq /\ a.cmd = r.cmd /\ a.code = code
    BY <1>t DEF Answers, Requests
  <1>r. toHost' = Append(toHost, a) /\ cache'.request = r /\ cache'.answer = a
    BY DEF Reply
  <1> HIDE DEF a
  <1>p. /\ toHost' \in Seq(Answers)
        /\ \A i \in DOMAIN toHost' : toHost'[i] = a \/ (i \in DOMAIN toHost /\ toHost'[i] = toHost[i])
    BY <1>a, <1>r, Appends DEF Types, WireTypes
  <1>n. r # NoRequest
    BY <1>t DEF Requests, NoRequest, Commands
  <1>q. r.seq = req.seq => r = req
    BY <1>t DEF Numbered
  <1>1. HostTypes' /\ WireTypes' /\ Calls'
    BY <1>h, <1>t, <1>p DEF Types, HostTypes, WireTypes, Calls, Of
  <1>2. Numbered'
    <2>1. \A i \in DOMAIN toMcu' : toMcu'[i].seq = req.seq => toMcu'[i] = req
      BY <1>t DEF Numbered
    <2>2. \A i \in DOMAIN toHost' : toHost'[i].seq = req.seq => toHost'[i].cmd = req.cmd
      BY <1>p, <1>a, <1>q DEF Numbered
    <2> QED
      BY <1>h, <1>a, <1>r, <1>q, <2>1, <2>2 DEF Numbered
  <1>3. InTurn'
    <2> SUFFICES ASSUME NEW i \in DOMAIN toMcu', NEW j \in DOMAIN toMcu', i <= j, toMcu'[i] = req
                 PROVE  toMcu'[j] = req
      BY <1>h, Zenon DEF InTurn
    <2>1. i + 1 <= j + 1
      BY <1>t
    <2> QED
      BY <1>t, <2>1 DEF InTurn
  <1>4. r = req => \A k \in DOMAIN toMcu : toMcu[k] = req
    BY <1>t DEF InTurn
  <1>5. Granted' => Granted \/ (r = req /\ code = "ok")
    <2> SUFFICES ASSUME Granted' PROVE Granted \/ (r = req /\ code = "ok")
      OBVIOUS
    <2>1. CASE \E i \in DOMAIN toHost' : toHost'[i].seq = req'.seq /\ toHost'[i].code = "ok"
      <3>1. PICK i \in DOMAIN toHost' : toHost'[i].seq = req.seq /\ toHost'[i].code = "ok"
        BY <1>h, <2>1
      <3> QED
        BY <1>a, <1>p, <1>q, <3>1 DEF Granted
    <2>2. CASE cache'.request = req' /\ cache'.answer.code = "ok"
      BY <1>a, <1>h, <1>r, <2>2
    <2> QED
      BY <2>1, <2>2 DEF Granted
  <1> QED
    BY <1>1, <1>2, <1>3, <1>4, <1>5, <1>a, <1>r, <1>t

(* It takes a request up, or fails to. *)
LEMMA HandlesConsistent ==
  ASSUME Parameters, SessionConsistent, McuHandles \/ McuFails
  PROVE  SessionConsistent'
  <1> USE DEF SessionConsistent
  <1> DEFINE r == Head(toMcu)
  <1>h. UNCHANGED <<hostVars, running>> /\ toMcu # <<>> /\ mcu.state # "applying"
    BY DEF McuHandles, McuFails, Listening
  <1>v. UNCHANGED <<pc, update, total, offset, req, told>>
    BY <1>h DEF hostVars
  <1>1. ASSUME NEW isNack \in BOOLEAN, NEW code \in Codes, Reply(r, isNack, code),
               mcu' \in Sessions,
               \/ mcu'.state = "idle"
               \/ /\ mcu.state # "idle" /\ mcu'.update = mcu.update
                  /\ r.cmd = "start" => code # "ok"
               \/ r.cmd = "start" /\ mcu'.update = Of(r),
               mcu'.state = "applying" <=> r.cmd = "apply" /\ code = "ok",
               mcu'.state = "applying" => mcu.state # "idle" /\ mcu'.update = mcu.update
        PROVE  SessionConsistent'
    <2>1. /\ HostTypes' /\ WireTypes' /\ Calls' /\ Numbered' /\ InTurn'
          /\ cache'.request \in Requests /\ cache'.answer \in Answers
          /\ r \in Requests
          /\ \A i \in DOMAIN toMcu' : \E k \in DOMAIN toMcu : toMcu'[i] = toMcu[k]
          /\ \E k \in DOMAIN toMcu : r = toMcu[k]
          /\ r = req => \A k \in DOMAIN toMcu : toMcu[k] = req
          /\ Granted' => Granted \/ (r = req /\ code = "ok")
      BY <1>1, <1>h, Replied
    <2> HIDE DEF r
    <2>2. McuTypes'
      BY <1>1, <1>h, <2>1 DEF Types, McuTypes
    <2>3. Offered'
      <3>1. r.cmd = "start" => Of(r) \in 1 .. update
        BY <2>1 DEF Offered
      <3>2. mcu'.state # "idle" => mcu'.update \in 1 .. update
        BY <1>1, <3>1 DEF Offered
      <3>3. \A i \in DOMAIN toMcu' : toMcu'[i].cmd = "start" => Of(toMcu'[i]) \in 1 .. update
        BY <2>1 DEF Offered
      <3> QED
        BY <1>v, <3>2, <3>3 DEF Offered, Of
    <2>4. ASSUME pc \in {"write", "verify", "apply"} \/ (pc = "start" /\ Granted')
          PROVE  /\ mcu'.state # "idle" => mcu'.update = update
                 /\ \A i \in DOMAIN toMcu : toMcu[i].cmd = "start" => Of(toMcu[i]) = update
                 /\ mcu.state # "idle" /\ (r # req \/ pc # "start" \/ Granted) => mcu.update = update
      <3>1. CASE pc \in {"write", "verify", "apply"} \/ (pc = "start" /\ Granted)
        <4>1. /\ mcu.state # "idle" => mcu.update = update
              /\ \A i \in DOMAIN toMcu : toMcu[i].cmd = "start" => Of(toMcu[i]) = update
          BY <3>1 DEF SessionIsMine
        <4>2. r.cmd = "start" => Of(r) = update
          BY <2>1, <4>1
        <4> QED
          BY <1>1, <4>1, <4>2
      <3>2. CASE pc = "start" /\ ~Granted
        <4>1. r = req /\ code = "ok" /\ Of(req) = update /\ req.cmd = "start"
          BY <2>1, <2>4, <3>2 DEF Calls, Commands
        <4>2. \A i \in DOMAIN toMcu : toMcu[i].cmd = "start" => Of(toMcu[i]) = update
          BY <2>1, <4>1
        <4>3. mcu'.state # "idle" => mcu'.update = update
          BY <1>1, <4>1
        <4> QED
          BY <3>2, <4>1, <4>2, <4>3
      <3> QED
        BY <2>4, <3>1, <3>2
    <2>5. SessionIsMine'
      <3> SUFFICES ASSUME pc \in {"write", "verify", "apply"} \/ (pc = "start" /\ Granted')
                   PROVE  /\ mcu'.state # "idle" => mcu'.update = update
                          /\ \A i \in DOMAIN toMcu' : toMcu'[i].cmd = "start" => Of(toMcu'[i]) = update
        BY <1>v, Zenon DEF SessionIsMine, Of
      <3> QED
        BY <2>1, <2>4
    <2>6. AppliedIsMine'
      <3> SUFFICES ASSUME pc = "apply", Granted' PROVE Runs' = update
        BY <1>v DEF AppliedIsMine
      <3>1. CASE mcu'.state = "applying"
        BY <2>4, <3>1 DEF Runs
      <3>2. CASE mcu'.state # "applying"
        <4>1. Granted
          BY <1>1, <2>1, <3>2 DEF Calls, Commands
        <4>2. Runs = update /\ Runs = running
          BY <1>h, <4>1 DEF AppliedIsMine, Runs
        <4> QED
          BY <1>h, <3>2, <4>2 DEF Runs
      <3> QED
        BY <3>1, <3>2
    <2> QED
      BY <2>1, <2>2, <2>3, <2>5, <2>6 DEF Types
  <1>m. mcu \in Sessions
    BY DEF Types, McuTypes
  <1>k. r \in Requests
    BY <1>h, Tails DEF Types, WireTypes
  <1> HIDE DEF r
  <1>b. Broken \in Sessions /\ Broken.state = "error" /\ Broken.update = mcu.update
    BY <1>m DEF Broken, Sessions
  <1>2. ASSUME NEW isNack \in BOOLEAN, NEW code \in Codes, Reply(r, isNack, code),
               mcu' = mcu, code # "ok"
        PROVE  SessionConsistent'
    BY <1>1, <1>2, <1>h, <1>m
  <1>3. ASSUME NEW code \in Codes, Break(r, code), code # "ok", mcu.state # "idle"
        PROVE  SessionConsistent'
    <2>1. Reply(r, FALSE, code) /\ mcu' = Broken
      BY <1>3 DEF Break
    <2> QED
      BY <1>1, <1>3, <1>b, <2>1
  <1>4. CASE HandlesStart(r)
    <2>1. CASE mcu.state = "idle"
      <3> DEFINE s == [state |-> "started", update |-> r.arg.units[1][1],
                       total |-> r.arg.at, flash |-> <<>>]
      <3>1. mcu' = s /\ Reply(r, FALSE, "ok") /\ r.cmd = "start"
        BY <1>4, <2>1 DEF HandlesStart, Accept
      <3>2. s.state = "started" /\ s.update = Of(r)
        BY DEF Of
      <3>3. s \in Sessions
        <4>1. \E k \in DOMAIN toMcu : r = toMcu[k]
          BY <1>h, Tails DEF Types, WireTypes, r
        <4>2. Of(r) \in Nat
          BY <3>1, <4>1 DEF Offered, Types, HostTypes
        <4>3. r.arg.at \in Nat
          BY <1>k DEF Requests, Args
        <4> QED
          BY <4>2, <4>3 DEF Sessions, Of
      <3> HIDE DEF s
      <3> QED
        BY <1>1, <3>1, <3>2, <3>3 DEF Codes
    <2>2. CASE mcu.state # "idle"
      BY <1>2, <1>4, <2>2 DEF HandlesStart, Refuse, Codes
    <2> QED
      BY <2>1, <2>2
  <1>5. CASE HandlesWrite(r)
    <2>1. CASE Refuse(r, "not started")
      BY <1>2, <2>1 DEF Refuse, Codes
    <2>2. CASE mcu.state \in {"started", "receiving"} /\ Break(r, "offset")
      BY <1>3, <2>2 DEF Codes
    <2>3. CASE /\ mcu.state \in {"started", "receiving"}
               /\ Accept(r, [mcu EXCEPT !.state = "receiving", !.flash = @ \o r.arg.units])
      <3> DEFINE f == mcu.flash \o r.arg.units
                 s == [mcu EXCEPT !.state = "receiving", !.flash = f]
      <3>1. mcu' = s /\ Reply(r, FALSE, "ok") /\ r.cmd = "write"
        BY <1>5, <2>3 DEF HandlesWrite, Accept
      <3>2. f \in Seq(Units)
        <4>1. mcu.flash \in Seq(Units) /\ r.arg.units \in Seq(Units)
          BY <1>m, <1>k DEF Sessions, Requests, Args
        <4> QED
          BY <4>1
      <3> HIDE DEF f
      <3>3. s \in Sessions /\ s.state = "receiving" /\ s.update = mcu.update
        BY <1>m, <3>2 DEF Sessions
      <3> HIDE DEF s
      <3> QED
        BY <1>1, <2>3, <3>1, <3>3 DEF Codes
    <2> QED
      BY <1>5, <2>1, <2>2, <2>3, Zenon DEF HandlesWrite
  <1>6. CASE HandlesVerify(r)
    <2>1. CASE Refuse(r, "not started")
      BY <1>2, <2>1 DEF Refuse, Codes
    <2>2. CASE mcu.state = "receiving" /\ Break(r, "verify")
      BY <1>3, <2>2 DEF Codes
    <2>3. CASE mcu.state = "receiving" /\ Accept(r, [mcu EXCEPT !.state = "verified"])
      <3> DEFINE s == [mcu EXCEPT !.state = "verified"]
      <3>1. mcu' = s /\ Reply(r, FALSE, "ok") /\ r.cmd = "verify"
        BY <1>6, <2>3 DEF HandlesVerify, Accept
      <3>2. s \in Sessions /\ s.state = "verified" /\ s.update = mcu.update
        BY <1>m DEF Sessions
      <3> HIDE DEF s
      <3> QED
        BY <1>1, <2>3, <3>1, <3>2 DEF Codes
    <2> QED
      BY <1>6, <2>1, <2>2, <2>3, Zenon DEF HandlesVerify
  <1>7. CASE HandlesApply(r)
    <2>1. CASE Refuse(r, "not started")
      BY <1>2, <2>1 DEF Refuse, Codes
    <2>2. CASE mcu.state = "verified" /\ Accept(r, [mcu EXCEPT !.state = "applying"])
      <3> DEFINE s == [mcu EXCEPT !.state = "applying"]
      <3>1. mcu' = s /\ Reply(r, FALSE, "ok") /\ r.cmd = "apply"
        BY <1>7, <2>2 DEF HandlesApply, Accept
      <3>2. s \in Sessions /\ s.state = "applying" /\ s.update = mcu.update
        BY <1>m DEF Sessions
      <3> HIDE DEF s
      <3> QED
        BY <1>1, <2>2, <3>1, <3>2 DEF Codes
    <2> QED
      BY <1>7, <2>1, <2>2, Zenon DEF HandlesApply
  <1>8. CASE HandlesAbort(r)
    <2>1. mcu' = NoSession /\ Reply(r, FALSE, "ok") /\ r.cmd = "abort"
      BY <1>8 DEF HandlesAbort, Accept
    <2>2. NoSession \in Sessions /\ NoSession.state = "idle"
      BY DEF NoSession, Sessions
    <2> QED
      BY <1>1, <2>1, <2>2 DEF Codes
  <1>9. CASE McuFails
    <2>1. CASE mcu.state \in {"started", "receiving"} /\ Break(r, "flash")
      BY <1>3, <2>1 DEF Codes
    <2>2. CASE UNCHANGED mcu /\ Reply(r, TRUE, "invalid")
      BY <1>2, <2>2 DEF Codes
    <2> QED
      BY <1>9, <2>1, <2>2 DEF McuFails, r
  <1> QED
    BY <1>4, <1>5, <1>6, <1>7, <1>8, <1>9 DEF McuHandles, r

(* It repeats its last answer. *)
LEMMA ReplayConsistent ==
  ASSUME Parameters, SessionConsistent, McuReplays
  PROVE  SessionConsistent'
  <1> USE DEF SessionConsistent
  <1>v. /\ UNCHANGED <<pc, update, total, offset, req, told, mcu, cache, running>>
        /\ toMcu # <<>> /\ cache.request = Head(toMcu)
        /\ toMcu' = Tail(toMcu) /\ toHost' = Append(toHost, cache.answer)
    BY DEF McuReplays, hostVars, mcuVars, Listening
  <1>t. /\ toMcu' \in Seq(Requests) /\ Head(toMcu) \in Requests
        /\ \A i \in DOMAIN toMcu : 1 <= i
        /\ \A i \in DOMAIN toMcu' : i + 1 \in DOMAIN toMcu /\ toMcu'[i] = toMcu[i + 1]
    BY <1>v, Tails DEF Types, WireTypes
  <1>n. cache.request # NoRequest
    BY <1>v, <1>t DEF Requests, NoRequest, Commands
  <1>a. /\ cache.answer \in Answers
        /\ cache.answer.seq = cache.request.seq
        /\ cache.answer.cmd = cache.request.cmd
        /\ cache.request.seq = req.seq => cache.request = req
    BY <1>n DEF Numbered
  <1>p. /\ toHost' \in Seq(Answers)
        /\ \A i \in DOMAIN toHost' :
             toHost'[i] = cache.answer \/ (i \in DOMAIN toHost /\ toHost'[i] = toHost[i])
    BY <1>a, <1>v, Appends DEF Types, WireTypes
  <1>g. Granted' => Granted
    <2>1. ASSUME NEW i \in DOMAIN toHost', toHost'[i].seq = req.seq, toHost'[i].code = "ok"
          PROVE  Granted
      BY <1>a, <1>p, <2>1 DEF Granted
    <2> QED
      BY <1>v, <2>1 DEF Granted
  <1>1. Types'
    BY <1>v, <1>t, <1>p DEF Types, HostTypes, WireTypes, McuTypes
  <1>2. Calls'
    BY <1>v DEF Calls, Of
  <1>3. Numbered'
    <2>1. \A i \in DOMAIN toMcu' : toMcu'[i].seq = req.seq => toMcu'[i] = req
      BY <1>t DEF Numbered
    <2>2. \A i \in DOMAIN toHost' : toHost'[i].seq = req.seq => toHost'[i].cmd = req.cmd
      BY <1>p, <1>a DEF Numbered
    <2> QED
      BY <1>v, <2>1, <2>2 DEF Numbered
  <1>4. InTurn'
    <2> SUFFICES ASSUME NEW i \in DOMAIN toMcu', NEW j \in DOMAIN toMcu', i <= j, toMcu'[i] = req
                 PROVE  toMcu'[j] = req
      BY <1>v, Zenon DEF InTurn
    <2>1. i + 1 <= j + 1
      BY <1>t
    <2> QED
      BY <1>t, <2>1 DEF InTurn
  <1>5. Offered'
    BY <1>v, <1>t DEF Offered, Of
  <1>6. SessionIsMine'
    <2> SUFFICES ASSUME pc \in {"write", "verify", "apply"} \/ (pc = "start" /\ Granted)
                 PROVE  /\ mcu.state # "idle" => mcu.update = update
                        /\ \A i \in DOMAIN toMcu' : toMcu'[i].cmd = "start" => Of(toMcu'[i]) = update
      BY <1>v, <1>g, Zenon DEF SessionIsMine, Of
    <2>1. /\ mcu.state # "idle" => mcu.update = update
          /\ \A i \in DOMAIN toMcu : toMcu[i].cmd = "start" => Of(toMcu[i]) = update
      BY DEF SessionIsMine
    <2> QED
      BY <1>t, <2>1
  <1>7. AppliedIsMine'
    BY <1>v, <1>g DEF AppliedIsMine, Runs
  <1> QED
    BY <1>1, <1>2, <1>3, <1>4, <1>5, <1>6, <1>7

-----------------------------------------------------------------------------
(* Every step keeps the invariant. *)
LEMMA NextConsistent ==
  ASSUME Parameters, SessionConsistent, [Next]_vars, [NumbersAreFresh]_vars
  PROVE  SessionConsistent'
  <1>1. CASE UNCHANGED vars
    <2>0. UNCHANGED <<pc, update, total, offset, req, told, toMcu, toHost, mcu, cache, running>>
      BY <1>1 DEF vars, hostVars, mcuVars
    <2>1. Types' /\ Calls' /\ Numbered' /\ InTurn'
      BY <2>0 DEF SessionConsistent, Types, HostTypes, WireTypes, McuTypes, Calls, Numbered, InTurn, Of
    <2>2. Offered' /\ SessionIsMine' /\ AppliedIsMine'
      BY <2>0 DEF SessionConsistent, Offered, SessionIsMine, AppliedIsMine, Granted, Runs, Of
    <2> QED
      BY <2>1, <2>2 DEF SessionConsistent
  <1>2. CASE NumbersAreFresh /\ Next
    <2>1. CASE StepRefused \/ StepTimedOut
      <3>1. \/ SendCmd("abort", NoArg) /\ told' = told
            \/ pc' = "idle" /\ told' = "failed" /\ UNCHANGED <<req, toMcu>>
        BY <2>1, Zenon DEF StepRefused, StepTimedOut, Failed
      <3> QED
        BY <1>2, <2>1, <3>1, SendConsistent, QuietConsistent
    <2> QED
      BY <1>2, <2>1, BeginConsistent, QuietConsistent, SendConsistent, RetryConsistent,
         HandlesConsistent, ReplayConsistent
      DEF Next, HostNext, McuNext
  <1> QED
    BY <1>1, <1>2

(* The steps of OtaSession, with numbers that are not drawn again too soon. *)
Steps == Init /\ [][Next]_vars /\ [][NumbersAreFresh]_vars

(* The invariant holds. *)
LEMMA Consistent == ASSUME Parameters PROVE Steps => []SessionConsistent
  <1>1. Init => SessionConsistent
    BY InitConsistent
  <1>2. SessionConsistent /\ [Next]_vars /\ [NumbersAreFresh]_vars => SessionConsistent'
    BY NextConsistent
  <1> QED
    BY <1>1, <1>2, PTL DEF Steps

-----------------------------------------------------------------------------
(* The refinement. *)
(* Before the first call nothing was offered and the old image runs. *)
LEMMA InitRefines == ASSUME Init PROVE Caller!Init
  BY DEF Init, Caller!Init, NoSession

(* Each step is one of AtomicUpdate or changes nothing it speaks of. *)
LEMMA StepRefines ==
  ASSUME Parameters, SessionConsistent, [Next]_vars
  PROVE  [Caller!Next]_Caller!vars
  <1> USE DEF SessionConsistent
  <1>0. ASSUME Runs' = Runs, UNCHANGED <<update, told>>
        PROVE  UNCHANGED Caller!vars
    BY <1>0 DEF Caller!vars, Runs
  <1>f. ASSUME told = "pending", told' = "failed", Runs' = Runs, UNCHANGED update
        PROVE  Caller!Next
    BY <1>f DEF Caller!Next, Caller!Fail, Runs
  <1>r. ASSUME UNCHANGED <<mcu, running>> PROVE Runs' = Runs
    BY <1>r DEF Runs
  <1>1. CASE UNCHANGED vars
    BY <1>0, <1>1, <1>r DEF vars, hostVars, mcuVars
  <1>2. CASE BeginUpdate
    <2>1. /\ update' = update + 1 /\ update + 1 \in 1 .. MaxUpdates
          /\ told # "pending" /\ told' = "pending" /\ UNCHANGED <<mcu, running>>
      BY <1>2 DEF BeginUpdate, Types, HostTypes, Parameters, Calls, mcuVars
    <2>2. 1 .. update' = (1 .. update) \union {update + 1} /\ update + 1 \notin 1 .. update
      BY <2>1 DEF Types, HostTypes
    <2>3. Caller!Offer(update + 1)
      BY <2>1, <2>2 DEF Caller!Offer
    <2> QED
      BY <2>1, <2>3 DEF Caller!Next
  <1>3. CASE RefuseSize \/ AbortReturns \/ CallbackThrows
    <2>1. /\ told = "pending" /\ told' = "failed" /\ UNCHANGED <<mcu, running, update>>
      BY <1>3 DEF RefuseSize, AbortReturns, CallbackThrows, Calls, mcuVars
    <2> QED
      BY <1>f, <1>r, <2>1
  <1>4. CASE StepRefused \/ StepTimedOut
    <2>1. /\ UNCHANGED <<mcu, running, update>>
          /\ told' = told \/ (pc # "idle" /\ told' = "failed")
      BY <1>4 DEF StepRefused, StepTimedOut, Failed, Answered, TimedOut, AfterFailure, mcuVars,
                  Types, HostTypes, Requests, NoRequest, Commands
    <2> QED
      BY <1>0, <1>f, <1>r, <2>1 DEF Calls
  <1>5. CASE Finish
    <2>1. /\ told = "pending" /\ told' = "ok" /\ UNCHANGED <<mcu, running, update>> /\ pc = "apply"
      BY <1>5 DEF Finish, Calls, mcuVars
    <2>2. Granted
      <3>1. toHost # <<>> => Head(toHost) = toHost[1] /\ 1 \in DOMAIN toHost
        BY Tails DEF Types, WireTypes
      <3> QED
        BY <1>5, <3>1 DEF Finish, Succeeded, Answered, AckErrorCode, Granted
    <2>3. Runs = update
      BY <2>1, <2>2 DEF AppliedIsMine
    <2>4. Caller!Succeed
      BY <2>1, <2>3 DEF Caller!Succeed, Runs
    <2> QED
      BY <2>4 DEF Caller!Next
  <1>6. CASE Start \/ WriteNext \/ Apply \/ Retry \/ StrayAnswer \/ LoseRequest \/ LoseAnswer \/ McuReplays
    <2>1. UNCHANGED <<mcu, running, update, told>>
      BY <1>6 DEF Start, WriteNext, Apply, Retry, StrayAnswer, LoseRequest, LoseAnswer, McuReplays,
                  hostVars, mcuVars
    <2> QED
      BY <1>0, <1>r, <2>1
  <1>7. CASE McuReboots \/ McuLosesPower
    <2>1. Runs' = Runs /\ UNCHANGED <<update, told>>
      BY <1>7 DEF McuReboots, McuLosesPower, Runs, NoSession, hostVars
    <2> QED
      BY <1>0, <2>1
  <1>8. CASE McuHandles \/ McuFails
    <2>1. UNCHANGED <<update, told, running>> /\ mcu.state # "applying" /\ toMcu # <<>>
      BY <1>8 DEF McuHandles, McuFails, Listening, hostVars
    <2>2. CASE mcu'.state = "applying"
      <3>1. mcu'.update \in 1 .. update
        <4>1. mcu \in Sessions
          BY DEF Types, McuTypes
        <4>2. HandlesApply(Head(toMcu)) /\ mcu.state = "verified"
              /\ mcu' = [mcu EXCEPT !.state = "applying"]
          <5>1. ~McuFails
            <6>1. Broken.state = "error"
              BY <4>1 DEF Broken, Sessions
            <6> QED
              BY <2>1, <2>2, <6>1 DEF McuFails, Break
          <5>2. ~HandlesStart(Head(toMcu))
            <6> DEFINE r == Head(toMcu)
            <6> DEFINE started == [state |-> "started", update |-> r.arg.units[1][1],
                                   total |-> r.arg.at, flash |-> <<>>]
            <6>1. started.state = "started"
              OBVIOUS
            <6>2. HandlesStart(r) => mcu' = started \/ mcu' = mcu
              BY Zenon DEF HandlesStart, Accept, Refuse
            <6> HIDE DEF started
            <6> QED
              BY <2>1, <2>2, <6>1, <6>2
          <5>3. ~HandlesWrite(Head(toMcu))
            <6>1. Broken.state = "error"
              BY <4>1 DEF Broken, Sessions
            <6> DEFINE f == mcu.flash \o Head(toMcu).arg.units
            <6>2. [mcu EXCEPT !.state = "receiving", !.flash = f].state = "receiving"
              BY <4>1 DEF Sessions
            <6> QED
              BY <2>1, <2>2, <6>1, <6>2 DEF HandlesWrite, Accept, Refuse, Break
          <5>4. ~HandlesVerify(Head(toMcu))
            <6>1. Broken.state = "error" /\ [mcu EXCEPT !.state = "verified"].state = "verified"
              BY <4>1 DEF Broken, Sessions
            <6> QED
              BY <2>1, <2>2, <6>1 DEF HandlesVerify, Accept, Refuse, Break
          <5>5. ~HandlesAbort(Head(toMcu))
            <6>1. NoSession.state = "idle"
              BY DEF NoSession
            <6> QED
              BY <2>2, <6>1 DEF HandlesAbort, Accept
          <5>6. HandlesApply(Head(toMcu))
            BY <1>8, <5>1, <5>2, <5>3, <5>4, <5>5 DEF McuHandles
          <5> QED
            BY <2>1, <2>2, <5>6 DEF HandlesApply, Accept, Refuse
        <4>3. mcu'.update = mcu.update
          BY <4>1, <4>2 DEF Sessions
        <4> QED
          BY <4>2, <4>3 DEF Offered
      <3>2. mcu'.update \in 1 .. MaxUpdates
        BY <3>1 DEF Types, HostTypes, Parameters
      <3>3. Caller!Activate(mcu'.update)
        BY <2>1, <2>2, <3>1 DEF Caller!Activate
      <3> QED
        BY <3>2, <3>3 DEF Caller!Next
    <2>3. CASE mcu'.state # "applying"
      BY <1>0, <2>1, <2>3 DEF Runs
    <2> QED
      BY <2>2, <2>3
  <1> QED
    BY <1>1, <1>2, <1>3, <1>4, <1>5, <1>6, <1>7, <1>8 DEF Next, HostNext, McuNext

(* OtaSession implements AtomicUpdate: update_from_bytes() returns only when the
   MCU runs, or swaps its banks to, the image of this very call, whatever answers
   of earlier calls come late (ota.cpp:162-218). *)
THEOREM McuImplements == ASSUME Parameters PROVE Steps => Implements
  <1>1. Init => Caller!Init
    BY InitRefines
  <1>2. SessionConsistent /\ [Next]_vars => [Caller!Next]_Caller!vars
    BY StepRefines
  <1> QED
    BY <1>1, <1>2, Consistent, PTL DEF Steps, Implements, Caller!Spec
-----------------------------------------------------------------------------
(* How old what is under way may be. *)

(* The faults that happen are fewer than the numbers by two (the code draws modulo 256). *)
FewFaults == SeqRange \in Nat /\ MaxFaults \in Nat /\ SeqRange > MaxFaults + 1

(* Sequence numbers.  How many were drawn since s was, if fewer than SeqRange. *)
AgeAt(now, s) == IF s <= now THEN now - s ELSE now - s + SeqRange
Age(s) == AgeAt(req.seq, s)

Cached == cache.request # NoRequest

(* Nothing on the wire, nothing that is remembered, is older than b. *)
OnHost(b) == \A i \in DOMAIN toHost : Age(toHost[i].seq) <= b
OnMcu(b) == \A i \in DOMAIN toMcu : Age(toMcu[i].seq) <= b
InCache(b) == Cached => Age(cache.request.seq) <= b

Drawn ==
  /\ faults \in 0 .. MaxFaults
  /\ req.seq \in 0 .. SeqRange - 1
  /\ \A i \in DOMAIN toMcu : toMcu[i].seq \in 0 .. SeqRange - 1
  /\ \A i \in DOMAIN toHost : toHost[i].seq \in 0 .. SeqRange - 1
  /\ Cached => cache.request.seq \in 0 .. SeqRange - 1

(* Answers are older than what the MCU remembers, and that is older than the
   requests it has not taken; either wire has the oldest in front. *)
OldestFirst ==
  /\ \A i, j \in DOMAIN toHost : i <= j => Age(toHost[j].seq) <= Age(toHost[i].seq)
  /\ \A i, j \in DOMAIN toMcu : i <= j => Age(toMcu[j].seq) <= Age(toMcu[i].seq)
  /\ \A i \in DOMAIN toHost, j \in DOMAIN toMcu : Age(toMcu[j].seq) <= Age(toHost[i].seq)
  /\ Cached =>
       /\ \A i \in DOMAIN toHost : Age(cache.request.seq) <= Age(toHost[i].seq)
       /\ \A j \in DOMAIN toMcu : Age(toMcu[j].seq) <= Age(cache.request.seq)

(* The request under way may still be answered; once it cannot be, a fault was
   spent on it. *)
Awaited ==
  /\ pc \in Commands
  /\ \/ \E i \in DOMAIN toHost : toHost[i].seq = req.seq
     \/ /\ \E i \in DOMAIN toMcu : toMcu[i] = req
        /\ ~(mcu.state = "applying" /\ cache.request = req)
Spent == IF Awaited THEN faults ELSE faults - 1

(* Only a request without an answer leaves anything behind. *)
Ages == OnHost(Spent + 1) /\ OnMcu(Spent + 1) /\ InCache(Spent + 1)
WireAges == OnHost(Spent) /\ (mcu.state # "applying" => OnMcu(Spent))

(* The MCU was restarted and has not had a block since. *)
Anew ==
  /\ pc \in {"idle", "size", "start", "abort"}
  /\ \A i \in DOMAIN toMcu : toMcu[i].cmd \in {"start", "abort"}
  /\ mcu.state \in {"idle", "started"}

Faultless ==
  faults = 0 =>
    /\ OnHost(0) /\ OnMcu(0)
    /\ toMcu = <<>> \/ toHost = <<>>
    /\ Len(toMcu) <= 1 /\ Len(toHost) <= 1
    /\ pc \notin Commands => toMcu = <<>> /\ toHost = <<>>

(* A bank swap that has begun, or that is on its way. *)
Applying ==
  /\ \A i \in DOMAIN toMcu : toMcu[i].cmd = "apply" =>
       pc \notin {"write", "verify"} /\ (pc = "apply" => toMcu[i] = req)
  /\ mcu.state = "applying" =>
       /\ Cached /\ cache.request.cmd = "apply"
       /\ pc \notin {"write", "verify"}
       /\ pc = "apply" => cache.request = req

Aging == Drawn /\ OldestFirst /\ Ages /\ (WireAges \/ Anew) /\ Faultless /\ Applying

(* A number grows older by one with each that is drawn, until it is drawn again. *)
LEMMA OneOlder ==
  ASSUME Parameters, FewFaults, NEW now \in 0 .. SeqRange - 1, NEW s \in 0 .. SeqRange - 1
  PROVE  /\ AgeAt(now, s) \in 0 .. SeqRange - 1
         /\ AgeAt(now, s) = 0 <=> s = now
         /\ (now + 1) % SeqRange \in 0 .. SeqRange - 1
         /\ AgeAt(now, s) < SeqRange - 1 =>
              /\ AgeAt((now + 1) % SeqRange, s) = AgeAt(now, s) + 1
              /\ s # (now + 1) % SeqRange
  <1>1. SeqRange \in Nat /\ SeqRange > 1
    BY DEF FewFaults
  <1>2. AgeAt(now, s) \in 0 .. SeqRange - 1 /\ (AgeAt(now, s) = 0 <=> s = now)
    BY <1>1 DEF AgeAt
  <1>3. (now + 1) % SeqRange = IF now + 1 = SeqRange THEN 0 ELSE now + 1
    <2>1. CASE now + 1 = SeqRange
      BY <1>1, <2>1
    <2>2. CASE now + 1 < SeqRange
      BY <1>1, <2>2
    <2> QED
      BY <1>1, <2>1, <2>2
  <1> DEFINE next == (now + 1) % SeqRange
  <1>4. next \in 0 .. SeqRange - 1
    BY <1>1, <1>3
  <1>5. ASSUME AgeAt(now, s) < SeqRange - 1
        PROVE  AgeAt(next, s) = AgeAt(now, s) + 1 /\ s # next
    <2> HIDE DEF next
    <2>1. next = IF now + 1 = SeqRange THEN 0 ELSE now + 1
      BY <1>3 DEF next
    <2> QED
      BY <1>1, <1>5, <2>1 DEF AgeAt
  <1> QED
    BY <1>2, <1>4, <1>5

(* Every age is a number. *)
LEMMA AgesAre ==
  ASSUME Parameters, FewFaults, Drawn
  PROVE  /\ \A i \in DOMAIN toMcu : Age(toMcu[i].seq) \in Nat
         /\ \A i \in DOMAIN toHost : Age(toHost[i].seq) \in Nat
         /\ Cached => Age(cache.request.seq) \in Nat
         /\ Spent \in Int /\ faults \in Nat
         /\ \A a, b \in Int : a <= b =>
              /\ OnHost(a) => OnHost(b)
              /\ OnMcu(a) => OnMcu(b)
              /\ InCache(a) => InCache(b)
  <1>1. /\ \A i \in DOMAIN toMcu : Age(toMcu[i].seq) \in Nat
        /\ \A i \in DOMAIN toHost : Age(toHost[i].seq) \in Nat
        /\ Cached => Age(cache.request.seq) \in Nat
    BY DEF Age, AgeAt, Drawn, FewFaults
  <1>2. Spent \in Int /\ faults \in Nat
    BY DEF Drawn, Spent, FewFaults
  <1>3. \A a, b \in Int : a <= b => (OnHost(a) => OnHost(b)) /\ (OnMcu(a) => OnMcu(b))
    BY <1>1 DEF OnHost, OnMcu
  <1>4. \A a, b \in Int : a <= b => (InCache(a) => InCache(b))
    BY <1>1 DEF InCache
  <1> QED
    BY <1>1, <1>2, <1>3, <1>4

(* What is taken from the wires leaves the rest as old as it was. *)
LEMMA Taken ==
  ASSUME Parameters, FewFaults, Types, Drawn, OldestFirst, req' = req,
         faults' \in 0 .. MaxFaults,
         toHost' = toHost \/ (toHost # <<>> /\ toHost' = Tail(toHost)),
         toMcu' = toMcu \/ (toMcu # <<>> /\ toMcu' = Tail(toMcu)) \/ toMcu' = <<>>,
         cache' = cache \/ cache'.request = NoRequest
  PROVE  /\ Drawn' /\ OldestFirst'
         /\ \A b \in Int : (OnHost(b) => OnHost(b)') /\ (OnMcu(b) => OnMcu(b)')
                           /\ (InCache(b) => InCache(b)')
         /\ \A i \in DOMAIN toMcu' : \E k \in DOMAIN toMcu : toMcu'[i] = toMcu[k]
  <1>1. PICK e \in Nat : \A i \in DOMAIN toHost' :
                            i + e \in DOMAIN toHost /\ toHost'[i] = toHost[i + e]
    <2>1. Shortened(toHost, toHost')
      BY Shorter DEF Types, WireTypes
    <2> QED
      BY <2>1, Zenon DEF Shortened
  <1>2. PICK d \in Nat : \A i \in DOMAIN toMcu' :
                            i + d \in DOMAIN toMcu /\ toMcu'[i] = toMcu[i + d]
    <2>1. CASE toMcu' = <<>>
      BY <2>1
    <2>2. CASE toMcu' # <<>>
      <3>1. Shortened(toMcu, toMcu')
        BY <2>2, Shorter DEF Types, WireTypes
      <3> QED
        BY <3>1, Zenon DEF Shortened
    <2> QED
      BY <2>1, <2>2
  <1>3. DOMAIN toHost' \subseteq Nat /\ DOMAIN toMcu' \subseteq Nat
    <2>1. toHost' \in Seq(Answers) /\ toMcu' \in Seq(Requests)
      BY Shorter DEF Types, WireTypes
    <2> QED
      BY <2>1
  <1>4. Cached' => Cached /\ cache' = cache
    BY DEF Cached
  <1>5. Drawn'
    BY <1>1, <1>2, <1>4 DEF Drawn
  <1>6. OldestFirst'
    <2>1. \A i, j \in DOMAIN toHost' : i <= j => Age(toHost'[j].seq) <= Age(toHost'[i].seq)
      <3> TAKE i, j \in DOMAIN toHost'
      <3>1. i <= j => i + e <= j + e
        BY <1>3
      <3> QED
        BY <1>1, <3>1 DEF OldestFirst
    <2>2. \A i, j \in DOMAIN toMcu' : i <= j => Age(toMcu'[j].seq) <= Age(toMcu'[i].seq)
      <3> TAKE i, j \in DOMAIN toMcu'
      <3>1. i <= j => i + d <= j + d
        BY <1>3
      <3> QED
        BY <1>2, <3>1 DEF OldestFirst
    <2>3. \A i \in DOMAIN toHost', j \in DOMAIN toMcu' : Age(toMcu'[j].seq) <= Age(toHost'[i].seq)
      BY <1>1, <1>2 DEF OldestFirst
    <2>4. Cached' =>
            /\ \A i \in DOMAIN toHost' : Age(cache'.request.seq) <= Age(toHost'[i].seq)
            /\ \A j \in DOMAIN toMcu' : Age(toMcu'[j].seq) <= Age(cache'.request.seq)
      BY <1>1, <1>2, <1>4 DEF OldestFirst
    <2> QED
      BY <2>1, <2>2, <2>3, <2>4, Zenon DEF OldestFirst, Age
  <1>7. \A b \in Int : (OnHost(b) => OnHost(b)') /\ (OnMcu(b) => OnMcu(b)')
    <2> TAKE b \in Int
    <2>1. OnHost(b) => \A i \in DOMAIN toHost' : Age(toHost'[i].seq) <= b
      BY <1>1 DEF OnHost
    <2>2. OnMcu(b) => \A i \in DOMAIN toMcu' : Age(toMcu'[i].seq) <= b
      BY <1>2 DEF OnMcu
    <2> QED
      BY <2>1, <2>2, Zenon DEF OnHost, OnMcu, Age
  <1>8. \A b \in Int : InCache(b) => InCache(b)'
    BY <1>4, Zenon DEF InCache, Age
  <1>9. \A i \in DOMAIN toMcu' : \E k \in DOMAIN toMcu : toMcu'[i] = toMcu[k]
    BY <1>2
  <1> QED
    BY <1>5, <1>6, <1>7, <1>8, <1>9

(* A request that is sent, new or again, is behind all that is older. *)
LEMMA Added ==
  ASSUME Parameters, FewFaults, Types, Drawn, OldestFirst, req' \in Requests, req'.seq = req.seq,
         UNCHANGED <<toHost, cache>>, faults' \in 0 .. MaxFaults,
         toMcu' = Append(toMcu, req')
  PROVE  /\ Drawn' /\ OldestFirst'
         /\ \A b \in Int : (OnHost(b) => OnHost(b)') /\ (b >= 0 /\ OnMcu(b) => OnMcu(b)')
                           /\ (InCache(b) => InCache(b)')
         /\ \A i \in DOMAIN toMcu' : toMcu'[i] = req' \/ \E k \in DOMAIN toMcu : toMcu'[i] = toMcu[k]
         /\ \E i \in DOMAIN toMcu' : toMcu'[i] = req'
  <1>1. /\ \A i \in DOMAIN toMcu : i < Len(toMcu) + 1
        /\ toMcu'[Len(toMcu) + 1] = req'
        /\ \A i \in DOMAIN toMcu' : i = Len(toMcu) + 1 \/ (i \in DOMAIN toMcu /\ toMcu'[i] = toMcu[i])
    BY Appends DEF Types, WireTypes
  <1>2. Len(toMcu) + 1 \in DOMAIN toMcu' /\ Len(toMcu) \in Nat /\ DOMAIN toMcu \subseteq Nat
    BY DEF Types, WireTypes
  <1>3. /\ Age(req'.seq) = 0
        /\ \A i \in DOMAIN toMcu : Age(toMcu[i].seq) \in Nat
        /\ \A i \in DOMAIN toHost : Age(toHost[i].seq) \in Nat
        /\ Cached => Age(cache.request.seq) \in Nat
    BY AgesAre, OneOlder DEF Age, Drawn
  <1>4. Drawn'
    BY <1>1 DEF Drawn, Cached
  <1>5. OldestFirst'
    <2>1. \A i, j \in DOMAIN toMcu' : i <= j => Age(toMcu'[j].seq) <= Age(toMcu'[i].seq)
      <3> TAKE i, j \in DOMAIN toMcu'
      <3>1. CASE j = Len(toMcu) + 1
        BY <1>1, <1>3, <3>1
      <3>2. CASE j # Len(toMcu) + 1 /\ i <= j
        <4>1. j \in DOMAIN toMcu /\ toMcu'[j] = toMcu[j] /\ j < Len(toMcu) + 1
          BY <1>1, <3>2
        <4>2. i \in DOMAIN toMcu /\ toMcu'[i] = toMcu[i]
          BY <1>1, <1>2, <3>2, <4>1
        <4> QED
          BY <3>2, <4>1, <4>2 DEF OldestFirst
      <3> QED
        BY <3>1, <3>2
    <2>2. \A i \in DOMAIN toHost, j \in DOMAIN toMcu' : Age(toMcu'[j].seq) <= Age(toHost[i].seq)
      BY <1>1, <1>3 DEF OldestFirst
    <2>3. Cached => \A j \in DOMAIN toMcu' : Age(toMcu'[j].seq) <= Age(cache.request.seq)
      BY <1>1, <1>3 DEF OldestFirst
    <2> QED
      BY <2>1, <2>2, <2>3 DEF OldestFirst, Age, Cached
  <1>6. \A b \in Int : (OnHost(b) => OnHost(b)') /\ (InCache(b) => InCache(b)')
    BY DEF OnHost, InCache, Cached, Age
  <1>7. \A b \in Int : b >= 0 /\ OnMcu(b) => OnMcu(b)'
    <2> SUFFICES ASSUME NEW b \in Int, b >= 0, OnMcu(b) PROVE \A i \in DOMAIN toMcu' : Age(toMcu'[i].seq) <= b
      BY Zenon DEF OnMcu, Age
    <2> QED
      BY <1>1, <1>3 DEF OnMcu
  <1>8. \A i \in DOMAIN toMcu' : toMcu'[i] = req' \/ \E k \in DOMAIN toMcu : toMcu'[i] = toMcu[k]
    BY <1>1
  <1> QED
    BY <1>1, <1>2, <1>4, <1>5, <1>6, <1>7, <1>8

(* A request the MCU takes becomes an answer and what it remembers, of one age. *)
LEMMA Served ==
  ASSUME Parameters, FewFaults, Types, Drawn, OldestFirst, req' = req, faults' \in 0 .. MaxFaults,
         toMcu # <<>>, NEW a \in Answers, a.seq = Head(toMcu).seq,
         toMcu' = Tail(toMcu), toHost' = Append(toHost, a),
         cache'.request = Head(toMcu)
  PROVE  /\ Drawn' /\ OldestFirst'
         /\ \A b \in Int : /\ OnHost(b) /\ OnMcu(b) => OnHost(b)'
                           /\ OnMcu(b) => OnMcu(b)' /\ InCache(b)'
         /\ \A i \in DOMAIN toMcu : toMcu[i] = Head(toMcu) \/ \E k \in DOMAIN toMcu' : toMcu'[k] = toMcu[i]
         /\ \A i \in DOMAIN toMcu' : \E k \in DOMAIN toMcu : toMcu'[i] = toMcu[k]
         /\ \A i \in DOMAIN toHost : \E k \in DOMAIN toHost' : toHost'[k] = toHost[i]
         /\ \E i \in DOMAIN toHost' : toHost'[i].seq = Head(toMcu).seq
         /\ \E i \in DOMAIN toMcu : Head(toMcu) = toMcu[i]
  <1> DEFINE r == Head(toMcu)
  <1>1. /\ r = toMcu[1] /\ 1 \in DOMAIN toMcu
        /\ \A i \in DOMAIN toMcu : 1 <= i
        /\ \A i \in DOMAIN toMcu' : i + 1 \in DOMAIN toMcu /\ toMcu'[i] = toMcu[i + 1]
    BY Tails DEF Types, WireTypes
  <1>2. /\ \A i \in DOMAIN toHost : i < Len(toHost) + 1
        /\ toHost'[Len(toHost) + 1] = a
        /\ \A i \in DOMAIN toHost' :
             i = Len(toHost) + 1 \/ (i \in DOMAIN toHost /\ toHost'[i] = toHost[i])
    BY Appends DEF Types, WireTypes
  <1>3. /\ Len(toHost) + 1 \in DOMAIN toHost' /\ Len(toHost) \in Nat /\ DOMAIN toHost \subseteq Nat
        /\ \A i \in DOMAIN toHost : i \in DOMAIN toHost' /\ toHost'[i] = toHost[i]
    BY DEF Types, WireTypes
  <1>4. \A i \in DOMAIN toMcu : i = 1 \/ (i - 1 \in DOMAIN toMcu' /\ toMcu'[i - 1] = toMcu[i])
    BY DEF Types, WireTypes
  <1>5. DOMAIN toMcu \subseteq Nat /\ DOMAIN toMcu' \subseteq Nat
    BY DEF Types, WireTypes
  <1> HIDE DEF r
  <1>6. /\ \A i \in DOMAIN toMcu : Age(toMcu[i].seq) \in Nat
        /\ \A i \in DOMAIN toHost : Age(toHost[i].seq) \in Nat
        /\ r.seq \in 0 .. SeqRange - 1 /\ Age(r.seq) \in Nat
    BY <1>1, AgesAre DEF Drawn
  <1>7. a.seq = r.seq /\ cache'.request = r
    BY DEF r
  <1>8. Drawn'
    BY <1>1, <1>2, <1>6, <1>7 DEF Drawn
  <1>9. OldestFirst'
    <2>1. \A i, j \in DOMAIN toHost' : i <= j => Age(toHost'[j].seq) <= Age(toHost'[i].seq)
      <3> TAKE i, j \in DOMAIN toHost'
      <3>1. CASE j = Len(toHost) + 1
        BY <1>1, <1>2, <1>6, <1>7, <3>1 DEF OldestFirst
      <3>2. CASE j # Len(toHost) + 1 /\ i <= j
        <4>1. j \in DOMAIN toHost /\ toHost'[j] = toHost[j] /\ j < Len(toHost) + 1
          BY <1>2, <3>2
        <4>2. i \in DOMAIN toHost /\ toHost'[i] = toHost[i]
          BY <1>2, <1>3, <3>2, <4>1
        <4> QED
          BY <3>2, <4>1, <4>2 DEF OldestFirst
      <3> QED
        BY <3>1, <3>2
    <2>2. \A i, j \in DOMAIN toMcu' : i <= j => Age(toMcu'[j].seq) <= Age(toMcu'[i].seq)
      <3> TAKE i, j \in DOMAIN toMcu'
      <3>1. i <= j => i + 1 <= j + 1
        BY <1>5
      <3> QED
        BY <1>1, <3>1 DEF OldestFirst
    <2>3. \A j \in DOMAIN toMcu' : Age(toMcu'[j].seq) <= Age(r.seq)
      <3> TAKE j \in DOMAIN toMcu'
      <3>1. 1 <= j + 1 /\ j + 1 \in DOMAIN toMcu /\ toMcu'[j] = toMcu[j + 1]
        BY <1>1
      <3> QED
        BY <1>1, <3>1 DEF OldestFirst
    <2>4. \A i \in DOMAIN toHost' : Age(r.seq) <= Age(toHost'[i].seq)
      BY <1>1, <1>2, <1>6, <1>7 DEF OldestFirst
    <2>5. \A i \in DOMAIN toHost', j \in DOMAIN toMcu' : Age(toMcu'[j].seq) <= Age(toHost'[i].seq)
      <3> TAKE i \in DOMAIN toHost', j \in DOMAIN toMcu'
      <3>1. Age(toMcu'[j].seq) \in Nat /\ Age(toHost'[i].seq) \in Nat
        BY <1>1, <1>2, <1>6, <1>7
      <3> QED
        BY <1>6, <2>3, <2>4, <3>1
    <2> QED
      BY <1>7, <2>1, <2>2, <2>3, <2>4, <2>5, Zenon DEF OldestFirst, Age
  <1>10. ASSUME NEW b \in Int, OnMcu(b) PROVE OnMcu(b)' /\ InCache(b)' /\ (OnHost(b) => OnHost(b)')
    <2>1. \A j \in DOMAIN toMcu' : Age(toMcu'[j].seq) <= b
      BY <1>1, <1>10 DEF OnMcu
    <2>2. Age(r.seq) <= b
      BY <1>1, <1>10 DEF OnMcu
    <2>3. OnHost(b) => \A i \in DOMAIN toHost' : Age(toHost'[i].seq) <= b
      BY <1>2, <1>7, <2>2 DEF OnHost
    <2> QED
      BY <1>7, <2>1, <2>2, <2>3, Zenon DEF OnMcu, InCache, OnHost, Age
  <1>11. /\ \A i \in DOMAIN toMcu : toMcu[i] = r \/ \E k \in DOMAIN toMcu' : toMcu'[k] = toMcu[i]
         /\ \A i \in DOMAIN toMcu' : \E k \in DOMAIN toMcu : toMcu'[i] = toMcu[k]
    BY <1>1, <1>4
  <1>12. /\ \A i \in DOMAIN toHost : \E k \in DOMAIN toHost' : toHost'[k] = toHost[i]
         /\ \E i \in DOMAIN toHost' : toHost'[i].seq = r.seq
         /\ \E i \in DOMAIN toMcu : r = toMcu[i]
    BY <1>1, <1>2, <1>3, <1>7
  <1> QED
    BY <1>8, <1>9, <1>10, <1>11, <1>12, Zenon DEF r

(* A new number is nobody's while nothing is SeqRange - 1 numbers old, and makes
   everything older by one. *)
LEMMA NewNumber ==
  ASSUME Parameters, FewFaults, Types, Drawn, OldestFirst, faults' \in 0 .. MaxFaults,
         NEW cmd \in Commands, NEW arg \in Args, SendCmd(cmd, arg), cache' = cache,
         toHost' = toHost \/ (toHost # <<>> /\ toHost' = Tail(toHost)),
         NEW old \in -1 .. SeqRange - 2, OnHost(old), OnMcu(old), InCache(old)
  PROVE  /\ Drawn' /\ OldestFirst' /\ NumbersAreFresh
         /\ OnHost(old + 1)' /\ OnMcu(old + 1)' /\ InCache(old + 1)'
         /\ \A b \in Int : b <= SeqRange - 2 /\ OnHost(b) => OnHost(b + 1)'
         /\ \A b \in Int : b <= SeqRange - 2 /\ b >= -1 /\ OnMcu(b) => OnMcu(b + 1)'
         /\ \A i \in DOMAIN toMcu' : toMcu'[i] = req' \/ \E k \in DOMAIN toMcu : toMcu'[i] = toMcu[k]
         /\ \E i \in DOMAIN toMcu' : toMcu'[i] = req'
         /\ pc' = cmd /\ req' \in Requests /\ req'.cmd = cmd
  <1>1. /\ req' = [seq |-> (req.seq + 1) % SeqRange, cmd |-> cmd, arg |-> arg]
        /\ pc' = cmd /\ toMcu' = Append(toMcu, req')
    BY DEF SendCmd
  <1>2. /\ SeqRange \in Nat /\ SeqRange > 1
        /\ req'.seq = (req.seq + 1) % SeqRange /\ req'.seq \in 0 .. SeqRange - 1 /\ req'.cmd = cmd
        /\ req' \in Requests
    <2>1. SeqRange \in Nat /\ SeqRange > 1
      BY DEF FewFaults
    <2>2. (req.seq + 1) % SeqRange \in 0 .. SeqRange - 1
      BY OneOlder DEF Drawn
    <2>3. req'.seq = (req.seq + 1) % SeqRange /\ req'.cmd = cmd
      BY <1>1
    <2>4. (req.seq + 1) % SeqRange \in Nat
      BY <2>1, <2>2
    <2> HIDE DEF SendCmd
    <2>5. req' \in Requests
      BY <1>1, <2>4 DEF Requests
    <2> QED
      BY <2>1, <2>2, <2>3, <2>5
  <1>3. PICK e \in Nat : \A i \in DOMAIN toHost' :
                            i + e \in DOMAIN toHost /\ toHost'[i] = toHost[i + e]
    <2>1. Shortened(toHost, toHost')
      BY Shorter DEF Types, WireTypes
    <2> QED
      BY <2>1, Zenon DEF Shortened
  <1>4. /\ \A i \in DOMAIN toMcu : i < Len(toMcu) + 1
        /\ toMcu'[Len(toMcu) + 1] = req'
        /\ \A i \in DOMAIN toMcu' : i = Len(toMcu) + 1 \/ (i \in DOMAIN toMcu /\ toMcu'[i] = toMcu[i])
    BY <1>1, <1>2, Appends DEF Types, WireTypes
  <1>5. Len(toMcu) + 1 \in DOMAIN toMcu' /\ Len(toMcu) \in Nat /\ DOMAIN toMcu \subseteq Nat
        /\ DOMAIN toHost' \subseteq Nat
    <2>1. toMcu \in Seq(Requests) /\ toHost' \in Seq(Answers)
      BY Shorter DEF Types, WireTypes
    <2> QED
      BY <1>1, <2>1
  <1> DEFINE Now(s) == AgeAt(req'.seq, s)
             In(s) == s \in 0 .. SeqRange - 1 /\ Age(s) <= old
  <1>6. \A s : In(s) => Now(s) = Age(s) + 1 /\ s # req'.seq /\ Age(s) \in Nat
    <2> SUFFICES ASSUME NEW s \in 0 .. SeqRange - 1, Age(s) <= old
                 PROVE  Now(s) = Age(s) + 1 /\ s # req'.seq /\ Age(s) \in Nat
      OBVIOUS
    <2>1. AgeAt(req.seq, s) \in 0 .. SeqRange - 1 /\ AgeAt(req.seq, s) <= old
      BY OneOlder DEF Drawn, Age
    <2>2. AgeAt(req.seq, s) < SeqRange - 1
      BY <1>2, <2>1
    <2>3. /\ AgeAt((req.seq + 1) % SeqRange, s) = AgeAt(req.seq, s) + 1
          /\ s # (req.seq + 1) % SeqRange
      BY <2>2, OneOlder DEF Drawn
    <2>4. AgeAt(req.seq, s) \in Nat
      BY <1>2, <2>1
    <2> QED
      BY <1>2, <2>3, <2>4 DEF Age
  <1>7. Now(req'.seq) = 0
    BY <1>2, OneOlder
  <1>8. /\ \A i \in DOMAIN toMcu : In(toMcu[i].seq)
        /\ \A i \in DOMAIN toHost : In(toHost[i].seq)
        /\ Cached => In(cache.request.seq)
    BY DEF Drawn, OnHost, OnMcu, InCache
  <1>9. /\ \A i \in DOMAIN toMcu : Now(toMcu[i].seq) = Age(toMcu[i].seq) + 1 /\ toMcu[i].seq # req'.seq
                                   /\ Age(toMcu[i].seq) \in Nat
        /\ \A i \in DOMAIN toHost : Now(toHost[i].seq) = Age(toHost[i].seq) + 1 /\ toHost[i].seq # req'.seq
                                   /\ Age(toHost[i].seq) \in Nat
        /\ Cached => Now(cache.request.seq) = Age(cache.request.seq) + 1 /\ cache.request.seq # req'.seq
                                   /\ Age(cache.request.seq) \in Nat
    BY <1>6, <1>8
  <1> HIDE DEF Now, In
  <1>h. \A i \in DOMAIN toHost' :
          /\ i + e \in DOMAIN toHost
          /\ Now(toHost'[i].seq) = Age(toHost[i + e].seq) + 1 /\ Age(toHost[i + e].seq) \in Nat
    <2> TAKE i \in DOMAIN toHost'
    <2>1. i + e \in DOMAIN toHost /\ toHost'[i] = toHost[i + e]
      BY <1>3
    <2>2. Now(toHost[i + e].seq) = Age(toHost[i + e].seq) + 1 /\ Age(toHost[i + e].seq) \in Nat
      BY <1>9, <2>1, Zenon
    <2> QED
      BY <2>1, <2>2
  <1>10. NumbersAreFresh
    BY <1>9 DEF NumbersAreFresh, Cached
  <1>11. Drawn'
    <2>1. \A i \in DOMAIN toMcu' : toMcu'[i].seq \in 0 .. SeqRange - 1
      BY <1>2, <1>4 DEF Drawn
    <2>2. \A i \in DOMAIN toHost' : toHost'[i].seq \in 0 .. SeqRange - 1
      BY <1>3 DEF Drawn
    <2> QED
      BY <1>2, <2>1, <2>2 DEF Drawn, Cached
  <1>12. OldestFirst'
    <2>1. \A i, j \in DOMAIN toHost' : i <= j => Now(toHost'[j].seq) <= Now(toHost'[i].seq)
      <3> TAKE i, j \in DOMAIN toHost'
      <3>1. i <= j => i + e <= j + e
        BY <1>5
      <3> QED
        BY <1>h, <3>1 DEF OldestFirst
    <2>2. \A i, j \in DOMAIN toMcu' : i <= j => Now(toMcu'[j].seq) <= Now(toMcu'[i].seq)
      <3> TAKE i, j \in DOMAIN toMcu'
      <3>1. CASE j = Len(toMcu) + 1
        BY <1>4, <1>7, <1>9, <3>1
      <3>2. CASE j # Len(toMcu) + 1 /\ i <= j
        <4>1. j \in DOMAIN toMcu /\ toMcu'[j] = toMcu[j] /\ j < Len(toMcu) + 1
          BY <1>4, <3>2
        <4>2. i \in DOMAIN toMcu /\ toMcu'[i] = toMcu[i]
          BY <1>4, <1>5, <3>2, <4>1
        <4> QED
          BY <1>9, <3>2, <4>1, <4>2 DEF OldestFirst
      <3> QED
        BY <3>1, <3>2
    <2>3. \A i \in DOMAIN toHost', j \in DOMAIN toMcu' : Now(toMcu'[j].seq) <= Now(toHost'[i].seq)
      <3> TAKE i \in DOMAIN toHost', j \in DOMAIN toMcu'
      <3>1. CASE j = Len(toMcu) + 1
        BY <1>h, <1>4, <1>7, <3>1
      <3>2. CASE j # Len(toMcu) + 1
        <4>1. j \in DOMAIN toMcu /\ toMcu'[j] = toMcu[j]
          BY <1>4, <3>2
        <4>2. Now(toMcu'[j].seq) = Age(toMcu[j].seq) + 1 /\ Age(toMcu[j].seq) \in Nat
          BY <1>9, <4>1
        <4>3. Age(toMcu[j].seq) <= Age(toHost[i + e].seq)
          BY <1>h, <4>1 DEF OldestFirst
        <4> QED
          BY <1>h, <4>2, <4>3
      <3> QED
        BY <3>1, <3>2
    <2>4. Cached =>
            /\ \A i \in DOMAIN toHost' : Now(cache.request.seq) <= Now(toHost'[i].seq)
            /\ \A j \in DOMAIN toMcu' : Now(toMcu'[j].seq) <= Now(cache.request.seq)
      BY <1>h, <1>4, <1>7, <1>9 DEF OldestFirst
    <2> QED
      BY <2>1, <2>2, <2>3, <2>4, Zenon DEF OldestFirst, Age, Now, Cached
  <1>13. \A b \in Int : b <= SeqRange - 2 /\ OnHost(b) => OnHost(b + 1)'
    <2> SUFFICES ASSUME NEW b \in Int, OnHost(b)
                 PROVE  \A i \in DOMAIN toHost' : Now(toHost'[i].seq) <= b + 1
      BY Zenon DEF OnHost, Age, Now
    <2> QED
      BY <1>h DEF OnHost
  <1>14. \A b \in Int : b <= SeqRange - 2 /\ b >= -1 /\ OnMcu(b) => OnMcu(b + 1)'
    <2> SUFFICES ASSUME NEW b \in Int, b >= -1, OnMcu(b)
                 PROVE  \A i \in DOMAIN toMcu' : Now(toMcu'[i].seq) <= b + 1
      BY Zenon DEF OnMcu, Age, Now
    <2> QED
      BY <1>4, <1>7, <1>9 DEF OnMcu
  <1>15. InCache(old + 1)'
    <2>1. Cached => Now(cache.request.seq) <= old + 1
      BY <1>9 DEF InCache
    <2> QED
      BY <2>1, Zenon DEF InCache, Age, Now, Cached
  <1>16. old \in Int /\ old <= SeqRange - 2 /\ old >= -1
    BY <1>2
  <1>17. /\ \A i \in DOMAIN toMcu' : toMcu'[i] = req' \/ \E k \in DOMAIN toMcu : toMcu'[i] = toMcu[k]
         /\ \E i \in DOMAIN toMcu' : toMcu'[i] = req'
    BY <1>4, <1>5
  <1> QED
    BY <1>1, <1>2, <1>10, <1>11, <1>12, <1>13, <1>14, <1>15, <1>16, <1>17

(* When the request under way is answered, everything else that is still there
   is an answer to it or a repeat of it. *)
LEMMA AnswerIsLast ==
  ASSUME Parameters, FewFaults, Types, Calls, Numbered, Drawn, OldestFirst, Answered
  PROVE  /\ OnHost(0) /\ OnMcu(0) /\ InCache(0)
         /\ \A i \in DOMAIN toMcu : toMcu[i] = req
         /\ Cached => cache.request = req
         /\ pc \in Commands /\ req \in Requests /\ req.cmd = pc
         /\ toHost # <<>>
  <1>1. toHost[1].seq = req.seq /\ 1 \in DOMAIN toHost /\ \A i \in DOMAIN toHost : 1 <= i
    BY Tails DEF Answered, Types, WireTypes
  <1>2. Age(toHost[1].seq) = 0
    BY <1>1, OneOlder DEF Drawn, Age
  <1>3. /\ \A i \in DOMAIN toMcu : Age(toMcu[i].seq) \in Nat
        /\ \A i \in DOMAIN toHost : Age(toHost[i].seq) \in Nat
        /\ Cached => Age(cache.request.seq) \in Nat
    BY AgesAre
  <1>4. /\ \A i \in DOMAIN toMcu : Age(toMcu[i].seq) = 0
        /\ \A i \in DOMAIN toHost : Age(toHost[i].seq) = 0
        /\ Cached => Age(cache.request.seq) = 0
    BY <1>1, <1>2, <1>3 DEF OldestFirst
  <1>5. /\ \A i \in DOMAIN toMcu : toMcu[i].seq = req.seq
        /\ Cached => cache.request.seq = req.seq
    BY <1>4, OneOlder DEF Age, Drawn
  <1>6. OnHost(0) /\ OnMcu(0) /\ InCache(0)
    BY <1>4 DEF OnHost, OnMcu, InCache
  <1>7. (\A i \in DOMAIN toMcu : toMcu[i] = req) /\ (Cached => cache.request = req)
    BY <1>5 DEF Numbered, Cached
  <1>8. pc \in Commands /\ req \in Requests /\ req.cmd = pc /\ toHost # <<>>
    BY DEF Answered, Types, HostTypes, Calls, Requests, NoRequest, Commands
  <1> QED
    BY <1>6, <1>7, <1>8

(* A request that may be answered is still under way, and without a fault
   whatever is on the wire is the request under way or its answer. *)
LEMMA WaitsAreFaults ==
  ASSUME Parameters, FewFaults, Types, Calls, Numbered, Drawn, Faultless, TimedOut, faults \in Nat
  PROVE  /\ pc \in Commands /\ req \in Requests /\ req.cmd = pc
         /\ \/ faults' = faults + 1 /\ faults' \in 0 .. MaxFaults
            \/ faults' = faults /\ ~Awaited /\ (faults = 0 => toMcu = <<>> /\ toHost = <<>>)
  <1>1. pc \in Commands /\ req \in Requests /\ req.cmd = pc
    BY DEF TimedOut, Types, HostTypes, Requests, NoRequest, Commands
  <1>2. CASE InFlight
    <2>1. Fault
      BY <1>2 DEF TimedOut
    <2> QED
      BY <1>1, <2>1 DEF Fault, FewFaults
  <1>3. CASE ~InFlight
    <2>1. faults' = faults
      BY <1>3 DEF TimedOut
    <2>2. ~Awaited
      BY <1>3 DEF Awaited, InFlight, Numbered
    <2>3. ASSUME faults = 0 PROVE toMcu = <<>> /\ toHost = <<>>
      <3>1. OnHost(0) /\ OnMcu(0)
        BY <2>3 DEF Faultless
      <3>2. /\ \A i \in DOMAIN toMcu : Age(toMcu[i].seq) = 0
            /\ \A i \in DOMAIN toHost : Age(toHost[i].seq) = 0
        BY <3>1, AgesAre DEF OnHost, OnMcu
      <3>3. /\ \A i \in DOMAIN toMcu : toMcu[i].seq = req.seq
            /\ \A i \in DOMAIN toHost : toHost[i].seq = req.seq
        BY <3>2, OneOlder DEF Age, Drawn
      <3>4. DOMAIN toMcu = {} /\ DOMAIN toHost = {}
        BY <1>3, <3>3 DEF InFlight, Numbered
      <3> QED
        BY <3>4 DEF Types, WireTypes
    <2> QED
      BY <1>1, <2>1, <2>2, <2>3
  <1> QED
    BY <1>2, <1>3

(* No age is needed of what has not been drawn. *)
LEMMA InitAging == ASSUME Parameters, FewFaults, Init PROVE Aging
  <1> USE DEF Init
  <1>1. toMcu = <<>> /\ toHost = <<>> /\ ~Cached /\ req.seq = 0 /\ faults = 0
    BY DEF Cached, NoRequest
  <1>2. DOMAIN toMcu = {} /\ DOMAIN toHost = {} /\ Len(toMcu) = 0 /\ Len(toHost) = 0
    BY <1>1
  <1>3. mcu.state = "idle" /\ pc = "idle"
    BY DEF NoSession
  <1> HIDE DEF Init
  <1>4. Drawn /\ OldestFirst
    BY <1>1, <1>2 DEF Drawn, OldestFirst, FewFaults
  <1>5. \A b : OnHost(b) /\ OnMcu(b) /\ InCache(b)
    BY <1>1, <1>2 DEF OnHost, OnMcu, InCache
  <1>6. Faultless
    BY <1>1, <1>2, <1>5 DEF Faultless
  <1>7. Applying
    BY <1>2, <1>3 DEF Applying
  <1> QED
    BY <1>4, <1>5, <1>6, <1>7 DEF Aging, Ages, WireAges

(* A step that leaves a request as much under way as it was, or spends a fault. *)
LEMMA MoreSpent ==
  ASSUME Parameters, FewFaults, Drawn, Drawn', faults' >= faults,
         faults' = faults => (Awaited => Awaited')
  PROVE  Spent \in Int /\ Spent' \in Int /\ Spent <= Spent' /\ Spent' >= faults' - 1
  <1>1. faults \in Nat /\ faults' \in Nat
    BY DEF Drawn, FewFaults
  <1>2. CASE faults' = faults
    <2>1. Spent = (IF Awaited THEN faults ELSE faults - 1)
          /\ Spent' = (IF Awaited' THEN faults' ELSE faults' - 1)
      BY DEF Spent
    <2> HIDE DEF Spent, Awaited
    <2> QED
      BY <1>1, <1>2, <2>1
  <1>3. CASE faults' > faults
    <2>1. Spent \in {faults, faults - 1} /\ Spent' \in {faults', faults' - 1}
      BY DEF Spent
    <2>2. \A a \in {faults, faults - 1}, b \in {faults', faults' - 1} :
            a \in Int /\ b \in Int /\ a <= b /\ b >= faults' - 1
      <3>1. \A m, n \in Nat : n > m =>
              \A a \in {m, m - 1}, b \in {n, n - 1} : a \in Int /\ b \in Int /\ a <= b /\ b >= n - 1
        OBVIOUS
      <3> QED
        BY <1>1, <1>3, <3>1, Zenon
    <2> QED
      BY <2>1, <2>2, Zenon
  <1> QED
    BY <1>1, <1>2, <1>3

(* A command is sent: what is on the wires is at most as many numbers old as
   there were faults. *)
LEMMA SendAges ==
  ASSUME Parameters, FewFaults, SessionConsistent, Aging,
         NEW cmd \in Commands, NEW arg \in Args, SendCmd(cmd, arg), UNCHANGED <<mcu, cache>>,
         toHost' = toHost \/ (toHost # <<>> /\ toHost' = Tail(toHost)),
         NEW f \in 0 .. MaxFaults, faults' = f, f >= faults,
         OnHost(f), OnMcu(f), InCache(f),
         f = 0 => toMcu = <<>> /\ toHost' = <<>>,
         f > 0 => \/ OnHost(f - 1) /\ (mcu.state # "applying" => OnMcu(f - 1))
                  \/ Anew /\ cmd \in {"start", "abort"},
         cmd \in {"write", "verify", "apply"} =>
           mcu.state # "applying" /\ \A i \in DOMAIN toMcu : toMcu[i].cmd # "apply"
  PROVE  Aging' /\ NumbersAreFresh
  <1>1. f \in -1 .. SeqRange - 2 /\ f \in Nat /\ f <= SeqRange - 2
    BY DEF FewFaults
  <1>2. Types /\ Drawn /\ OldestFirst
    BY DEF SessionConsistent, Aging
  <1>3. /\ Drawn' /\ OldestFirst' /\ NumbersAreFresh
        /\ OnHost(f + 1)' /\ OnMcu(f + 1)' /\ InCache(f + 1)'
        /\ \A b \in Int : b <= SeqRange - 2 /\ OnHost(b) => OnHost(b + 1)'
        /\ \A b \in Int : b <= SeqRange - 2 /\ b >= -1 /\ OnMcu(b) => OnMcu(b + 1)'
        /\ \A i \in DOMAIN toMcu' : toMcu'[i] = req' \/ \E k \in DOMAIN toMcu : toMcu'[i] = toMcu[k]
        /\ \E i \in DOMAIN toMcu' : toMcu'[i] = req'
        /\ pc' = cmd /\ req' \in Requests /\ req'.cmd = cmd
    BY <1>1, <1>2, NewNumber
  <1>4. Awaited'
    <2>1. cache'.request # req'
      <3>1. req' # req
        <4>1. req'.seq = (req.seq + 1) % SeqRange
          BY DEF SendCmd
        <4>2. AgeAt(req.seq, req.seq) = 0
          BY <1>2, OneOlder DEF Drawn
        <4>3. SeqRange - 1 > 0
          BY <1>1 DEF FewFaults
        <4>4. req.seq # (req.seq + 1) % SeqRange
          BY <1>2, <4>2, <4>3, OneOlder DEF Drawn
        <4> QED
          BY <4>1, <4>4
      <3>2. cache.request # NoRequest => cache.request.seq # req'.seq
        BY <1>3, <3>1, Zenon DEF NumbersAreFresh
      <3>3. req' # NoRequest
        BY <1>3 DEF Requests, NoRequest, Commands
      <3> QED
        BY <3>2, <3>3
    <2> QED
      BY <1>3, <2>1 DEF Awaited
  <1>5. Spent' = f
    BY <1>4 DEF Spent
  <1>6. Ages'
    <2>1. Ages' <=> OnHost(f + 1)' /\ OnMcu(f + 1)' /\ InCache(f + 1)'
      BY <1>5 DEF Ages, OnHost, OnMcu, InCache
    <2> QED
      BY <1>3, <2>1
  <1>7. WireAges' \/ Anew'
    <2>1. WireAges' <=> OnHost(f)' /\ (mcu.state # "applying" => OnMcu(f)')
      BY <1>5 DEF WireAges, OnHost, OnMcu
    <2>2. CASE f = 0
      <3>1. OnHost(0)'
        BY <2>2 DEF OnHost
      <3>2. OnMcu(0)'
        <4>1. PICK b \in Int : b + 1 = 0
          OBVIOUS
        <4>2. OnMcu(b)
          BY <2>2 DEF OnMcu
        <4>3. b >= -1 /\ b <= SeqRange - 2
          BY <1>1, <4>1 DEF FewFaults
        <4>4. OnMcu(b + 1)'
          BY <1>3, <4>2, <4>3
        <4> QED
          BY <4>1, <4>4
      <3> QED
        BY <2>1, <2>2, <3>1, <3>2
    <2>3. CASE f > 0 /\ OnHost(f - 1) /\ (mcu.state # "applying" => OnMcu(f - 1))
      <3>1. f - 1 \in Int /\ f - 1 <= SeqRange - 2 /\ f - 1 >= -1 /\ f - 1 + 1 = f
        BY <1>1, <2>3 DEF FewFaults
      <3>2. OnHost(f - 1 + 1)' /\ (mcu.state # "applying" => OnMcu(f - 1 + 1)')
        BY <1>3, <2>3, <3>1
      <3> QED
        BY <2>1, <3>1, <3>2
    <2>4. CASE Anew /\ cmd \in {"start", "abort"}
      BY <1>3, <2>4 DEF Anew
    <2> QED
      BY <1>1, <2>2, <2>3, <2>4
  <1>8. Faultless'
    <2> SUFFICES ASSUME f = 0
                 PROVE  /\ OnHost(0)' /\ OnMcu(0)' /\ toHost' = <<>> /\ Len(toMcu') <= 1 /\ Len(toHost') <= 1
                        /\ pc' \in Commands
      BY DEF Faultless, OnHost, OnMcu
    <2>1. toMcu = <<>> /\ toHost' = <<>> /\ toMcu' = Append(toMcu, req')
      BY DEF SendCmd
    <2>2. OnHost(0)'
      BY <2>1 DEF OnHost
    <2>3. OnMcu(0)'
      <3>1. PICK b \in Int : b + 1 = 0
        OBVIOUS
      <3>2. OnMcu(b)
        BY <2>1 DEF OnMcu
      <3>3. b >= -1 /\ b <= SeqRange - 2
        BY <1>1, <3>1 DEF FewFaults
      <3>4. OnMcu(b + 1)'
        BY <1>3, <3>2, <3>3
      <3> QED
        BY <3>1, <3>4
    <2>5. Len(toMcu') <= 1 /\ Len(toHost') <= 1
      BY <2>1
    <2> QED
      BY <1>3, <2>1, <2>2, <2>3, <2>5
  <1>9. Applying'
    <2>1. \A i \in DOMAIN toMcu' : toMcu'[i].cmd = "apply" =>
             pc' \notin {"write", "verify"} /\ (pc' = "apply" => toMcu'[i] = req')
      BY <1>3
    <2>2. mcu'.state = "applying" =>
            /\ Cached' /\ cache'.request.cmd = "apply"
            /\ pc' \notin {"write", "verify"} /\ pc' # "apply"
      BY <1>3 DEF Aging, Applying, Cached
    <2> QED
      BY <2>1, <2>2 DEF Applying
  <1> QED
    BY <1>3, <1>6, <1>7, <1>8, <1>9 DEF Aging

(* Something is taken from a wire, or the caller goes on without sending. *)
LEMMA StayAges ==
  ASSUME Parameters, FewFaults, SessionConsistent, Aging, UNCHANGED <<req, mcu, cache>>,
         toHost' = toHost \/ (toHost # <<>> /\ toHost' = Tail(toHost)),
         toMcu' = toMcu \/ (toMcu # <<>> /\ toMcu' = Tail(toMcu)),
         pc' = pc \/ pc' \in {"idle", "size"},
         NEW f \in 0 .. MaxFaults, faults' = f, f >= faults,
         f = faults => \/ Awaited => Awaited'
                       \/ OnHost(0) /\ OnMcu(0) /\ InCache(0) /\ pc' \notin Commands,
         f = 0 /\ pc' \notin Commands => toMcu' = <<>> /\ toHost' = <<>>
  PROVE  Aging'
  <1>1. Types /\ Drawn /\ OldestFirst
    BY DEF SessionConsistent, Aging
  <1>2. /\ Drawn' /\ OldestFirst'
        /\ \A b \in Int : (OnHost(b) => OnHost(b)') /\ (OnMcu(b) => OnMcu(b)')
                          /\ (InCache(b) => InCache(b)')
        /\ \A i \in DOMAIN toMcu' : \E k \in DOMAIN toMcu : toMcu'[i] = toMcu[k]
    BY <1>1, Taken
  <1>3. /\ Spent \in Int /\ faults \in Nat /\ f \in Nat
        /\ \A a, b \in Int : a <= b =>
              /\ OnHost(a) => OnHost(b)
              /\ OnMcu(a) => OnMcu(b)
              /\ InCache(a) => InCache(b)
    BY <1>1, AgesAre DEF FewFaults
  <1>4. ASSUME NEW x \in Int, Spent' = x
        PROVE  /\ OnHost(x + 1)' /\ OnMcu(x + 1)' /\ InCache(x + 1)' => Ages'
               /\ OnHost(x)' /\ (mcu.state # "applying" => OnMcu(x)') => WireAges'
    BY <1>4 DEF Ages, WireAges, OnHost, OnMcu, InCache
  <1>5. Anew => Anew'
    BY <1>2 DEF Anew
  <1>6. Ages' /\ (WireAges' \/ Anew')
    <2>1. CASE f = faults => (Awaited => Awaited')
      <3>1. Spent' \in Int /\ Spent <= Spent'
        BY <1>1, <1>2, <2>1, MoreSpent
      <3>2. PICK x \in Int : x = Spent'
        BY <3>1
      <3>3. x + 1 \in Int /\ Spent + 1 \in Int /\ Spent <= x /\ Spent + 1 <= x + 1
        <4>1. Spent <= x
          BY <3>1, <3>2, Zenon
        <4> QED
          BY <1>3, <4>1
      <3>4. OnHost(x + 1)' /\ OnMcu(x + 1)' /\ InCache(x + 1)'
        <4>1. OnHost(Spent + 1) /\ OnMcu(Spent + 1) /\ InCache(Spent + 1)
          BY DEF Aging, Ages
        <4>2. OnHost(x + 1) /\ OnMcu(x + 1) /\ InCache(x + 1)
          BY <1>3, <3>3, <4>1
        <4> QED
          BY <1>2, <3>3, <4>2
      <3>5. WireAges => OnHost(x)' /\ (mcu.state # "applying" => OnMcu(x)')
        <4>1. WireAges => OnHost(x) /\ (mcu.state # "applying" => OnMcu(x))
          BY <1>3, <3>3 DEF WireAges
        <4> QED
          BY <1>2, <4>1
      <3> QED
        BY <1>4, <1>5, <3>2, <3>4, <3>5 DEF Aging
    <2>2. CASE OnHost(0) /\ OnMcu(0) /\ InCache(0) /\ pc' \notin Commands
      <3>1. Spent' = f - 1
        BY <2>2 DEF Spent, Awaited
      <3>2. f \in Int /\ f - 1 \in Int /\ 0 <= f /\ f - 1 + 1 = f /\ 0 \in Int /\ (f # 0 => 0 <= f - 1)
        BY <1>3
      <3>3. OnHost(f)' /\ OnMcu(f)' /\ InCache(f)'
        BY <1>2, <1>3, <2>2, <3>2
      <3>4. OnHost(f - 1)' /\ OnMcu(f - 1)'
        <4>1. CASE f = 0
          BY <2>2, <4>1 DEF OnHost, OnMcu
        <4>2. CASE f # 0
          BY <1>2, <1>3, <2>2, <3>2, <4>2
        <4> QED
          BY <4>1, <4>2
      <3> QED
        BY <1>4, <3>1, <3>2, <3>3, <3>4
    <2> QED
      BY <2>1, <2>2
  <1>7. Faultless'
    <2> SUFFICES ASSUME f = 0
                 PROVE  /\ OnHost(0)' /\ OnMcu(0)' /\ (toMcu' = <<>> \/ toHost' = <<>>)
                        /\ Len(toMcu') <= 1 /\ Len(toHost') <= 1
      BY DEF Faultless, OnHost, OnMcu
    <2>1. /\ OnHost(0) /\ OnMcu(0) /\ (toMcu = <<>> \/ toHost = <<>>)
          /\ Len(toMcu) <= 1 /\ Len(toHost) <= 1
      BY <1>3 DEF Aging, Faultless
    <2>2. Len(toMcu') <= 1 /\ Len(toHost') <= 1 /\ (toMcu' = <<>> \/ toHost' = <<>>)
      BY <1>1, <2>1 DEF Types, WireTypes
    <2> QED
      BY <1>2, <2>1, <2>2
  <1>8. Applying'
    BY <1>2 DEF Aging, Applying, Cached
  <1> QED
    BY <1>2, <1>6, <1>7, <1>8 DEF Aging

(* OtaStart, a block, OtaVerify, OtaApply and OtaAbort are sent. *)
LEMMA SendAging ==
  ASSUME Parameters, FewFaults, SessionConsistent, Aging,
         \/ Start \/ WriteNext \/ Apply
         \/ (StepRefused \/ StepTimedOut) /\ SendCmd("abort", NoArg)
  PROVE  Aging' /\ NumbersAreFresh
  <1>1. Types /\ Calls /\ Numbered /\ Drawn /\ OldestFirst
    BY DEF SessionConsistent, Aging
  <1>2. /\ Spent \in Int /\ faults \in Nat /\ faults \in 0 .. MaxFaults /\ 0 \in Int
        /\ Spent \in {faults, faults - 1} /\ (Awaited \/ Spent = faults - 1)
        /\ \A a, b \in Int : a <= b =>
              /\ OnHost(a) => OnHost(b)
              /\ OnMcu(a) => OnMcu(b)
              /\ InCache(a) => InCache(b)
    BY <1>1, AgesAre DEF Drawn, Spent
  <1>3. UNCHANGED <<mcu, cache>>
    BY DEF Start, WriteNext, Apply, StepRefused, StepTimedOut, mcuVars
  <1>a. NoArg \in Args
    BY DEF NoArg, Args
  <1>4. CASE Start
    <2> DEFINE arg == [at |-> total, units |-> Image(update, total)]
    <2>1. SendCmd("start", arg) /\ pc = "size" /\ toHost' = toHost /\ faults' = faults
      BY <1>4 DEF Start
    <2>2. arg \in Args
      BY <1>1, ImageIs DEF Args, Types, HostTypes
    <2> HIDE DEF arg
    <2>3. ~Awaited
      BY <2>1 DEF Awaited, Commands
    <2>4. Spent = faults - 1 /\ Spent + 1 = faults
      BY <1>2, <2>3
    <2>5. OnHost(faults) /\ OnMcu(faults) /\ InCache(faults)
      BY <2>4 DEF Aging, Ages
    <2>6. \/ OnHost(faults - 1) /\ (mcu.state # "applying" => OnMcu(faults - 1))
          \/ Anew
      BY <2>4 DEF Aging, WireAges
    <2>7. faults = 0 => toMcu = <<>> /\ toHost = <<>>
      BY <2>1 DEF Aging, Faultless, Commands
    <2>8. "start" \in Commands /\ faults >= faults
      BY <1>2 DEF Commands
    <2> QED
      BY <1>2, <1>3, <2>1, <2>2, <2>5, <2>6, <2>7, <2>8, SendAges
  <1>5. CASE Answered /\ UNCHANGED faults
    <2>1. /\ OnHost(0) /\ OnMcu(0) /\ InCache(0)
          /\ \A i \in DOMAIN toMcu : toMcu[i] = req
          /\ Cached => cache.request = req
          /\ pc \in Commands /\ req.cmd = pc
          /\ toHost # <<>>
      BY <1>1, <1>5, AnswerIsLast
    <2>2. toHost' = Tail(toHost)
      BY <1>5 DEF Answered
    <2>3. OnHost(faults) /\ OnMcu(faults) /\ InCache(faults)
      <3>1. 0 <= faults /\ faults \in Int
        BY <1>2
      <3> QED
        BY <1>2, <2>1, <3>1
    <2>4. faults > 0 => OnHost(faults - 1) /\ OnMcu(faults - 1)
      <3>1. faults > 0 => 0 <= faults - 1 /\ faults - 1 \in Int
        BY <1>2
      <3> QED
        BY <1>2, <2>1, <3>1
    <2>5. faults = 0 => toMcu = <<>> /\ toHost' = <<>>
      <3>1. faults = 0 => toMcu = <<>> /\ Len(toHost) <= 1
        BY <2>1 DEF Aging, Faultless
      <3> QED
        BY <1>1, <2>1, <2>2, <3>1 DEF Types, WireTypes
    <2>6. /\ pc # "apply" => \A i \in DOMAIN toMcu : toMcu[i].cmd # "apply"
          /\ pc # "apply" => mcu.state # "applying"
      BY <2>1 DEF Aging, Applying
    <2>7. PICK cmd \in Commands, arg \in Args :
             SendCmd(cmd, arg) /\ (cmd \in {"write", "verify", "apply"} => pc # "apply")
      <3>1. CASE WriteNext
        <4> DEFINE done == IF pc = "start" THEN 0 ELSE offset + Len(req.arg.units)
        <4>1. done \in Nat
          <5>1. offset \in Nat /\ req \in Requests
            BY <1>1, <2>1 DEF Types, HostTypes, NoRequest, Commands
          <5>2. Len(req.arg.units) \in Nat
            BY <5>1 DEF Requests, Args
          <5> QED
            BY <5>1, <5>2
        <4>2. /\ pc \in {"start", "write"}
              /\ \/ done < total /\ SendCmd("write", EncodeBlock(done))
                 \/ SendCmd("verify", NoArg)
          BY <3>1 DEF WriteNext
        <4> HIDE DEF done
        <4>3. done < total => EncodeBlock(done) \in Args
          BY <1>1, <4>1, BlockIs
        <4>4. "write" \in Commands /\ "verify" \in Commands
          BY DEF Commands
        <4> QED
          BY <1>a, <4>2, <4>3, <4>4
      <3>2. CASE Apply
        BY <1>a, <3>2 DEF Apply, Commands
      <3>3. CASE SendCmd("abort", NoArg)
        BY <1>a, <3>3 DEF Commands
      <3>4. CASE Start
        BY <1>4, <1>5, <2>1, <3>4 DEF Start, Commands
      <3> QED
        BY <3>1, <3>2, <3>3, <3>4
    <2>8. faults >= faults
      BY <1>2
    <2> QED
      BY <1>2, <1>3, <1>5, <2>1, <2>2, <2>3, <2>4, <2>5, <2>6, <2>7, <2>8, SendAges
  <1>6. CASE StepTimedOut /\ SendCmd("abort", NoArg)
    <2>1. TimedOut /\ toHost' = toHost
      BY <1>6 DEF StepTimedOut
    <2>2. \/ faults' = faults + 1 /\ faults' \in 0 .. MaxFaults
          \/ faults' = faults /\ ~Awaited /\ (faults = 0 => toMcu = <<>> /\ toHost = <<>>)
      BY <1>1, <1>2, <2>1, WaitsAreFaults DEF Aging
    <2>3. PICK f \in 0 .. MaxFaults : faults' = f /\ f >= faults
      BY <1>2, <2>2
    <2>4. f \in Int /\ Spent + 1 <= f /\ Spent <= f - 1 /\ Spent + 1 \in Int /\ f - 1 \in Int
      <3>1. f \in Nat
        BY <2>3 DEF FewFaults
      <3>2. CASE f = faults + 1
        BY <1>2, <3>1, <3>2
      <3>3. CASE f = faults /\ ~Awaited
        BY <1>2, <3>1, <3>3
      <3> QED
        BY <2>2, <2>3, <3>2, <3>3
    <2>5. OnHost(f) /\ OnMcu(f) /\ InCache(f)
      <3>1. OnHost(Spent + 1) /\ OnMcu(Spent + 1) /\ InCache(Spent + 1)
        BY DEF Aging, Ages
      <3> QED
        BY <1>2, <2>4, <3>1
    <2>6. \/ OnHost(f - 1) /\ (mcu.state # "applying" => OnMcu(f - 1))
          \/ Anew
      <3>1. WireAges => OnHost(f - 1) /\ (mcu.state # "applying" => OnMcu(f - 1))
        BY <1>2, <2>4 DEF WireAges
      <3> QED
        BY <3>1 DEF Aging
    <2>7. f = 0 => toMcu = <<>> /\ toHost' = <<>>
      BY <1>2, <2>1, <2>2, <2>3
    <2>8. "abort" \in Commands
      BY DEF Commands
    <2> QED
      BY <1>3, <1>6, <1>a, <2>1, <2>3, <2>5, <2>6, <2>7, <2>8, SendAges
  <1>7. WriteNext \/ Apply \/ StepRefused => Answered /\ UNCHANGED faults
    BY DEF WriteNext, Apply, StepRefused, Succeeded
  <1> QED
    BY <1>4, <1>5, <1>6, <1>7

(* An update begins, an answer is thrown away, a frame is lost, or the call returns. *)
LEMMA StayAging ==
  ASSUME Parameters, FewFaults, SessionConsistent, Aging,
         \/ BeginUpdate \/ RefuseSize \/ Finish \/ AbortReturns \/ StrayAnswer
         \/ CallbackThrows \/ LoseRequest \/ LoseAnswer
         \/ (StepRefused \/ StepTimedOut) /\ pc' = "idle" /\ UNCHANGED <<req, toMcu>>
  PROVE  Aging' /\ req' = req
  <1>1. Types /\ Calls /\ Numbered /\ Drawn /\ OldestFirst /\ Faultless
    BY DEF SessionConsistent, Aging
  <1>2. faults \in Nat /\ faults \in 0 .. MaxFaults /\ faults >= faults
    BY <1>1, AgesAre DEF Drawn
  <1>3. UNCHANGED <<req, mcu, cache>>
    BY DEF BeginUpdate, RefuseSize, Finish, AbortReturns, StrayAnswer, CallbackThrows, LoseRequest,
           LoseAnswer, StepRefused, StepTimedOut, hostVars, mcuVars
  <1>4. toHost' = toHost \/ (toHost # <<>> /\ toHost' = Tail(toHost))
    BY DEF BeginUpdate, RefuseSize, Finish, AbortReturns, StrayAnswer, CallbackThrows, LoseRequest,
           LoseAnswer, StepRefused, StepTimedOut, Succeeded, Answered
  <1>5. toMcu' = toMcu \/ (toMcu # <<>> /\ toMcu' = Tail(toMcu))
    BY DEF BeginUpdate, RefuseSize, Finish, AbortReturns, StrayAnswer, CallbackThrows, LoseRequest,
           LoseAnswer, StepRefused, StepTimedOut
  <1>6. pc' = pc \/ pc' \in {"idle", "size"}
    BY DEF BeginUpdate, RefuseSize, Finish, AbortReturns, StrayAnswer, CallbackThrows, LoseRequest,
           LoseAnswer, StepRefused, StepTimedOut, hostVars
  <1>c. {"idle", "size"} \cap Commands = {}
    BY DEF Commands
  <1>7. CASE Fault
    <2>1. faults' \in 0 .. MaxFaults /\ faults' = faults + 1
      BY <1>2, <1>7 DEF Fault, FewFaults
    <2>2. PICK f \in 0 .. MaxFaults : faults' = f /\ f >= faults /\ f # faults /\ f # 0
      BY <1>2, <2>1
    <2> QED
      BY <1>3, <1>4, <1>5, <1>6, <2>2, StayAges
  <1>8. CASE ~Awaited /\ faults' = faults /\ (faults = 0 => toMcu = <<>> /\ toHost = <<>>)
    BY <1>2, <1>3, <1>4, <1>5, <1>6, <1>8, StayAges
  <1>9. CASE Answered /\ faults' = faults /\ pc' = "idle" /\ toMcu' = toMcu
    <2>1. OnHost(0) /\ OnMcu(0) /\ InCache(0) /\ toHost # <<>>
      BY <1>1, <1>9, AnswerIsLast
    <2>2. toHost' = Tail(toHost)
      BY <1>9 DEF Answered
    <2>3. faults = 0 => toMcu' = <<>> /\ toHost' = <<>>
      <3>1. faults = 0 => toMcu = <<>> /\ Len(toHost) <= 1
        BY <1>1, <2>1 DEF Faultless
      <3> QED
        BY <1>1, <1>9, <2>1, <2>2, <3>1 DEF Types, WireTypes
    <2>4. pc' \notin Commands
      BY <1>9, <1>c
    <2> QED
      BY <1>2, <1>3, <1>4, <1>5, <1>6, <1>9, <2>1, <2>3, <2>4, StayAges
  <1>10. CASE StrayAnswer
    <2>1. /\ faults' = faults /\ pc' = pc /\ toMcu' = toMcu /\ toHost # <<>>
          /\ toHost' = Tail(toHost)
          /\ ~(Head(toHost).seq = req.seq /\ Head(toHost).cmd = req.cmd /\ pc = req.cmd)
      BY <1>10 DEF StrayAnswer, hostVars
    <2>2. Awaited => Awaited'
      <3> SUFFICES ASSUME Awaited PROVE Awaited'
        OBVIOUS
      <3>1. pc \in Commands /\ pc = req.cmd
        BY <1>1 DEF Awaited, Calls
      <3>2. CASE \E i \in DOMAIN toHost : toHost[i].seq = req.seq
        <4>1. PICK i \in DOMAIN toHost : toHost[i].seq = req.seq
          BY <3>2
        <4>2. Head(toHost) = toHost[1] /\ toHost[1].seq # req.seq
          BY <1>1, <2>1, <3>1 DEF Numbered, Types, WireTypes
        <4>3. i # 1
          BY <4>1, <4>2
        <4>4. i - 1 \in DOMAIN Tail(toHost) /\ Tail(toHost)[i - 1] = toHost[i]
          BY <1>1, <2>1, <4>3 DEF Types, WireTypes
        <4>5. \E k \in DOMAIN toHost' : toHost'[k].seq = req'.seq
          BY <1>3, <2>1, <4>1, <4>4
        <4> QED
          BY <2>1, <3>1, <4>5 DEF Awaited
      <3>3. CASE ~\E i \in DOMAIN toHost : toHost[i].seq = req.seq
        BY <1>3, <2>1, <3>3 DEF Awaited
      <3> QED
        BY <3>2, <3>3
    <2>3. ~(faults = 0 /\ pc' \notin Commands)
      BY <1>1, <2>1 DEF Faultless
    <2> QED
      BY <1>2, <1>3, <1>4, <1>5, <1>6, <2>1, <2>2, <2>3, StayAges
  <1>11. CASE TimedOut
    <2>1. \/ faults' = faults + 1 /\ faults' \in 0 .. MaxFaults
          \/ faults' = faults /\ ~Awaited /\ (faults = 0 => toMcu = <<>> /\ toHost = <<>>)
      BY <1>1, <1>2, <1>11, WaitsAreFaults
    <2>2. CASE faults' = faults + 1 /\ faults' \in 0 .. MaxFaults
      <3>1. PICK f \in 0 .. MaxFaults : faults' = f /\ f >= faults /\ f # faults /\ f # 0
        BY <1>2, <2>2
      <3> QED
        BY <1>3, <1>4, <1>5, <1>6, <3>1, StayAges
    <2> QED
      BY <1>8, <2>1, <2>2
  <1>12. CASE BeginUpdate \/ RefuseSize
    <2>1. pc \notin Commands /\ faults' = faults
      BY <1>12, <1>c DEF BeginUpdate, RefuseSize
    <2> QED
      BY <1>1, <1>8, <2>1 DEF Awaited, Faultless
  <1>13. CASE Finish \/ (StepRefused /\ pc' = "idle" /\ UNCHANGED <<req, toMcu>>)
    BY <1>9, <1>13 DEF Finish, Succeeded, StepRefused
  <1>14. CASE AbortReturns
    BY <1>9, <1>11, <1>14 DEF AbortReturns
  <1>15. CASE CallbackThrows \/ LoseRequest \/ LoseAnswer
    BY <1>7, <1>15 DEF CallbackThrows, LoseRequest, LoseAnswer
  <1>16. CASE StepTimedOut
    BY <1>11, <1>16 DEF StepTimedOut
  <1> QED
    BY <1>10, <1>12, <1>13, <1>14, <1>15, <1>16

(* A repeat is as young as the request it repeats. *)
LEMMA RetryAging ==
  ASSUME Parameters, FewFaults, SessionConsistent, Aging, Retry
  PROVE  Aging' /\ req' = req
  <1>1. Types /\ Calls /\ Numbered /\ Drawn /\ OldestFirst /\ Faultless
    BY DEF SessionConsistent, Aging
  <1>2. /\ TimedOut /\ toMcu' = Append(toMcu, req')
        /\ UNCHANGED <<pc, req, toHost, mcu, cache>>
    BY DEF Retry, RepeatedRequest, mcuVars
  <1>3. /\ Spent \in Int /\ faults \in Nat /\ faults \in 0 .. MaxFaults
        /\ \A a, b \in Int : a <= b =>
              /\ OnHost(a) => OnHost(b)
              /\ OnMcu(a) => OnMcu(b)
              /\ InCache(a) => InCache(b)
    BY <1>1, AgesAre DEF Drawn
  <1>4. /\ pc \in Commands /\ req \in Requests /\ req.cmd = pc
        /\ \/ faults' = faults + 1 /\ faults' \in 0 .. MaxFaults
           \/ faults' = faults /\ ~Awaited /\ (faults = 0 => toMcu = <<>> /\ toHost = <<>>)
    BY <1>1, <1>2, <1>3, WaitsAreFaults
  <1>5. faults' \in 0 .. MaxFaults /\ faults' >= faults
    BY <1>3, <1>4
  <1>6. /\ Drawn' /\ OldestFirst'
        /\ \A b \in Int : (OnHost(b) => OnHost(b)') /\ (b >= 0 /\ OnMcu(b) => OnMcu(b)')
                          /\ (InCache(b) => InCache(b)')
        /\ \A i \in DOMAIN toMcu' : toMcu'[i] = req' \/ \E k \in DOMAIN toMcu : toMcu'[i] = toMcu[k]
        /\ \E i \in DOMAIN toMcu' : toMcu'[i] = req'
    BY <1>1, <1>2, <1>4, <1>5, Added
  <1>7. Spent' \in Int /\ Spent <= Spent' /\ Spent' >= faults' - 1
    <2>1. faults' = faults => (Awaited => Awaited')
      BY <1>3, <1>4
    <2> QED
      BY <1>1, <1>5, <1>6, <2>1, MoreSpent
  <1>8. PICK x \in Int : x = Spent'
    BY <1>7
  <1>9. Spent <= x /\ Spent + 1 <= x + 1 /\ x + 1 >= 0 /\ x + 1 \in Int /\ Spent + 1 \in Int
    <2>1. Spent <= x /\ x >= faults' - 1
      BY <1>7, <1>8, Zenon
    <2>2. faults' \in Nat
      BY <1>5 DEF FewFaults
    <2>3. \A a, b \in Int, c \in Nat : a <= b /\ b >= c - 1 => a + 1 <= b + 1 /\ b + 1 >= 0
      OBVIOUS
    <2>4. Spent + 1 <= x + 1 /\ x + 1 >= 0
      BY <1>3, <1>8, <2>1, <2>2, <2>3, Zenon
    <2>5. \A a \in Int : a + 1 \in Int
      OBVIOUS
    <2> QED
      BY <1>3, <1>8, <2>1, <2>4, <2>5, Zenon
  <1>10. Ages'
    <2>1. OnHost(x + 1) /\ OnMcu(x + 1) /\ InCache(x + 1)
      BY <1>3, <1>9 DEF Aging, Ages
    <2>2. OnHost(x + 1)' /\ OnMcu(x + 1)' /\ InCache(x + 1)'
      BY <1>6, <1>9, <2>1
    <2> QED
      BY <1>8, <2>2 DEF Ages, OnHost, OnMcu, InCache
  <1>11. WireAges => WireAges'
    <2> SUFFICES ASSUME WireAges PROVE OnHost(x)' /\ (mcu.state # "applying" => OnMcu(x)')
      BY <1>2, <1>8 DEF WireAges, OnHost, OnMcu
    <2>1. OnHost(x) /\ (mcu.state # "applying" => OnMcu(x))
      BY <1>3, <1>9 DEF WireAges
    <2>2. mcu.state # "applying" => x >= 0
      <3>1. mcu.state # "applying" => Awaited'
        BY <1>2, <1>4, <1>6 DEF Awaited
      <3>2. mcu.state # "applying" => x = faults'
        BY <1>8, <3>1 DEF Spent
      <3> QED
        BY <1>5, <3>2 DEF FewFaults
    <2> QED
      BY <1>6, <2>1, <2>2
  <1>12. Anew => Anew'
    BY <1>2, <1>4, <1>6 DEF Anew, Commands
  <1>13. Faultless'
    <2> SUFFICES ASSUME faults' = 0
                 PROVE  /\ OnHost(0)' /\ OnMcu(0)' /\ toHost' = <<>>
                        /\ Len(toMcu') <= 1 /\ Len(toHost') <= 1
      BY <1>2, <1>4 DEF Faultless, OnHost, OnMcu
    <2>1. toMcu = <<>> /\ toHost = <<>>
      BY <1>3, <1>4
    <2>2. OnHost(0) /\ OnMcu(0)
      BY <2>1 DEF OnHost, OnMcu
    <2> QED
      BY <1>2, <1>6, <2>1, <2>2
  <1>14. Applying'
    <2>1. \A i \in DOMAIN toMcu' : toMcu'[i].cmd = "apply" =>
             pc' \notin {"write", "verify"} /\ (pc' = "apply" => toMcu'[i] = req')
      BY <1>2, <1>4, <1>6 DEF Aging, Applying
    <2> QED
      BY <1>2, <2>1 DEF Aging, Applying, Cached
  <1> QED
    BY <1>2, <1>6, <1>10, <1>11, <1>12, <1>13, <1>14 DEF Aging

(* What taking a request does to the MCU's session. *)
LEMMA Handled ==
  ASSUME Types, Numbered, McuHandles \/ McuFails \/ McuReplays
  PROVE  /\ mcu'.state = "applying" => Head(toMcu).cmd = "apply"
         /\ Head(toMcu).cmd \in {"start", "abort"} /\ mcu.state \in {"idle", "started"}
              => mcu'.state \in {"idle", "started"}
         /\ \E a \in Answers : a.seq = Head(toMcu).seq /\ toHost' = Append(toHost, a)
         /\ toMcu' = Tail(toMcu) /\ cache'.request = Head(toMcu)
         /\ toMcu # <<>> /\ mcu.state # "applying" /\ UNCHANGED <<pc, req>>
         /\ Head(toMcu) \in Requests /\ (faults' = faults \/ Fault)
  <1> DEFINE r == Head(toMcu)
  <1>1. toMcu # <<>> /\ mcu.state # "applying" /\ UNCHANGED <<pc, req>>
    BY DEF McuHandles, McuFails, McuReplays, Listening, hostVars
  <1>2. r \in Requests
    BY <1>1, Tails DEF Types, WireTypes
  <1>3. mcu \in Sessions /\ (faults' = faults \/ Fault)
    BY DEF Types, McuTypes, McuHandles, McuFails, McuReplays
  <1> HIDE DEF r
  <1>a. ASSUME NEW isNack \in BOOLEAN, NEW code \in Codes, Reply(r, isNack, code)
        PROVE  /\ \E a \in Answers : a.seq = r.seq /\ toHost' = Append(toHost, a)
               /\ toMcu' = Tail(toMcu) /\ cache'.request = r
    <2> DEFINE a == [seq |-> r.seq, cmd |-> r.cmd, nack |-> isNack, code |-> code]
    <2>1. a \in Answers
      BY <1>2 DEF Answers, Requests
    <2>2. a.seq = r.seq
      OBVIOUS
    <2> HIDE DEF a
    <2>3. toMcu' = Tail(toMcu) /\ toHost' = Append(toHost, a) /\ cache' = [request |-> r, answer |-> a]
      BY <1>a DEF Reply, a
    <2> QED
      BY <2>1, <2>2, <2>3
  <1>c. /\ FALSE \in BOOLEAN /\ TRUE \in BOOLEAN
        /\ {"ok", "busy", "not started", "offset", "verify", "flash", "invalid"} \subseteq Codes
    BY DEF Codes
  <1>b. Broken.state = "error" /\ NoSession.state = "idle"
    BY <1>3 DEF Broken, Sessions, NoSession
  <1>4. CASE HandlesStart(r)
    <2> DEFINE started == [state |-> "started", update |-> r.arg.units[1][1],
                           total |-> r.arg.at, flash |-> <<>>]
    <2>1. started.state = "started"
      OBVIOUS
    <2> HIDE DEF started
    <2>2. r.cmd = "start" /\ \/ mcu' = started /\ Reply(r, FALSE, "ok")
                             \/ mcu' = mcu /\ Reply(r, FALSE, "busy")
      BY <1>4 DEF HandlesStart, Accept, Refuse, started
    <2> QED
      BY <1>1, <1>2, <1>3, <1>a, <1>c, <2>1, <2>2 DEF r
  <1>5. CASE HandlesWrite(r)
    <2> DEFINE longer == [mcu EXCEPT !.state = "receiving", !.flash = @ \o r.arg.units]
    <2>1. longer.state = "receiving"
      BY <1>3 DEF Sessions
    <2> HIDE DEF longer
    <2>2. r.cmd = "write" /\ \/ mcu' = mcu /\ Reply(r, FALSE, "not started")
                             \/ mcu' = Broken /\ Reply(r, FALSE, "offset")
                             \/ mcu' = longer /\ Reply(r, FALSE, "ok")
      BY <1>5 DEF HandlesWrite, Accept, Refuse, Break, longer
    <2> QED
      BY <1>1, <1>2, <1>3, <1>a, <1>b, <1>c, <2>1, <2>2 DEF r
  <1>6. CASE HandlesVerify(r)
    <2> DEFINE verified == [mcu EXCEPT !.state = "verified"]
    <2>1. verified.state = "verified"
      BY <1>3 DEF Sessions
    <2> HIDE DEF verified
    <2>2. r.cmd = "verify" /\ \/ mcu' = mcu /\ Reply(r, FALSE, "not started")
                              \/ mcu' = Broken /\ Reply(r, FALSE, "verify")
                              \/ mcu' = verified /\ Reply(r, FALSE, "ok")
      BY <1>6 DEF HandlesVerify, Accept, Refuse, Break, verified
    <2> QED
      BY <1>1, <1>2, <1>3, <1>a, <1>b, <1>c, <2>1, <2>2 DEF r
  <1>7. CASE HandlesApply(r)
    <2>1. r.cmd = "apply" /\ (Reply(r, FALSE, "not started") \/ Reply(r, FALSE, "ok"))
      BY <1>7 DEF HandlesApply, Accept, Refuse
    <2> QED
      BY <1>1, <1>2, <1>3, <1>a, <1>c, <2>1 DEF r
  <1>8. CASE HandlesAbort(r)
    <2>1. r.cmd = "abort" /\ mcu' = NoSession /\ Reply(r, FALSE, "ok")
      BY <1>8 DEF HandlesAbort, Accept
    <2> QED
      BY <1>1, <1>2, <1>3, <1>a, <1>b, <1>c, <2>1 DEF r
  <1>9. CASE McuFails
    <2>1. \/ r.cmd = "write" /\ mcu' = Broken /\ Reply(r, FALSE, "flash")
          \/ mcu' = mcu /\ Reply(r, TRUE, "invalid")
      BY <1>9 DEF McuFails, Break, r
    <2> QED
      BY <1>1, <1>2, <1>3, <1>a, <1>b, <1>c, <2>1 DEF r
  <1>10. CASE McuReplays
    <2>1. r = cache.request /\ UNCHANGED <<mcu, cache>> /\ toMcu' = Tail(toMcu)
          /\ toHost' = Append(toHost, cache.answer)
      BY <1>10 DEF McuReplays, mcuVars, r
    <2>2. cache.request # NoRequest
      BY <1>2, <2>1 DEF Requests, NoRequest, Commands
    <2>3. cache.answer \in Answers /\ cache.answer.seq = r.seq
      BY <2>1, <2>2 DEF Numbered
    <2> QED
      BY <1>1, <1>2, <1>3, <2>1, <2>3 DEF r
  <1> QED
    BY <1>4, <1>5, <1>6, <1>7, <1>8, <1>9, <1>10 DEF McuHandles, r
(* The MCU takes a request. *)
LEMMA ServeAging ==
  ASSUME Parameters, FewFaults, SessionConsistent, Aging, McuHandles \/ McuFails \/ McuReplays
  PROVE  Aging' /\ req' = req
  <1> DEFINE r == Head(toMcu)
  <1>1. Types /\ Calls /\ Numbered /\ Drawn /\ OldestFirst /\ Faultless /\ Applying
    BY DEF SessionConsistent, Aging
  <1>2. /\ mcu'.state = "applying" => r.cmd = "apply"
        /\ r.cmd \in {"start", "abort"} /\ mcu.state \in {"idle", "started"}
             => mcu'.state \in {"idle", "started"}
        /\ toMcu' = Tail(toMcu) /\ cache'.request = r
        /\ toMcu # <<>> /\ mcu.state # "applying" /\ UNCHANGED <<pc, req>>
        /\ r \in Requests /\ (faults' = faults \/ Fault)
    BY <1>1, Handled
  <1>3. PICK a \in Answers : a.seq = r.seq /\ toHost' = Append(toHost, a)
    BY <1>1, Handled
  <1>4. /\ Spent \in Int /\ faults \in Nat /\ faults \in 0 .. MaxFaults
        /\ \A m, n \in Int : m <= n =>
              /\ OnHost(m) => OnHost(n)
              /\ OnMcu(m) => OnMcu(n)
              /\ InCache(m) => InCache(n)
    BY <1>1, AgesAre DEF Drawn
  <1>5. faults' \in 0 .. MaxFaults /\ faults' >= faults
    BY <1>2, <1>4 DEF Fault, FewFaults
  <1>6. /\ Drawn' /\ OldestFirst'
        /\ \A b \in Int : /\ OnHost(b) /\ OnMcu(b) => OnHost(b)'
                          /\ OnMcu(b) => OnMcu(b)' /\ InCache(b)'
        /\ \A i \in DOMAIN toMcu : toMcu[i] = r \/ \E k \in DOMAIN toMcu' : toMcu'[k] = toMcu[i]
        /\ \A i \in DOMAIN toMcu' : \E k \in DOMAIN toMcu : toMcu'[i] = toMcu[k]
        /\ \A i \in DOMAIN toHost : \E k \in DOMAIN toHost' : toHost'[k] = toHost[i]
        /\ \E i \in DOMAIN toHost' : toHost'[i].seq = r.seq
        /\ \E i \in DOMAIN toMcu : r = toMcu[i]
    BY <1>1, <1>2, <1>3, <1>5, Served
  <1> HIDE DEF r
  <1>7. Awaited => Awaited'
    <2> SUFFICES ASSUME Awaited PROVE Awaited'
      OBVIOUS
    <2>1. pc' \in Commands /\ req' = req
      BY <1>2 DEF Awaited
    <2>2. CASE \E i \in DOMAIN toHost : toHost[i].seq = req.seq
      BY <1>6, <2>1, <2>2 DEF Awaited
    <2>3. CASE r = req
      BY <1>6, <2>1, <2>3 DEF Awaited
    <2>4. CASE r # req /\ \E i \in DOMAIN toMcu : toMcu[i] = req
      <3>1. cache'.request # req'
        BY <1>2, <2>1, <2>4
      <3>2. \E k \in DOMAIN toMcu' : toMcu'[k] = req'
        BY <1>6, <2>1, <2>4
      <3> QED
        BY <2>1, <3>1, <3>2 DEF Awaited
    <2> QED
      BY <2>2, <2>3, <2>4 DEF Awaited
  <1>8. Spent' \in Int /\ Spent <= Spent'
    BY <1>1, <1>5, <1>6, <1>7, MoreSpent
  <1>9. PICK x \in Int : x = Spent'
    BY <1>8
  <1>10. Spent <= x /\ Spent + 1 <= x + 1 /\ x + 1 \in Int /\ Spent + 1 \in Int
    <2>1. Spent <= x
      BY <1>8, <1>9, Zenon
    <2> QED
      BY <1>4, <2>1
  <1>11. Ages'
    <2>1. OnHost(x + 1) /\ OnMcu(x + 1)
      BY <1>4, <1>10 DEF Aging, Ages
    <2>2. OnHost(x + 1)' /\ OnMcu(x + 1)' /\ InCache(x + 1)'
      BY <1>6, <1>10, <2>1
    <2> QED
      BY <1>9, <2>2 DEF Ages, OnHost, OnMcu, InCache
  <1>12. WireAges => WireAges'
    <2> SUFFICES ASSUME WireAges PROVE OnHost(x)' /\ OnMcu(x)'
      BY <1>9 DEF WireAges, OnHost, OnMcu
    <2>1. OnHost(x) /\ OnMcu(x)
      BY <1>2, <1>4, <1>10 DEF WireAges
    <2> QED
      BY <1>6, <2>1
  <1>13. Anew => Anew'
    BY <1>2, <1>6 DEF Anew
  <1>14. Faultless'
    <2> SUFFICES ASSUME faults' = 0
                 PROVE  /\ OnHost(0)' /\ OnMcu(0)' /\ toMcu' = <<>>
                        /\ Len(toMcu') <= 1 /\ Len(toHost') <= 1
                        /\ pc' \in Commands
      BY DEF Faultless, OnHost, OnMcu
    <2>1. faults = 0
      BY <1>4, <1>5
    <2>2. /\ OnHost(0) /\ OnMcu(0) /\ (toMcu = <<>> \/ toHost = <<>>)
          /\ Len(toMcu) <= 1 /\ Len(toHost) <= 1
          /\ pc \notin Commands => toMcu = <<>> /\ toHost = <<>>
      BY <2>1, <1>1 DEF Faultless
    <2>3. toHost = <<>> /\ pc \in Commands /\ toMcu' = <<>>
      BY <1>1, <1>2, <2>2 DEF Types, WireTypes
    <2>4. Len(toHost') <= 1 /\ Len(toMcu') <= 1
      BY <1>3, <2>3
    <2>5. OnHost(0)' /\ OnMcu(0)'
      BY <1>6, <2>2
    <2> QED
      BY <1>2, <2>3, <2>4, <2>5
  <1>15. Applying'
    <2>1. \A i \in DOMAIN toMcu' : toMcu'[i].cmd = "apply" =>
             pc' \notin {"write", "verify"} /\ (pc' = "apply" => toMcu'[i] = req')
      BY <1>1, <1>2, <1>6 DEF Applying
    <2>2. mcu'.state = "applying" =>
            /\ cache'.request # NoRequest /\ cache'.request.cmd = "apply"
            /\ pc' \notin {"write", "verify"}
            /\ pc' = "apply" => cache'.request = req'
      BY <1>1, <1>2, <1>6 DEF Applying, Requests, NoRequest, Commands
    <2> QED
      BY <2>1, <2>2 DEF Applying, Cached
  <1> QED
    BY <1>2, <1>6, <1>11, <1>12, <1>13, <1>14, <1>15 DEF Aging

(* The MCU restarts: what was on its way to it is gone, and so is what it remembers. *)
LEMMA RestartAging ==
  ASSUME Parameters, FewFaults, SessionConsistent, Aging, McuReboots \/ McuLosesPower
  PROVE  Aging' /\ req' = req
  <1>1. Types /\ Calls /\ Numbered /\ Drawn /\ OldestFirst /\ Faultless /\ Applying
    BY DEF SessionConsistent, Aging
  <1>2. /\ UNCHANGED <<pc, req, toHost>> /\ toMcu' = <<>> /\ mcu' = NoSession
        /\ cache'.request = NoRequest
        /\ \/ mcu.state = "applying" /\ faults' = faults
           \/ mcu.state # "applying" /\ Fault
    BY DEF McuReboots, McuLosesPower, hostVars
  <1>3. mcu'.state = "idle" /\ ~Cached' /\ DOMAIN toMcu' = {}
    BY <1>2 DEF NoSession, Cached
  <1>4. /\ Spent \in Int /\ faults \in Nat /\ faults \in 0 .. MaxFaults
        /\ Spent \in {faults, faults - 1}
        /\ \A m, n \in Int : m <= n => (OnHost(m) => OnHost(n))
    BY <1>1, AgesAre DEF Drawn, Spent
  <1>5. faults' \in 0 .. MaxFaults /\ faults' >= faults
    BY <1>2, <1>4 DEF Fault, FewFaults
  <1>6. /\ Drawn' /\ OldestFirst'
        /\ \A b \in Int : OnHost(b) => OnHost(b)'
    BY <1>1, <1>2, <1>5, Taken
  <1>7. \A b : OnMcu(b)' /\ InCache(b)'
    BY <1>3 DEF OnMcu, InCache
  <1>8. Faultless'
    <2> SUFFICES ASSUME faults' = 0
                 PROVE  /\ OnHost(0)' /\ OnMcu(0)' /\ toMcu' = <<>>
                        /\ Len(toMcu') <= 1 /\ Len(toHost') <= 1
                        /\ pc' \notin Commands => toHost' = <<>>
      BY DEF Faultless, OnHost, OnMcu
    <2>1. faults = 0
      BY <1>4, <1>5
    <2>2. /\ OnHost(0) /\ Len(toHost) <= 1
          /\ pc \notin Commands => toHost = <<>>
      BY <2>1, <1>1 DEF Faultless
    <2>3. OnHost(0)' /\ OnMcu(0)'
      BY <1>6, <1>7, <2>2
    <2> QED
      BY <1>2, <2>2, <2>3
  <1>9. Applying'
    BY <1>3 DEF Applying
  <1>10. CASE faults' = faults => (Awaited => Awaited')
    <2>1. Spent' \in Int /\ Spent <= Spent'
      BY <1>1, <1>5, <1>6, <1>10, MoreSpent
    <2>2. PICK x \in Int : x = Spent'
      BY <2>1
    <2>3. Spent <= x /\ Spent + 1 <= x + 1 /\ x + 1 \in Int /\ Spent + 1 \in Int
      <3>1. Spent <= x
        BY <2>1, <2>2, Zenon
      <3> QED
        BY <1>4, <3>1
    <2>4. Ages'
      <3>1. OnHost(x + 1)
        BY <1>4, <2>3 DEF Aging, Ages
      <3>2. OnHost(x + 1)' /\ OnMcu(x + 1)' /\ InCache(x + 1)'
        BY <1>6, <1>7, <2>3, <3>1
      <3> QED
        BY <2>2, <3>2 DEF Ages, OnHost, OnMcu, InCache
    <2>5. WireAges => WireAges'
      <3> SUFFICES ASSUME WireAges PROVE OnHost(x)' /\ OnMcu(x)'
        BY <2>2 DEF WireAges, OnHost, OnMcu
      <3>1. OnHost(x)
        BY <1>4, <2>3 DEF WireAges
      <3> QED
        BY <1>6, <1>7, <3>1
    <2>6. Anew => Anew'
      BY <1>2, <1>3 DEF Anew
    <2> QED
      BY <1>2, <1>6, <1>8, <1>9, <2>4, <2>5, <2>6 DEF Aging
  <1>11. CASE faults' = faults /\ Awaited /\ ~Awaited'
    <2>1. mcu.state = "applying"
      BY <1>2, <1>4, <1>11 DEF Fault
    <2>2. Spent = faults /\ Spent' = faults - 1
      BY <1>11 DEF Spent
    <2>3. OnHost(faults)
      BY <2>1, <2>2 DEF Aging, WireAges, Anew
    <2>4. Ages'
      <3>1. PICK x \in Int : x = faults - 1
        BY <1>4
      <3>2. x + 1 = faults /\ x + 1 \in Int
        BY <1>4, <3>1
      <3>3. OnHost(x + 1)
        BY <2>3, <3>2
      <3>4. OnHost(x + 1)' /\ OnMcu(x + 1)' /\ InCache(x + 1)'
        BY <1>6, <1>7, <3>2, <3>3
      <3> QED
        BY <2>2, <3>1, <3>4 DEF Ages, OnHost, OnMcu, InCache
    <2>5. pc \in {"start", "abort"}
      <3>1. ~\E i \in DOMAIN toHost : toHost[i].seq = req.seq
        BY <1>2, <1>11 DEF Awaited
      <3>2. ~(mcu.state = "applying" /\ cache.request = req) /\ pc \in Commands
        BY <1>11, <3>1 DEF Awaited
      <3> QED
        BY <1>1, <2>1, <3>2 DEF Applying, Commands
    <2>6. Anew'
      BY <1>2, <1>3, <2>5 DEF Anew
    <2> QED
      BY <1>2, <1>6, <1>8, <1>9, <2>4, <2>6 DEF Aging
  <1> QED
    BY <1>10, <1>11

(* Every step keeps the ages, and draws a number that is free. *)
LEMMA NextAging ==
  ASSUME Parameters, FewFaults, SessionConsistent, Aging, [Next]_vars
  PROVE  Aging' /\ [NumbersAreFresh]_vars
  <1>1. CASE UNCHANGED vars
    <2>0. UNCHANGED <<pc, req, toMcu, toHost, mcu, cache, faults>>
      BY <1>1 DEF vars, hostVars, mcuVars
    <2>1. Awaited' = Awaited /\ Spent' = Spent
      BY <2>0 DEF Awaited, Spent
    <2>2. Drawn' /\ OldestFirst' /\ Faultless' /\ Applying'
      BY <2>0 DEF Aging, Drawn, OldestFirst, Faultless, Applying, Cached, Age, OnHost, OnMcu
    <2>3. Ages' /\ (WireAges' \/ Anew')
      BY <2>0, <2>1 DEF Aging, Ages, WireAges, Anew, Cached, Age, OnHost, OnMcu, InCache
    <2> QED
      BY <1>1, <2>2, <2>3 DEF Aging
  <1>2. CASE Next
    <2>1. ASSUME req' = req PROVE NumbersAreFresh
      BY <2>1 DEF NumbersAreFresh
    <2>2. CASE StepRefused \/ StepTimedOut
      <3>1. \/ SendCmd("abort", NoArg)
            \/ pc' = "idle" /\ UNCHANGED <<req, toMcu>>
        BY <2>2, Zenon DEF StepRefused, StepTimedOut, Failed
      <3> QED
        BY <2>1, <2>2, <3>1, SendAging, StayAging
    <2> QED
      BY <1>2, <2>1, <2>2, SendAging, StayAging, RetryAging, ServeAging, RestartAging
      DEF Next, HostNext, McuNext
  <1> QED
    BY <1>1, <1>2

(* The invariant holds of every behaviour, and so do the ages. *)
LEMMA ConsistentAges ==
  ASSUME Parameters, FewFaults
  PROVE  Spec => [](SessionConsistent /\ Aging) /\ [][NumbersAreFresh]_vars
  <1>1. Init => SessionConsistent /\ Aging
    BY InitConsistent, InitAging
  <1>2. SessionConsistent /\ Aging /\ [Next]_vars => Aging' /\ [NumbersAreFresh]_vars
    BY NextAging
  <1>3. SessionConsistent /\ [Next]_vars /\ [NumbersAreFresh]_vars => SessionConsistent'
    BY NextConsistent
  <1> QED
    BY <1>1, <1>2, <1>3, PTL DEF Spec

(* send_cmd() draws no sequence number while a request or an answer that bears it
   is on the wire, or is the one the MCU answers repeats of (transport.cpp:135). *)
THEOREM NumbersStayFresh ==
  ASSUME Parameters, FewFaults
  PROVE  Spec => [][NumbersAreFresh]_vars
  BY ConsistentAges, PTL

(* OtaSession implements AtomicUpdate in every behaviour with fewer than
   SeqRange - 1 faults: what McuImplements asks of the numbers is then so
   (ota.cpp:162-218). *)
THEOREM SpecImplements ==
  ASSUME Parameters, FewFaults
  PROVE  Spec => Implements
  <1>1. Spec => Init /\ [][Next]_vars
    BY PTL DEF Spec
  <1>2. Spec => Steps
    BY <1>1, NumbersStayFresh, PTL DEF Steps
  <1>3. Steps => Implements
    BY McuImplements
  <1> QED
    BY <1>2, <1>3, PTL


-----------------------------------------------------------------------------
(* Retries are not taken for new blocks. *)

(* The flash holds the first n units of the session's image. *)
Holds(n) == Len(mcu.flash) = n /\ \A i \in 1 .. n : mcu.flash[i] = <<mcu.update, i>>

Receiving == mcu.state \in {"started", "receiving"}
Restarted == cache.request = NoRequest /\ mcu.state = "idle"

(* A block, or OtaVerify, is what the session waits for, if there is one. *)
Fits(r) ==
  Receiving =>
    IF r.cmd = "verify" THEN Holds(mcu.total)
    ELSE /\ Holds(r.arg.at)
         /\ \A i \in DOMAIN r.arg.units : r.arg.units[i] = <<mcu.update, r.arg.at + i>>

(* Where a restarted MCU takes q anew, r still fits. *)
Opens(q, r) ==
  q.cmd = "start" =>
    /\ r.cmd = "write" /\ r.arg.at = 0
    /\ \A i \in DOMAIN r.arg.units : r.arg.units[i] = <<Of(q), i>>

(* Among the first n requests on the way are, but for r's repeats, only those of the one
   before it, which the MCU has answered, or would take anew as it was restarted. *)
Behind(r, n) ==
  /\ \A j \in 1 .. n : \/ toMcu[j] = r \/ toMcu[j] = cache.request
                       \/ Restarted /\ Opens(toMcu[j], r)
  /\ \A j, k \in 1 .. n : toMcu[j] # r /\ toMcu[k] # r => toMcu[j] = toMcu[k]

(* r, if it is new to the MCU, fits when the n requests before it have been taken. *)
Comes(r, n) ==
  r.cmd \in {"write", "verify"} /\ r # cache.request => Fits(r) /\ Behind(r, n)

WireFits == \A i \in DOMAIN toMcu, r \in Requests : toMcu[i] = r => Comes(r, i - 1)
RequestFits ==
  pc \in {"write", "verify"} =>
    \A r \in Requests, n \in Nat : req = r /\ Len(toMcu) = n => Comes(r, n)

(* Repeats come one after the other, and first those of what was answered last. *)
RepeatsTogether ==
  /\ \A i, j, k \in DOMAIN toMcu : i <= j /\ j <= k /\ toMcu[i] = toMcu[k] => toMcu[j] = toMcu[i]
  /\ \A i, j \in DOMAIN toMcu : i <= j /\ toMcu[j] = cache.request => toMcu[i] = cache.request

(* The block under way is the caller's next. *)
CallerAsks ==
  /\ pc = "start" => req.arg.at = total /\ total > 0
  /\ pc = "write" =>
       /\ req.arg.at = offset /\ offset + Len(req.arg.units) <= total
       /\ \A i \in DOMAIN req.arg.units : req.arg.units[i] = <<update, offset + i>>

(* What the caller has sent when the request under way is granted. *)
Done == IF pc = "start" THEN 0 ELSE offset + Len(req.arg.units)

(* What was granted is in the flash, or the MCU was restarted since. *)
GrantedIsHeld ==
  /\ pc \in {"start", "write"} /\ Granted /\ Receiving => Holds(Done)
  /\ pc \in Commands /\ Granted => cache.request = req \/ Restarted

(* The session is of the caller's size, and so is the one that a late OtaStart would open. *)
SizeIsMine ==
  pc = "write" \/ (pc = "start" /\ Granted) =>
    /\ Receiving => mcu.total = total
    /\ \A i \in DOMAIN toMcu : toMcu[i].cmd = "start" => toMcu[i].arg.at = total

InOrder == cache.answer.code \notin {"offset", "verify"}

InStep ==
  /\ WireFits /\ RequestFits /\ RepeatsTogether /\ CallerAsks /\ GrantedIsHeld /\ SizeIsMine
  /\ InOrder

-----------------------------------------------------------------------------
(* Where the request under way was answered, nothing else is under way. *)
LEMMA AnsweredLast ==
  ASSUME Parameters, FewFaults, SessionConsistent, Aging, pc \in Commands,
         (\E i \in DOMAIN toHost : toHost[i].seq = req.seq) \/ cache.request = req
  PROVE  req \in Requests /\ \A j \in DOMAIN toMcu : toMcu[j] = req
  <1>1. Types /\ Calls /\ Numbered /\ Drawn /\ OldestFirst
    BY DEF SessionConsistent, Aging
  <1>2. req \in Requests /\ req # NoRequest
    BY <1>1 DEF Calls, Requests, NoRequest, Commands
  <1>3. /\ \A i \in DOMAIN toMcu : Age(toMcu[i].seq) \in Nat
        /\ \A i \in DOMAIN toHost : Age(toHost[i].seq) \in Nat
        /\ Cached => Age(cache.request.seq) \in Nat
    BY <1>1, AgesAre
  <1>4. \A j \in DOMAIN toMcu : Age(toMcu[j].seq) = 0
    <2>0. Age(req.seq) = 0
      BY <1>1, OneOlder DEF Drawn, Age
    <2>1. CASE \E i \in DOMAIN toHost : toHost[i].seq = req.seq
      <3>1. PICK i \in DOMAIN toHost : toHost[i].seq = req.seq
        BY <2>1
      <3>2. Age(toHost[i].seq) = 0
        BY <2>0, <3>1
      <3> QED
        BY <1>1, <1>3, <3>2 DEF OldestFirst
    <2>2. CASE cache.request = req
      <3>1. Cached /\ Age(cache.request.seq) = 0
        BY <1>2, <2>0, <2>2 DEF Cached
      <3> QED
        BY <1>1, <1>3, <3>1 DEF OldestFirst
    <2> QED
      BY <2>1, <2>2
  <1>5. \A j \in DOMAIN toMcu : toMcu[j].seq = req.seq
    BY <1>1, <1>4, OneOlder DEF Age, Drawn
  <1> QED
    BY <1>1, <1>2, <1>5 DEF Numbered

(* A request that was granted was answered. *)
LEMMA GrantedIsLast ==
  ASSUME Parameters, FewFaults, SessionConsistent, Aging, pc \in Commands, Granted
  PROVE  req \in Requests /\ \A j \in DOMAIN toMcu : toMcu[j] = req
  BY AnsweredLast DEF Granted

(* There is nothing to fit at first. *)
LEMMA InitInStep == ASSUME Init PROVE InStep
  <1>1. toMcu = <<>> /\ pc = "idle" /\ cache.answer = NoAnswer /\ DOMAIN toMcu = {}
    BY DEF Init
  <1>2. WireFits /\ RequestFits /\ RepeatsTogether
    BY <1>1 DEF WireFits, RequestFits, RepeatsTogether
  <1>3. CallerAsks /\ GrantedIsHeld /\ SizeIsMine
    BY <1>1 DEF CallerAsks, GrantedIsHeld, SizeIsMine, Commands
  <1>4. InOrder
    BY <1>1 DEF InOrder, NoAnswer
  <1> QED
    BY <1>2, <1>3, <1>4 DEF InStep

(* What comes to the MCU still comes when the first frame of the wire is lost. *)
LEMMA ComesOn ==
  ASSUME NEW d \in {0, 1}, toMcu \in Seq(Requests), toMcu' \in Seq(Requests),
         Len(toMcu') = Len(toMcu) - d,
         \A i \in 1 .. Len(toMcu') : toMcu'[i] = toMcu[i + d],
         UNCHANGED <<cache, mcu>>,
         NEW r, NEW n \in Nat, n >= d, n - d <= Len(toMcu'), Comes(r, n)
  PROVE  Comes(r, n - d)'
  <1> SUFFICES ASSUME r.cmd \in {"write", "verify"}, r # cache.request
               PROVE  Fits(r)' /\ Behind(r, n - d)'
    BY Zenon DEF Comes
  <1>1. Fits(r) /\ Behind(r, n)
    BY Zenon DEF Comes
  <1>2. Fits(r)'
    BY <1>1, Zenon DEF Fits, Holds, Receiving
  <1>3. Restarted' = Restarted
    BY DEF Restarted
  <1>4. \A j \in 1 .. n - d : j + d \in 1 .. n /\ toMcu'[j] = toMcu[j + d]
    OBVIOUS
  <1>5. ASSUME NEW j \in 1 .. n - d
        PROVE  \/ toMcu'[j] = r \/ toMcu'[j] = cache'.request
               \/ Restarted' /\ Opens(toMcu'[j], r)
    BY <1>1, <1>3, <1>4, Zenon DEF Behind
  <1>6. ASSUME NEW j \in 1 .. n - d, NEW k \in 1 .. n - d, toMcu'[j] # r, toMcu'[k] # r
        PROVE  toMcu'[j] = toMcu'[k]
    BY <1>1, <1>4, <1>6, Zenon DEF Behind
  <1>7. Behind(r, n - d)'
    BY <1>5, <1>6, Zenon DEF Behind
  <1> QED
    BY <1>2, <1>7

(* A wire from which the first frame was taken, or none. *)
LEMMA OneLess ==
  ASSUME NEW S, NEW s \in Seq(S), NEW t, t = s \/ (s # <<>> /\ t = Tail(s))
  PROVE  /\ t \in Seq(S)
         /\ \E d \in {0, 1} : /\ Len(t) = Len(s) - d
                              /\ \A i \in 1 .. Len(t) : t[i] = s[i + d] /\ i + d \in DOMAIN s
  <1>1. CASE t = s
    <2>1. Len(t) = Len(s) - 0 /\ \A i \in 1 .. Len(t) : t[i] = s[i + 0] /\ i + 0 \in DOMAIN s
      BY <1>1
    <2> QED
      BY <1>1, <2>1
  <1>2. CASE s # <<>> /\ t = Tail(s)
    <2>1. t \in Seq(S) /\ Len(t) = Len(s) - 1 /\ Len(s) \in Nat
      BY <1>2
    <2>2. DOMAIN t = 1 .. Len(t)
      BY <2>1
    <2>3. \A i \in 1 .. Len(t) : t[i] = s[i + 1] /\ i + 1 \in DOMAIN s
      BY <1>2, <2>2, Tails
    <2> QED
      BY <2>1, <2>3
  <1> QED
    BY <1>1, <1>2

(* Nothing is sent and nothing new is taken: the call goes on as it was, or is over. *)
LEMMA QuietInStep ==
  ASSUME SessionConsistent, InStep,
         UNCHANGED <<cache, mcu>>,
         toMcu' = toMcu \/ (toMcu # <<>> /\ toMcu' = Tail(toMcu)),
         \/ pc' \notin Commands
         \/ UNCHANGED <<pc, req, update, total, offset>> /\ (Granted' => Granted)
  PROVE  InStep'
  <1> USE DEF InStep
  <1>0. toMcu \in Seq(Requests) /\ pc \in Commands \union {"idle", "size"}
    BY DEF SessionConsistent, Types, WireTypes, HostTypes
  <1>1. PICK d \in {0, 1} : /\ toMcu' \in Seq(Requests) /\ Len(toMcu') = Len(toMcu) - d
                            /\ \A i \in 1 .. Len(toMcu') :
                                 toMcu'[i] = toMcu[i + d] /\ i + d \in DOMAIN toMcu
    BY <1>0, OneLess
  <1>2. DOMAIN toMcu' = 1 .. Len(toMcu') /\ Len(toMcu') \in Nat /\ Len(toMcu) \in Nat
    BY <1>0, <1>1
  <1>3. WireFits'
    <2> SUFFICES ASSUME NEW i \in 1 .. Len(toMcu'), NEW r \in Requests, toMcu'[i] = r
                 PROVE  Comes(r, i - 1)'
      BY <1>2, Zenon DEF WireFits
    <2>1. i + d \in DOMAIN toMcu /\ toMcu[i + d] = r /\ i + d - 1 \in Nat
      BY <1>0, <1>1
    <2>2. Comes(r, i + d - 1)
      BY <2>1 DEF WireFits
    <2>3. PICK n \in Nat : n = i + d - 1
      BY <2>1
    <2>4. Comes(r, n) /\ n >= d /\ n - d <= Len(toMcu') /\ n - d = i - 1
      BY <1>2, <2>2, <2>3
    <2>5. Comes(r, n - d)'
      BY <1>0, <1>1, <2>4, ComesOn
    <2> QED
      BY <2>4, <2>5
  <1>4. RequestFits'
    <2> SUFFICES ASSUME pc' \in {"write", "verify"}, NEW r \in Requests, NEW n \in Nat,
                        req' = r, Len(toMcu') = n
                 PROVE  Comes(r, n)'
      BY Zenon DEF RequestFits
    <2>1. pc' = pc /\ req' = req
      BY DEF Commands
    <2>2. PICK m \in Nat : m = Len(toMcu)
      BY <1>2
    <2>3. Comes(r, m)
      BY <2>1, <2>2 DEF RequestFits
    <2>4. m >= d /\ m - d <= Len(toMcu') /\ m - d = n
      BY <1>1, <1>2, <2>2
    <2>5. Comes(r, m - d)'
      BY <1>0, <1>1, <2>3, <2>4, ComesOn
    <2> QED
      BY <2>4, <2>5
  <1>5. RepeatsTogether'
    <2>1. ASSUME NEW i \in DOMAIN toMcu', NEW j \in DOMAIN toMcu', NEW k \in DOMAIN toMcu',
                 i <= j, j <= k, toMcu'[i] = toMcu'[k]
          PROVE  toMcu'[j] = toMcu'[i]
      <3>1. i + d <= j + d /\ j + d <= k + d
        BY <1>2, <2>1
      <3>2. /\ toMcu'[i] = toMcu[i + d] /\ i + d \in DOMAIN toMcu
            /\ toMcu'[j] = toMcu[j + d] /\ j + d \in DOMAIN toMcu
            /\ toMcu'[k] = toMcu[k + d] /\ k + d \in DOMAIN toMcu
        BY <1>1, <1>2
      <3> QED
        BY <2>1, <3>1, <3>2, Zenon DEF RepeatsTogether
    <2>2. ASSUME NEW i \in DOMAIN toMcu', NEW j \in DOMAIN toMcu',
                 i <= j, toMcu'[j] = cache.request
          PROVE  toMcu'[i] = cache.request
      <3>1. i + d <= j + d
        BY <1>2, <2>2
      <3>2. /\ toMcu'[i] = toMcu[i + d] /\ i + d \in DOMAIN toMcu
            /\ toMcu'[j] = toMcu[j + d] /\ j + d \in DOMAIN toMcu
        BY <1>1, <1>2
      <3> QED
        BY <2>2, <3>1, <3>2, Zenon DEF RepeatsTogether
    <2> QED
      BY <2>1, <2>2, Zenon DEF RepeatsTogether
  <1>6. CallerAsks'
    BY DEF CallerAsks, Commands
  <1>7. GrantedIsHeld'
    <2> SUFFICES ASSUME UNCHANGED <<pc, req, update, total, offset>>, Granted' => Granted
                 PROVE  GrantedIsHeld'
      BY DEF GrantedIsHeld, Commands
    <2>1. \A n : Holds(n)' <=> Holds(n)
      BY DEF Holds
    <2>2. Done' = Done /\ Receiving' = Receiving /\ Restarted' = Restarted
      BY DEF Done, Receiving, Restarted
    <2> QED
      BY <2>1, <2>2, Zenon DEF GrantedIsHeld
  <1>8. SizeIsMine'
    <2> SUFFICES ASSUME UNCHANGED <<pc, req, update, total, offset>>, Granted' => Granted
                 PROVE  SizeIsMine'
      BY DEF SizeIsMine, Commands
    <2>1. Receiving' = Receiving
      BY DEF Receiving
    <2>2. \A i \in DOMAIN toMcu' : \E k \in DOMAIN toMcu : toMcu'[i] = toMcu[k]
      BY <1>1, <1>2
    <2> QED
      BY <2>1, <2>2 DEF SizeIsMine
  <1>9. InOrder'
    BY DEF InOrder
  <1> QED
    BY <1>3, <1>4, <1>5, <1>6, <1>7, <1>8, <1>9

(* The power is gone, and the session and the wire with it. *)
LEMMA RestartInStep ==
  ASSUME SessionConsistent, InStep, McuReboots \/ McuLosesPower
  PROVE  InStep'
  <1> USE DEF InStep
  <1>1. /\ UNCHANGED <<pc, req, update, total, offset>> /\ toMcu' = <<>> /\ mcu' = NoSession
        /\ cache'.request = NoRequest /\ cache'.answer = NoAnswer
    BY DEF McuReboots, McuLosesPower, hostVars
  <1>2. ~Receiving' /\ Restarted' /\ DOMAIN toMcu' = {} /\ Len(toMcu') = 0
    BY <1>1 DEF Receiving, Restarted, NoSession
  <1>3. \A r : Comes(r, 0)'
    BY <1>2 DEF Comes, Fits, Behind
  <1>4. WireFits' /\ RequestFits' /\ RepeatsTogether'
    BY <1>2, <1>3 DEF WireFits, RequestFits, RepeatsTogether
  <1>5. CallerAsks'
    BY <1>1 DEF CallerAsks
  <1>6. GrantedIsHeld'
    BY <1>2 DEF GrantedIsHeld
  <1>7. SizeIsMine'
    BY <1>2 DEF SizeIsMine
  <1>8. InOrder'
    BY <1>1 DEF InOrder, NoAnswer
  <1> QED
    BY <1>4, <1>5, <1>6, <1>7, <1>8

(* What comes to the MCU still comes when something is sent behind it. *)
LEMMA ComesBefore ==
  ASSUME toMcu \in Seq(Requests), NEW x \in Requests, toMcu' = Append(toMcu, x),
         UNCHANGED <<cache, mcu>>,
         NEW r, NEW n \in Nat, n <= Len(toMcu), Comes(r, n)
  PROVE  Comes(r, n)'
  <1> SUFFICES ASSUME r.cmd \in {"write", "verify"}, r # cache.request
               PROVE  Fits(r)' /\ Behind(r, n)'
    BY Zenon DEF Comes
  <1>1. Fits(r) /\ Behind(r, n)
    BY Zenon DEF Comes
  <1>2. Fits(r)'
    BY <1>1, Zenon DEF Fits, Holds, Receiving
  <1>3. Restarted' = Restarted
    BY DEF Restarted
  <1>4. \A j \in 1 .. n : toMcu'[j] = toMcu[j]
    OBVIOUS
  <1>5. ASSUME NEW j \in 1 .. n
        PROVE  \/ toMcu'[j] = r \/ toMcu'[j] = cache'.request
               \/ Restarted' /\ Opens(toMcu'[j], r)
    BY <1>1, <1>3, <1>4, Zenon DEF Behind
  <1>6. ASSUME NEW j \in 1 .. n, NEW k \in 1 .. n, toMcu'[j] # r, toMcu'[k] # r
        PROVE  toMcu'[j] = toMcu'[k]
    BY <1>1, <1>4, <1>6, Zenon DEF Behind
  <1>7. Behind(r, n)'
    BY <1>5, <1>6, Zenon DEF Behind
  <1> QED
    BY <1>2, <1>7

(* So does what is sent, behind its own repeat. *)
LEMMA ComesBehind ==
  ASSUME toMcu \in Seq(Requests), NEW r \in Requests, toMcu' = Append(toMcu, r),
         UNCHANGED <<cache, mcu>>, NEW n \in Nat, n = Len(toMcu), Comes(r, n)
  PROVE  Comes(r, n)' /\ Comes(r, n + 1)'
  <1>1. Comes(r, n)'
    BY ComesBefore
  <1> SUFFICES ASSUME r.cmd \in {"write", "verify"}, r # cache.request
               PROVE  Behind(r, n + 1)'
    BY <1>1, Zenon DEF Comes
  <1>2. Behind(r, n)'
    BY <1>1, Zenon DEF Comes
  <1>3. \A j \in 1 .. n + 1 : j \in 1 .. n \/ j = n + 1
    OBVIOUS
  <1>4. toMcu'[n + 1] = r
    OBVIOUS
  <1>5. \A j \in 1 .. n + 1 : toMcu'[j] = r \/ j \in 1 .. n
    BY <1>3, <1>4
  <1>6. ASSUME NEW j \in 1 .. n + 1
        PROVE  \/ toMcu'[j] = r \/ toMcu'[j] = cache'.request
               \/ Restarted' /\ Opens(toMcu'[j], r)
    BY <1>2, <1>5, Zenon DEF Behind
  <1>7. ASSUME NEW j \in 1 .. n + 1, NEW k \in 1 .. n + 1, toMcu'[j] # r, toMcu'[k] # r
        PROVE  toMcu'[j] = toMcu'[k]
    BY <1>2, <1>5, <1>7, Zenon DEF Behind
  <1> QED
    BY <1>6, <1>7, Zenon DEF Behind

(* A repeat of the request under way fits as the request itself does. *)
LEMMA RetryInStep ==
  ASSUME Parameters, FewFaults, SessionConsistent, Aging, InStep, Retry
  PROVE  InStep'
  <1> USE DEF InStep
  <1>u. /\ UNCHANGED <<pc, update, total, offset, toHost, mcu, cache, req>>
        /\ toMcu' = Append(toMcu, req)
    BY DEF Retry, RepeatedRequest, mcuVars
  <1>1. req \in Requests /\ req.cmd = pc /\ pc \in Commands
    BY DEF Retry, TimedOut, SessionConsistent, Calls, Types, HostTypes, Requests, NoRequest, Commands
  <1>0. toMcu \in Seq(Requests) /\ InTurn
    BY DEF SessionConsistent, Types, WireTypes
  <1>n. PICK n \in Nat : n = Len(toMcu)
    BY <1>0
  <1>2. /\ toMcu' \in Seq(Requests) /\ Len(toMcu') = n + 1
        /\ DOMAIN toMcu' = 1 .. n + 1 /\ DOMAIN toMcu = 1 .. n
        /\ toMcu'[n + 1] = req
        /\ \A i \in 1 .. n : toMcu'[i] = toMcu[i]
    BY <1>0, <1>1, <1>n, <1>u
  <1>3. \A i \in DOMAIN toMcu' : i \in 1 .. n \/ i = n + 1
    BY <1>2
  <1>4. pc \in {"write", "verify"} => Comes(req, n)' /\ Comes(req, n + 1)'
    <2> SUFFICES ASSUME pc \in {"write", "verify"} PROVE Comes(req, n)' /\ Comes(req, n + 1)'
      OBVIOUS
    <2>1. PICK r \in Requests : r = req
      BY <1>1
    <2>2. Comes(r, n)
      BY <1>n, <2>1 DEF RequestFits
    <2>3. Comes(r, n)' /\ Comes(r, n + 1)'
      BY <1>0, <1>n, <1>u, <2>1, <2>2, ComesBehind
    <2> QED
      BY <1>u, <2>1, <2>3, Zenon
  <1>5. WireFits'
    <2> SUFFICES ASSUME NEW i \in 1 .. n + 1, NEW r \in Requests, toMcu'[i] = r
                 PROVE  Comes(r, i - 1)'
      BY <1>2, Zenon DEF WireFits
    <2>1. CASE i \in 1 .. n
      <3>1. toMcu[i] = r /\ i \in DOMAIN toMcu
        BY <1>2, <2>1
      <3>2. Comes(r, i - 1)
        BY <3>1 DEF WireFits
      <3>3. i - 1 \in Nat /\ i - 1 <= Len(toMcu)
        BY <1>n, <2>1
      <3> QED
        BY <1>0, <1>1, <1>u, <3>2, <3>3, ComesBefore
    <2>2. CASE i = n + 1
      <3>1. r = req /\ i - 1 = n
        BY <1>2, <2>2
      <3>2. pc \in {"write", "verify"} => Comes(r, n)'
        BY <1>4, <1>u, <3>1, Zenon
      <3>3. pc \notin {"write", "verify"} => Comes(r, n)'
        BY <1>1, <3>1 DEF Comes
      <3> QED
        BY <3>1, <3>2, <3>3
    <2> QED
      BY <2>1, <2>2
  <1>6. RequestFits'
    <2> SUFFICES ASSUME pc \in {"write", "verify"}, NEW r \in Requests, req = r
                 PROVE  Comes(r, n + 1)'
      BY <1>2, <1>u DEF RequestFits
    <2> QED
      BY <1>4, <1>u, Zenon
  <1>7. RepeatsTogether'
    <2>1. ASSUME NEW i \in 1 .. n + 1, NEW j \in 1 .. n + 1, NEW k \in 1 .. n + 1,
                 i <= j, j <= k, toMcu'[i] = toMcu'[k]
          PROVE  toMcu'[j] = toMcu'[i]
      <3>1. CASE k \in 1 .. n
        <4>1. i \in 1 .. n /\ j \in 1 .. n
          BY <2>1, <3>1
        <4> QED
          BY <1>2, <2>1, <3>1, <4>1 DEF RepeatsTogether
      <3>2. CASE k = n + 1 /\ i \in 1 .. n
        <4>1. toMcu[i] = req
          BY <1>2, <2>1, <3>2
        <4>2. j \in 1 .. n => toMcu[j] = req
          BY <1>0, <1>2, <2>1, <3>2, <4>1 DEF InTurn
        <4> QED
          BY <1>2, <1>3, <2>1, <3>2, <4>1, <4>2
      <3>3. CASE k = n + 1 /\ i = n + 1
        <4>1. i = j
          BY <2>1, <3>3
        <4> QED
          BY <4>1
      <3> QED
        BY <1>2, <1>3, <3>1, <3>2, <3>3
    <2>2. ASSUME NEW i \in 1 .. n + 1, NEW j \in 1 .. n + 1,
                 i <= j, toMcu'[j] = cache.request
          PROVE  toMcu'[i] = cache.request
      <3>1. CASE j \in 1 .. n
        <4>1. i \in 1 .. n
          BY <2>2, <3>1
        <4> QED
          BY <1>2, <2>2, <3>1, <4>1 DEF RepeatsTogether
      <3>2. CASE j = n + 1
        <4>1. cache.request = req
          BY <1>2, <2>2, <3>2
        <4>2. \A m \in DOMAIN toMcu : toMcu[m] = req
          BY <1>1, <4>1, AnsweredLast
        <4> QED
          BY <1>2, <1>3, <4>1, <4>2
      <3> QED
        BY <1>2, <1>3, <3>1, <3>2
    <2> QED
      BY <1>2, <1>u, <2>1, <2>2, Zenon DEF RepeatsTogether
  <1>8. CallerAsks'
    BY <1>u DEF CallerAsks
  <1>g. Granted' = Granted
    BY <1>u DEF Granted
  <1>h. Done' = Done /\ Receiving' = Receiving /\ Restarted' = Restarted
    BY <1>u DEF Done, Receiving, Restarted
  <1>9. GrantedIsHeld'
    <2>1. \A m : Holds(m)' <=> Holds(m)
      BY <1>u DEF Holds
    <2> QED
      BY <1>g, <1>h, <1>u, <2>1, Zenon DEF GrantedIsHeld
  <1>10. SizeIsMine'
    <2>1. pc = "write" => req.cmd # "start"
      BY <1>1
    <2>2. pc = "start" => req.arg.at = total
      BY DEF CallerAsks
    <2> QED
      BY <1>2, <1>3, <1>g, <1>h, <1>u, <2>1, <2>2 DEF SizeIsMine
  <1>11. InOrder'
    BY <1>u DEF InOrder
  <1> QED
    BY <1>5, <1>6, <1>7, <1>8, <1>9, <1>10, <1>11

-----------------------------------------------------------------------------
(* What the MCU makes of its session when it takes x, and answers code. *)
OpenedBy(x, code) ==
  /\ x.cmd = "start" /\ code = "ok" /\ mcu.state = "idle"
  /\ mcu'.state = "started" /\ mcu'.update = Of(x) /\ mcu'.total = x.arg.at /\ mcu'.flash = <<>>
LongerBy(x, code) ==
  /\ x.cmd = "write" /\ code = "ok" /\ Receiving
  /\ mcu'.state = "receiving" /\ mcu'.update = mcu.update /\ mcu'.total = mcu.total
  /\ mcu'.flash = mcu.flash \o x.arg.units
OverBy(x, code) ==
  /\ x.cmd \in {"start", "write"} => code # "ok"
  /\ mcu'.state \notin {"started", "receiving"}
  /\ mcu.state = "idle" => mcu'.state = "idle"
LeftBy(x, code) == mcu' = mcu /\ code # "ok"

(* It is out of order for a block that is not the next, or a verification before the last. *)
Misfit(x, code) ==
  /\ code = "offset" => x.cmd = "write" /\ Receiving /\ x.arg.at # Len(mcu.flash)
  /\ code = "verify" => x.cmd = "verify" /\ Receiving /\ mcu.flash # Image(mcu.update, mcu.total)

(* The MCU takes a request that is not a repeat of its last. *)
LEMMA TakesAnew ==
  ASSUME Parameters, SessionConsistent, McuHandles \/ McuFails
  PROVE  /\ toMcu # <<>> /\ toMcu' = Tail(toMcu) /\ Head(toMcu) # cache.request
         /\ UNCHANGED <<pc, req, update, total, offset>>
         /\ \E x \in Requests, code \in Codes :
              /\ x = Head(toMcu) /\ cache'.request = x /\ cache'.answer.code = code
              /\ Granted' => Granted \/ (x = req /\ code = "ok")
              /\ x = req => \A k \in DOMAIN toMcu : toMcu[k] = req
              /\ OpenedBy(x, code) \/ LongerBy(x, code) \/ OverBy(x, code) \/ LeftBy(x, code)
              /\ Misfit(x, code)
  <1>h. UNCHANGED <<hostVars, running>> /\ toMcu # <<>> /\ Head(toMcu) # cache.request
    BY DEF McuHandles, McuFails, Listening
  <1>0. toMcu \in Seq(Requests) /\ mcu \in Sessions
    BY DEF SessionConsistent, Types, WireTypes, McuTypes
  <1>1. PICK x \in Requests : x = Head(toMcu)
    BY <1>0, <1>h, Tails
  <1>2. ASSUME NEW isNack \in BOOLEAN, NEW code \in Codes, Reply(x, isNack, code),
               OpenedBy(x, code) \/ LongerBy(x, code) \/ OverBy(x, code) \/ LeftBy(x, code),
               Misfit(x, code)
        PROVE  /\ toMcu' = Tail(toMcu)
               /\ \E y \in Requests, c \in Codes :
                    /\ y = Head(toMcu) /\ cache'.request = y /\ cache'.answer.code = c
                    /\ Granted' => Granted \/ (y = req /\ c = "ok")
                    /\ y = req => \A k \in DOMAIN toMcu : toMcu[k] = req
                    /\ OpenedBy(y, c) \/ LongerBy(y, c) \/ OverBy(y, c) \/ LeftBy(y, c)
                    /\ Misfit(y, c)
    <2>1. /\ toMcu' = Tail(toMcu)
          /\ cache' = [request |-> x,
                       answer |-> [seq |-> x.seq, cmd |-> x.cmd, nack |-> isNack, code |-> code]]
      BY <1>2 DEF Reply
    <2>2. cache'.request = x /\ cache'.answer.code = code
      BY <2>1
    <2>3. /\ Granted' => Granted \/ (x = req /\ code = "ok")
          /\ x = req => \A k \in DOMAIN toMcu : toMcu[k] = req
      BY <1>1, <1>2, <1>h, Replied
    <2> QED
      BY <1>1, <1>2, <2>1, <2>2, <2>3, Zenon
  <1>c. /\ FALSE \in BOOLEAN /\ TRUE \in BOOLEAN
        /\ {"ok", "busy", "not started", "offset", "verify", "flash", "invalid"} \subseteq Codes
    BY DEF Codes
  <1>b. Broken.state = "error"
    BY <1>0 DEF Broken, Sessions
  <1>3. ASSUME NEW isNack \in BOOLEAN, NEW code \in Codes, code \notin {"ok", "offset", "verify"},
               mcu' = mcu, Reply(x, isNack, code)
        PROVE  LeftBy(x, code) /\ Misfit(x, code) /\ Reply(x, isNack, code)
    BY <1>3 DEF LeftBy, Misfit
  <1>4. ASSUME \/ HandlesStart(x) \/ HandlesWrite(x) \/ HandlesVerify(x)
               \/ HandlesApply(x) \/ HandlesAbort(x) \/ McuFails
        PROVE  \E isNack \in BOOLEAN, code \in Codes :
                 /\ Reply(x, isNack, code) /\ Misfit(x, code)
                 /\ OpenedBy(x, code) \/ LongerBy(x, code) \/ OverBy(x, code) \/ LeftBy(x, code)
    <2>1. CASE HandlesStart(x)
      <3>1. CASE mcu.state = "idle"
        <4> DEFINE s == [state |-> "started", update |-> x.arg.units[1][1],
                         total |-> x.arg.at, flash |-> <<>>]
        <4>1. mcu' = s /\ Reply(x, FALSE, "ok") /\ x.cmd = "start"
          BY <2>1, <3>1 DEF HandlesStart, Accept
        <4>2. s.state = "started" /\ s.update = Of(x) /\ s.total = x.arg.at /\ s.flash = <<>>
          BY DEF Of
        <4> HIDE DEF s
        <4>3. OpenedBy(x, "ok") /\ Misfit(x, "ok")
          BY <3>1, <4>1, <4>2 DEF OpenedBy, Misfit
        <4> QED
          BY <1>c, <4>1, <4>3
      <3>2. CASE mcu.state # "idle"
        <4>1. mcu' = mcu /\ Reply(x, FALSE, "busy")
          BY <2>1, <3>2 DEF HandlesStart, Refuse
        <4> QED
          BY <1>3, <1>c, <4>1
      <3> QED
        BY <3>1, <3>2
    <2>2. CASE HandlesWrite(x)
      <3>1. CASE ~Receiving
        <4>1. mcu' = mcu /\ Reply(x, FALSE, "not started")
          BY <2>2, <3>1 DEF HandlesWrite, Refuse, Receiving
        <4> QED
          BY <1>3, <1>c, <4>1
      <3>2. CASE Receiving /\ x.arg.at # Len(mcu.flash)
        <4>1. mcu' = Broken /\ Reply(x, FALSE, "offset") /\ x.cmd = "write"
          BY <2>2, <3>2 DEF HandlesWrite, Break, Receiving
        <4>2. OverBy(x, "offset") /\ Misfit(x, "offset")
          BY <1>b, <3>2, <4>1 DEF OverBy, Misfit, Receiving
        <4> QED
          BY <1>c, <4>1, <4>2
      <3>3. CASE Receiving /\ x.arg.at = Len(mcu.flash)
        <4> DEFINE f == mcu.flash \o x.arg.units
                   s == [mcu EXCEPT !.state = "receiving", !.flash = f]
        <4>1. mcu' = s /\ Reply(x, FALSE, "ok") /\ x.cmd = "write"
          BY <2>2, <3>3 DEF HandlesWrite, Accept, Receiving
        <4>2. \A g : LET q == [mcu EXCEPT !.state = "receiving", !.flash = g]
                     IN /\ q.state = "receiving" /\ q.update = mcu.update
                        /\ q.total = mcu.total /\ q.flash = g
          BY <1>0 DEF Sessions
        <4>3. s.state = "receiving" /\ s.update = mcu.update /\ s.total = mcu.total /\ s.flash = f
          BY <4>2, Zenon
        <4> HIDE DEF s
        <4>4. LongerBy(x, "ok") /\ Misfit(x, "ok")
          BY <3>3, <4>1, <4>3 DEF LongerBy, Misfit
        <4> QED
          BY <1>c, <4>1, <4>4
      <3> QED
        BY <3>1, <3>2, <3>3
    <2>3. CASE HandlesVerify(x)
      <3>1. CASE mcu.state # "receiving"
        <4>1. mcu' = mcu /\ Reply(x, FALSE, "not started")
          BY <2>3, <3>1 DEF HandlesVerify, Refuse
        <4> QED
          BY <1>3, <1>c, <4>1
      <3>2. CASE mcu.state = "receiving" /\ mcu.flash # Image(mcu.update, mcu.total)
        <4>1. mcu' = Broken /\ Reply(x, FALSE, "verify") /\ x.cmd = "verify"
          BY <2>3, <3>2 DEF HandlesVerify, Break
        <4>2. OverBy(x, "verify") /\ Misfit(x, "verify")
          BY <1>b, <3>2, <4>1 DEF OverBy, Misfit, Receiving
        <4> QED
          BY <1>c, <4>1, <4>2
      <3>3. CASE mcu.state = "receiving" /\ mcu.flash = Image(mcu.update, mcu.total)
        <4>1. mcu' = [mcu EXCEPT !.state = "verified"] /\ Reply(x, FALSE, "ok") /\ x.cmd = "verify"
          BY <2>3, <3>3 DEF HandlesVerify, Accept
        <4>2. mcu'.state = "verified"
          BY <1>0, <4>1 DEF Sessions
        <4>3. OverBy(x, "ok") /\ Misfit(x, "ok")
          BY <3>3, <4>1, <4>2 DEF OverBy, Misfit
        <4> QED
          BY <1>c, <4>1, <4>3
      <3> QED
        BY <3>1, <3>2, <3>3
    <2>4. CASE HandlesApply(x)
      <3>1. CASE mcu.state # "verified"
        <4>1. mcu' = mcu /\ Reply(x, FALSE, "not started")
          BY <2>4, <3>1 DEF HandlesApply, Refuse
        <4> QED
          BY <1>3, <1>c, <4>1
      <3>2. CASE mcu.state = "verified"
        <4>1. mcu' = [mcu EXCEPT !.state = "applying"] /\ Reply(x, FALSE, "ok") /\ x.cmd = "apply"
          BY <2>4, <3>2 DEF HandlesApply, Accept
        <4>2. mcu'.state = "applying"
          BY <1>0, <4>1 DEF Sessions
        <4>3. OverBy(x, "ok") /\ Misfit(x, "ok")
          BY <3>2, <4>1, <4>2 DEF OverBy, Misfit
        <4> QED
          BY <1>c, <4>1, <4>3
      <3> QED
        BY <3>1, <3>2
    <2>5. CASE HandlesAbort(x)
      <3>1. mcu' = NoSession /\ Reply(x, FALSE, "ok") /\ x.cmd = "abort"
        BY <2>5 DEF HandlesAbort, Accept
      <3>2. OverBy(x, "ok") /\ Misfit(x, "ok")
        BY <3>1 DEF OverBy, Misfit, NoSession
      <3> QED
        BY <1>c, <3>1, <3>2
    <2>6. CASE McuFails
      <3>1. \/ /\ mcu.state \in {"started", "receiving"}
               /\ mcu' = Broken /\ Reply(x, FALSE, "flash")
            \/ mcu' = mcu /\ Reply(x, TRUE, "invalid")
        BY <1>1, <2>6 DEF McuFails, Break
      <3>2. mcu.state \in {"started", "receiving"} /\ mcu' = Broken =>
              OverBy(x, "flash") /\ Misfit(x, "flash")
        BY <1>b DEF OverBy, Misfit
      <3> QED
        BY <1>3, <1>c, <3>1, <3>2
    <2> QED
      BY <1>4, <2>1, <2>2, <2>3, <2>4, <2>5, <2>6
  <1>5. \/ HandlesStart(x) \/ HandlesWrite(x) \/ HandlesVerify(x)
        \/ HandlesApply(x) \/ HandlesAbort(x) \/ McuFails
    BY <1>1 DEF McuHandles
  <1> QED
    BY <1>2, <1>4, <1>5, <1>h DEF hostVars

(* What comes behind the request that the MCU takes still comes. *)
LEMMA ComesNext ==
  ASSUME toMcu \in Seq(Requests), toMcu # <<>>, toMcu' = Tail(toMcu),
         NEW x \in Requests, x = toMcu[1], x # cache.request, cache'.request = x,
         NEW code, OpenedBy(x, code) \/ LongerBy(x, code) \/ OverBy(x, code) \/ LeftBy(x, code),
         NEW r \in Requests, r # cache.request, NEW n \in Nat, n >= 1, n <= Len(toMcu), Comes(r, n)
  PROVE  Comes(r, n - 1)'
  <1> SUFFICES ASSUME r.cmd \in {"write", "verify"}, r # x
               PROVE  Fits(r)' /\ Behind(r, n - 1)'
    BY Zenon DEF Comes
  <1>1. Fits(r) /\ Behind(r, n)
    BY Zenon DEF Comes
  <1>2. Restarted /\ Opens(x, r)
    BY <1>1 DEF Behind
  <1>3. Fits(r)'
    <2> SUFFICES ASSUME Receiving' PROVE Fits(r)'
      BY DEF Fits
    <2>1. OpenedBy(x, code)
      BY <1>2 DEF Restarted, Receiving, LongerBy, OverBy, LeftBy
    <2>2. /\ mcu'.update = Of(x) /\ mcu'.flash = <<>>
          /\ r.cmd = "write" /\ r.arg.at = 0
          /\ \A i \in DOMAIN r.arg.units : r.arg.units[i] = <<Of(x), i>>
      BY <1>2, <2>1 DEF OpenedBy, Opens
    <2>3. Holds(0)'
      BY <2>2 DEF Holds
    <2>4. \A i \in DOMAIN r.arg.units : r.arg.units[i] = <<Of(x), 0 + i>>
      <3>1. \A i \in DOMAIN r.arg.units : i \in Nat
        BY DEF Requests, Args
      <3> QED
        BY <2>2, <3>1
    <2> QED
      BY <2>2, <2>3, <2>4 DEF Fits
  <1>4. \A j \in 1 .. n - 1 : j + 1 \in 1 .. n /\ toMcu'[j] = toMcu[j + 1]
    OBVIOUS
  <1>5. 1 \in 1 .. n
    OBVIOUS
  <1>6. \A j \in 1 .. n - 1 : toMcu'[j] # r => toMcu'[j] = x
    BY <1>1, <1>4, <1>5 DEF Behind
  <1>7. Behind(r, n - 1)'
    BY <1>6, Zenon DEF Behind
  <1> QED
    BY <1>3, <1>7

(* What fits is what the session waits for. *)
LEMMA FitsInOrder ==
  ASSUME mcu \in Sessions, NEW x \in Requests, NEW code, Misfit(x, code),
         Comes(x, 0), x # cache.request
  PROVE  code \notin {"offset", "verify"}
  <1>1. CASE code = "offset"
    <2>1. x.cmd = "write" /\ Receiving /\ x.arg.at # Len(mcu.flash)
      BY <1>1 DEF Misfit
    <2>2. Holds(x.arg.at)
      BY <2>1 DEF Comes, Fits
    <2> QED
      BY <2>1, <2>2 DEF Holds
  <1>2. CASE code = "verify"
    <2>1. x.cmd = "verify" /\ Receiving /\ mcu.flash # Image(mcu.update, mcu.total)
      BY <1>2 DEF Misfit
    <2>2. Holds(mcu.total)
      BY <2>1 DEF Comes, Fits
    <2>3. mcu.flash \in Seq(Units)
      BY DEF Sessions
    <2>4. mcu.flash = [i \in 1 .. mcu.total |-> mcu.flash[i]]
      BY <2>2, <2>3 DEF Holds
    <2>5. mcu.flash = Image(mcu.update, mcu.total)
      BY <2>2, <2>4 DEF Holds, Image
    <2> QED
      BY <2>1, <2>5
  <1> QED
    BY <1>1, <1>2

(* A block that is taken is in the flash behind the others. *)
LEMMA BlockIsHeld ==
  ASSUME mcu \in Sessions, NEW x \in Requests, LongerBy(x, "ok"), Comes(x, 0), x # cache.request
  PROVE  Holds(x.arg.at + Len(x.arg.units))'
  <1>1. x.cmd = "write" /\ Receiving /\ mcu'.update = mcu.update
        /\ mcu'.flash = mcu.flash \o x.arg.units
    BY DEF LongerBy
  <1>2. /\ Holds(x.arg.at)
        /\ \A i \in DOMAIN x.arg.units : x.arg.units[i] = <<mcu.update, x.arg.at + i>>
    BY <1>1 DEF Comes, Fits
  <1>3. mcu.flash \in Seq(Units) /\ x.arg.units \in Seq(Units) /\ x.arg.at \in Nat
    BY DEF Sessions, Requests, Args
  <1>4. PICK at \in Nat, n \in Nat : at = x.arg.at /\ n = Len(x.arg.units)
    BY <1>3
  <1>5. PICK units \in Seq(Units), flash \in Seq(Units) : units = x.arg.units /\ flash = mcu.flash
    BY <1>3
  <1>6. /\ Len(flash) = at /\ Len(units) = n /\ DOMAIN units = 1 .. n
        /\ \A i \in 1 .. at : flash[i] = <<mcu.update, i>>
        /\ \A i \in 1 .. n : units[i] = <<mcu.update, at + i>>
    BY <1>2, <1>4, <1>5 DEF Holds
  <1>7. /\ Len(flash \o units) = at + n
        /\ \A i \in 1 .. at + n :
             (flash \o units)[i] = IF i <= at THEN flash[i] ELSE units[i - at]
    <2>1. /\ Len(flash \o units) = Len(flash) + Len(units)
          /\ \A i \in 1 .. Len(flash) + Len(units) :
               (flash \o units)[i] = IF i <= Len(flash) THEN flash[i] ELSE units[i - Len(flash)]
      OBVIOUS
    <2> QED
      BY <1>6, <2>1
  <1>8. ASSUME NEW i \in 1 .. at + n PROVE (flash \o units)[i] = <<mcu.update, i>>
    <2>1. CASE i <= at
      <3>1. i \in 1 .. at /\ (flash \o units)[i] = flash[i]
        BY <1>7, <2>1
      <3> QED
        BY <1>6, <3>1
    <2>2. CASE ~(i <= at)
      <3>1. PICK k \in 1 .. n : i = at + k
        <4>1. i - at \in 1 .. n /\ i = at + (i - at)
          BY <2>2
        <4> QED
          BY <4>1
      <3>2. (flash \o units)[i] = units[i - at] /\ i - at = k
        BY <1>7, <2>2, <3>1
      <3>3. units[k] = <<mcu.update, i>>
        BY <1>6, <3>1
      <3> QED
        BY <3>2, <3>3
    <2> QED
      BY <2>1, <2>2
  <1>9. Holds(at + n)'
    BY <1>1, <1>5, <1>7, <1>8 DEF Holds
  <1> QED
    BY <1>4, <1>9

(* The MCU takes a request: it fits, and what comes next will. *)
LEMMA ServeInStep ==
  ASSUME Parameters, FewFaults, SessionConsistent, Aging, InStep, McuHandles \/ McuFails
  PROVE  InStep'
  <1> USE DEF InStep
  <1>1. /\ toMcu # <<>> /\ toMcu' = Tail(toMcu) /\ Head(toMcu) # cache.request
        /\ UNCHANGED <<pc, req, update, total, offset>>
        /\ \E x \in Requests, code \in Codes :
             /\ x = Head(toMcu) /\ cache'.request = x /\ cache'.answer.code = code
             /\ Granted' => Granted \/ (x = req /\ code = "ok")
             /\ x = req => \A k \in DOMAIN toMcu : toMcu[k] = req
             /\ OpenedBy(x, code) \/ LongerBy(x, code) \/ OverBy(x, code) \/ LeftBy(x, code)
             /\ Misfit(x, code)
    BY TakesAnew
  <1>2. PICK x \in Requests, code \in Codes :
             /\ x = Head(toMcu) /\ cache'.request = x /\ cache'.answer.code = code
             /\ Granted' => Granted \/ (x = req /\ code = "ok")
             /\ x = req => \A k \in DOMAIN toMcu : toMcu[k] = req
             /\ OpenedBy(x, code) \/ LongerBy(x, code) \/ OverBy(x, code) \/ LeftBy(x, code)
             /\ Misfit(x, code)
    BY <1>1, Zenon
  <1>3. /\ toMcu \in Seq(Requests) /\ mcu \in Sessions /\ Calls
        /\ pc \in Commands \union {"idle", "size"}
    BY DEF SessionConsistent, Types, WireTypes, McuTypes, HostTypes
  <1>4. /\ toMcu' \in Seq(Requests) /\ x = toMcu[1] /\ 1 \in DOMAIN toMcu /\ x # cache.request
        /\ \A i \in DOMAIN toMcu : 1 <= i
        /\ \A i \in DOMAIN toMcu' : i + 1 \in DOMAIN toMcu /\ toMcu'[i] = toMcu[i + 1]
    BY <1>1, <1>2, <1>3, Tails
  <1>n. PICK n \in Nat : n = Len(toMcu) /\ n >= 1 /\ Len(toMcu') = n - 1
                         /\ DOMAIN toMcu = 1 .. n /\ DOMAIN toMcu' = 1 .. n - 1
    BY <1>1, <1>3, <1>4
  <1>5. ASSUME NEW i \in DOMAIN toMcu, toMcu[i] = cache.request PROVE FALSE
    BY <1>4, <1>5, Zenon DEF RepeatsTogether
  <1>6. Comes(x, 0)
    <2>1. Comes(x, 1 - 1)
      BY <1>4 DEF WireFits
    <2> QED
      BY <2>1
  <1>a. ASSUME pc \in Commands, Granted PROVE x = req /\ Restarted
    <2>1. x = req
      BY <1>a, <1>4, GrantedIsLast
    <2> QED
      BY <1>a, <1>4, <2>1 DEF GrantedIsHeld
  <1>7. WireFits'
    <2> SUFFICES ASSUME NEW i \in DOMAIN toMcu', NEW r \in Requests, toMcu'[i] = r
                 PROVE  Comes(r, i - 1)'
      BY Zenon DEF WireFits
    <2>1. i + 1 \in DOMAIN toMcu /\ toMcu[i + 1] = r
      BY <1>4
    <2>2. r # cache.request
      BY <1>5, <2>1
    <2>3. PICK m \in Nat : m = i /\ m >= 1 /\ m <= Len(toMcu)
      BY <1>n
    <2>4. Comes(r, m)
      <3>1. Comes(r, (i + 1) - 1)
        BY <2>1 DEF WireFits
      <3>2. (i + 1) - 1 = m
        BY <2>3
      <3> QED
        BY <3>1, <3>2
    <2>5. Comes(r, m - 1)'
      BY <1>1, <1>2, <1>3, <1>4, <2>2, <2>3, <2>4, ComesNext
    <2> QED
      BY <2>3, <2>5
  <1>8. RequestFits'
    <2> SUFFICES ASSUME pc \in {"write", "verify"}, NEW r \in Requests, req = r
                 PROVE  Comes(r, n - 1)'
      BY <1>1, <1>n DEF RequestFits
    <2>1. Comes(r, n)
      BY <1>n DEF RequestFits
    <2>2. CASE r = x
      BY <1>2, <2>2 DEF Comes
    <2>3. CASE r # x
      <3>1. r # cache.request
        BY <1>4, <2>3, AnsweredLast DEF Commands
      <3> QED
        BY <1>1, <1>2, <1>3, <1>4, <1>n, <2>1, <3>1, ComesNext
    <2> QED
      BY <2>2, <2>3
  <1>9. RepeatsTogether'
    <2>1. ASSUME NEW i \in DOMAIN toMcu', NEW j \in DOMAIN toMcu', NEW k \in DOMAIN toMcu',
                 i <= j, j <= k, toMcu'[i] = toMcu'[k]
          PROVE  toMcu'[j] = toMcu'[i]
      <3>1. i + 1 <= j + 1 /\ j + 1 <= k + 1
        BY <1>n, <2>1
      <3>2. /\ toMcu'[i] = toMcu[i + 1] /\ i + 1 \in DOMAIN toMcu
            /\ toMcu'[j] = toMcu[j + 1] /\ j + 1 \in DOMAIN toMcu
            /\ toMcu'[k] = toMcu[k + 1] /\ k + 1 \in DOMAIN toMcu
        BY <1>4
      <3> QED
        BY <2>1, <3>1, <3>2, Zenon DEF RepeatsTogether
    <2>2. ASSUME NEW i \in DOMAIN toMcu', NEW j \in DOMAIN toMcu', i <= j, toMcu'[j] = x
          PROVE  toMcu'[i] = x
      <3>1. 1 <= i + 1 /\ i + 1 <= j + 1
        BY <1>n, <2>2
      <3>2. toMcu[1] = toMcu[j + 1] /\ i + 1 \in DOMAIN toMcu /\ j + 1 \in DOMAIN toMcu
        BY <1>4, <2>2
      <3>3. toMcu[i + 1] = toMcu[1]
        BY <1>4, <3>1, <3>2, Zenon DEF RepeatsTogether
      <3> QED
        BY <1>4, <3>3
    <2> QED
      BY <1>2, <2>1, <2>2, Zenon DEF RepeatsTogether
  <1>10. CallerAsks'
    BY <1>1 DEF CallerAsks
  <1>11. GrantedIsHeld'
    <2> SUFFICES ASSUME pc \in Commands, Granted'
                 PROVE  /\ pc \in {"start", "write"} /\ Receiving' => Holds(Done)'
                        /\ cache'.request = req
      BY <1>1 DEF GrantedIsHeld, Commands
    <2>1. x = req
      BY <1>2, <1>a
    <2>2. ASSUME pc \in {"start", "write"}, Receiving' PROVE Holds(Done)'
      <3>1. req.cmd = pc
        BY <1>3 DEF Calls
      <3>2. CASE OpenedBy(x, code)
        <4>1. pc = "start" /\ mcu'.flash = <<>>
          BY <2>1, <3>1, <3>2 DEF OpenedBy
        <4>2. Done' = 0
          BY <1>1, <4>1 DEF Done
        <4> QED
          BY <4>1, <4>2 DEF Holds
      <3>3. CASE LongerBy(x, code)
        <4>1. pc = "write" /\ code = "ok"
          BY <2>1, <3>1, <3>3 DEF LongerBy
        <4>2. Holds(x.arg.at + Len(x.arg.units))'
          BY <1>3, <1>4, <1>6, <3>3, <4>1, BlockIsHeld
        <4>3. x.arg.at = offset
          BY <2>1, <4>1 DEF CallerAsks
        <4>4. PICK m : m = x.arg.at + Len(x.arg.units)
          OBVIOUS
        <4>5. Done' = m
          BY <1>1, <2>1, <4>1, <4>3, <4>4 DEF Done
        <4>6. Holds(m)'
          BY <4>2, <4>4
        <4> QED
          BY <4>5, <4>6 DEF Holds
      <3>4. CASE OverBy(x, code)
        BY <2>2, <3>4 DEF OverBy, Receiving
      <3>5. CASE LeftBy(x, code)
        <4>1. Restarted
          BY <1>2, <1>a, <3>5 DEF LeftBy
        <4> QED
          BY <2>2, <3>5, <4>1 DEF LeftBy, Receiving, Restarted
      <3> QED
        BY <1>2, <3>2, <3>3, <3>4, <3>5
    <2> QED
      BY <1>2, <2>1, <2>2
  <1>12. SizeIsMine'
    <2> SUFFICES ASSUME pc = "write" \/ (pc = "start" /\ Granted')
                 PROVE  /\ Receiving' => mcu'.total = total
                        /\ \A i \in DOMAIN toMcu' : toMcu'[i].cmd = "start" => toMcu'[i].arg.at = total
      BY <1>1, Zenon DEF SizeIsMine
    <2>1. CASE pc = "write" \/ (pc = "start" /\ Granted)
      <3>1. /\ Receiving => mcu.total = total
            /\ \A i \in DOMAIN toMcu : toMcu[i].cmd = "start" => toMcu[i].arg.at = total
        BY <2>1, Zenon DEF SizeIsMine
      <3>2. x.cmd = "start" => x.arg.at = total
        BY <1>4, <3>1
      <3>3. Receiving' => mcu'.total = total
        BY <1>2, <3>1, <3>2 DEF OpenedBy, LongerBy, OverBy, LeftBy, Receiving
      <3> QED
        BY <1>4, <3>1, <3>3
    <2>2. CASE pc = "start" /\ ~Granted
      <3>1. x = req /\ code = "ok" /\ req.cmd = "start"
        BY <1>2, <1>3, <2>2 DEF Calls, Commands
      <3>2. req.arg.at = total
        BY <2>2 DEF CallerAsks
      <3>3. OpenedBy(x, code)
        BY <1>2, <3>1 DEF LongerBy, OverBy, LeftBy
      <3>4. mcu'.total = total
        BY <3>1, <3>2, <3>3 DEF OpenedBy
      <3>5. \A i \in DOMAIN toMcu' : toMcu'[i] = req
        BY <1>2, <1>4, <3>1
      <3> QED
        BY <3>2, <3>4, <3>5
    <2> QED
      BY <2>1, <2>2
  <1>13. InOrder'
    BY <1>2, <1>3, <1>4, <1>6, FitsInOrder DEF InOrder
  <1> QED
    BY <1>7, <1>8, <1>9, <1>10, <1>11, <1>12, <1>13

-----------------------------------------------------------------------------
(* A new command: what is on its way to the MCU still fits when it comes. *)
LEMMA SentInStep ==
  ASSUME Parameters, SessionConsistent, InStep, NumbersAreFresh,
         NEW cmd \in Commands, NEW arg \in Args, SendCmd(cmd, arg),
         toHost' = toHost \/ (toHost # <<>> /\ toHost' = Tail(toHost)),
         UNCHANGED <<update, total, mcu, cache, running>>,
         cmd = "start" => update > 0 /\ arg.units[1][1] = update,
         \A r \in Requests, n \in Nat :
           r.cmd = cmd /\ r.arg = arg /\ Len(toMcu) = n => Comes(r, n)
  PROVE  /\ WireFits' /\ RequestFits' /\ RepeatsTogether' /\ ~Granted'
         /\ req' \in Requests /\ req'.cmd = cmd /\ req'.arg = arg /\ pc' = cmd
         /\ \A i \in DOMAIN toMcu' : toMcu'[i] = req' \/ \E k \in DOMAIN toMcu : toMcu'[i] = toMcu[k]
  <1> USE DEF InStep
  <1>1. /\ ~Granted' /\ req' \in Requests /\ req'.cmd = cmd /\ req'.arg = arg /\ pc' = cmd
        /\ \A i \in DOMAIN toMcu' :
             toMcu'[i] = req' \/ \E k \in DOMAIN toMcu : toMcu'[i] = toMcu[k]
    BY Sent
  <1>0. /\ toMcu \in Seq(Requests) /\ req.seq \in Nat /\ req'.seq = (req.seq + 1) % SeqRange
        /\ toMcu' = Append(toMcu, req')
    BY DEF SessionConsistent, Types, WireTypes, HostTypes, Requests, NoRequest, SendCmd
  <1>f. cache.request # req' /\ \A i \in DOMAIN toMcu : toMcu[i] # req'
    <2>1. req' # req
      <3>1. SeqRange \in Nat /\ SeqRange > 1
        BY DEF Parameters
      <3>2. PICK s \in Nat : s = req.seq
        BY <1>0
      <3>3. ASSUME (s + 1) % SeqRange = s PROVE FALSE
        <4>1. 0 <= s /\ s < SeqRange
          BY <3>1, <3>2, <3>3
        <4>2. CASE s + 1 < SeqRange
          BY <3>1, <3>3, <4>2
        <4>3. CASE s + 1 = SeqRange
          BY <3>1, <3>3, <4>3
        <4> QED
          BY <3>1, <4>1, <4>2, <4>3
      <3> QED
        BY <1>0, <3>2, <3>3
    <2>2. req' # NoRequest
      BY <1>1 DEF Requests, NoRequest, Commands
    <2> QED
      BY <2>1, <2>2 DEF NumbersAreFresh
  <1>n. PICK n \in Nat : n = Len(toMcu)
    BY <1>0
  <1>2. /\ toMcu' \in Seq(Requests) /\ Len(toMcu') = n + 1
        /\ DOMAIN toMcu' = 1 .. n + 1 /\ DOMAIN toMcu = 1 .. n
        /\ toMcu'[n + 1] = req'
        /\ \A i \in 1 .. n : toMcu'[i] = toMcu[i]
    BY <1>0, <1>1, <1>n
  <1>3. \A i \in 1 .. n + 1 : i \in 1 .. n \/ i = n + 1
    OBVIOUS
  <1>4. ASSUME NEW r \in Requests, r = req' PROVE Comes(r, n)' /\ Comes(r, n + 1)'
    <2>1. Comes(r, n)
      BY <1>1, <1>4, <1>n
    <2> QED
      BY <1>0, <1>4, <1>n, <2>1, ComesBehind
  <1>5. WireFits'
    <2> SUFFICES ASSUME NEW i \in 1 .. n + 1, NEW r \in Requests, toMcu'[i] = r
                 PROVE  Comes(r, i - 1)'
      BY <1>2, Zenon DEF WireFits
    <2>1. CASE i \in 1 .. n
      <3>1. toMcu[i] = r /\ i \in DOMAIN toMcu
        BY <1>2, <2>1
      <3>2. Comes(r, i - 1)
        BY <3>1 DEF WireFits
      <3>3. i - 1 \in Nat /\ i - 1 <= Len(toMcu)
        BY <1>n, <2>1
      <3> QED
        BY <1>0, <1>1, <3>2, <3>3, ComesBefore
    <2>2. CASE i = n + 1
      <3>1. r = req' /\ i - 1 = n
        BY <1>2, <2>2
      <3> QED
        BY <1>4, <3>1
    <2> QED
      BY <1>3, <2>1, <2>2
  <1>6. RequestFits'
    BY <1>2, <1>4 DEF RequestFits
  <1>7. RepeatsTogether'
    <2>1. ASSUME NEW i \in 1 .. n + 1, NEW j \in 1 .. n + 1, NEW k \in 1 .. n + 1,
                 i <= j, j <= k, toMcu'[i] = toMcu'[k]
          PROVE  toMcu'[j] = toMcu'[i]
      <3>1. CASE k \in 1 .. n
        <4>1. i \in 1 .. n /\ j \in 1 .. n
          BY <2>1, <3>1
        <4> QED
          BY <1>2, <2>1, <3>1, <4>1 DEF RepeatsTogether
      <3>2. CASE k = n + 1
        <4>1. i \notin 1 .. n
          BY <1>2, <1>f, <2>1, <3>2
        <4>2. i = j
          BY <1>3, <2>1, <4>1
        <4> QED
          BY <4>2
      <3> QED
        BY <1>3, <3>1, <3>2
    <2>2. ASSUME NEW i \in 1 .. n + 1, NEW j \in 1 .. n + 1,
                 i <= j, toMcu'[j] = cache.request
          PROVE  toMcu'[i] = cache.request
      <3>1. j \in 1 .. n
        BY <1>2, <1>3, <1>f, <2>2
      <3>2. i \in 1 .. n
        BY <2>2, <3>1
      <3> QED
        BY <1>2, <2>2, <3>1, <3>2 DEF RepeatsTogether
    <2> QED
      BY <1>2, <2>1, <2>2, Zenon DEF RepeatsTogether
  <1> QED
    BY <1>1, <1>5, <1>6, <1>7

(* OtaStart, OtaApply and OtaAbort: nothing has to fit. *)
LEMMA CommandInStep ==
  ASSUME Parameters, SessionConsistent, InStep, NumbersAreFresh,
         \/ Start \/ Apply
         \/ (StepRefused \/ StepTimedOut) /\ SendCmd("abort", NoArg)
  PROVE  InStep'
  <1> USE DEF InStep
  <1>a. NoArg \in Args
    BY DEF NoArg, Args
  <1>u. UNCHANGED <<update, total, mcu, cache, running>>
    BY DEF Start, Apply, StepRefused, StepTimedOut, mcuVars
  <1>h. toHost' = toHost \/ (toHost # <<>> /\ toHost' = Tail(toHost))
    BY DEF Start, Apply, StepRefused, StepTimedOut, Succeeded, Answered
  <1>1. ASSUME NEW cmd \in {"start", "apply", "abort"}, NEW arg \in Args, SendCmd(cmd, arg),
               cmd = "start" => update > 0 /\ arg.units[1][1] = update /\ arg.at = total /\ total > 0
        PROVE  InStep'
    <2>1. cmd \in Commands
      BY DEF Commands
    <2>2. \A r \in Requests, n \in Nat :
            r.cmd = cmd /\ r.arg = arg /\ Len(toMcu) = n => Comes(r, n)
      BY DEF Comes
    <2>3. /\ WireFits' /\ RequestFits' /\ RepeatsTogether' /\ ~Granted'
          /\ req'.arg = arg /\ pc' = cmd
      BY <1>1, <1>h, <1>u, <2>1, <2>2, SentInStep
    <2>4. CallerAsks'
      BY <1>1, <1>u, <2>3 DEF CallerAsks
    <2>5. GrantedIsHeld' /\ SizeIsMine'
      BY <2>3 DEF GrantedIsHeld, SizeIsMine
    <2>6. InOrder'
      BY <1>u DEF InOrder
    <2> QED
      BY <2>3, <2>4, <2>5, <2>6
  <1>2. CASE Start
    <2> DEFINE arg == [at |-> total, units |-> Image(update, total)]
    <2>0. total \in Nat /\ total > 0 /\ update \in Nat
      BY <1>2 DEF Start, SessionConsistent, Types, HostTypes
    <2>1. Image(update, total) \in Seq(Units) /\ Image(update, total)[1][1] = update
      BY <2>0, ImageIs
    <2>2. update > 0
      BY <1>2 DEF Start, SessionConsistent, Calls
    <2>3. arg \in Args /\ SendCmd("start", arg) /\ arg.units[1][1] = update /\ arg.at = total
      BY <1>2, <2>0, <2>1 DEF Start, Args
    <2> HIDE DEF arg
    <2> QED
      BY <1>1, <2>0, <2>2, <2>3
  <1>3. CASE Apply
    BY <1>1, <1>3, <1>a DEF Apply
  <1>4. CASE SendCmd("abort", NoArg)
    BY <1>1, <1>4, <1>a
  <1> QED
    BY <1>2, <1>3, <1>4

(* A block of an image is the units of the image from its offset on. *)
LEMMA BlockHolds ==
  ASSUME Parameters, Types, NEW at \in Nat, at < total
  PROVE  /\ EncodeBlock(at) \in Args /\ EncodeBlock(at).at = at
         /\ at + Len(EncodeBlock(at).units) <= total
         /\ \A i \in DOMAIN EncodeBlock(at).units :
              i \in Nat /\ EncodeBlock(at).units[i] = <<update, at + i>>
  <1> DEFINE length == IF total - at < BlockSize THEN total - at ELSE BlockSize
             image == Image(update, total)
             block == SubSeq(image, at + 1, at + length)
  <1>1. length \in Nat \ {0} /\ at + length <= total /\ total \in Nat
    BY DEF Parameters, Types, HostTypes
  <1>2. image \in Seq(Units) /\ Len(image) = total
    BY ImageIs DEF Types, HostTypes
  <1>3. \A i \in 1 .. total : image[i] = <<update, i>>
    BY DEF Image
  <1>4. EncodeBlock(at) = [at |-> at, units |-> block]
    BY DEF EncodeBlock
  <1> HIDE DEF length, image
  <1>5. block \in Seq(Units) /\ Len(block) = length
    BY <1>1, <1>2
  <1>6. \A i \in 1 .. length : block[i] = image[at + 1 + i - 1]
    BY <1>1, <1>2
  <1>7. \A i \in 1 .. length : block[i] = <<update, at + i>>
    <2> TAKE i \in 1 .. length
    <2>1. at + 1 + i - 1 = at + i /\ at + i \in 1 .. total
      BY <1>1
    <2> QED
      BY <1>3, <1>6, <2>1
  <1> HIDE DEF block
  <1>8. DOMAIN block = 1 .. length
    BY <1>1, <1>5
  <1>9. EncodeBlock(at) \in Args /\ EncodeBlock(at).at = at /\ EncodeBlock(at).units = block
    BY <1>4, <1>5 DEF Args
  <1>10. PICK units : units = EncodeBlock(at).units
    OBVIOUS
  <1>11. units = block
    BY <1>9, <1>10
  <1>12. /\ at + Len(units) <= total
         /\ \A i \in DOMAIN units : i \in Nat /\ units[i] = <<update, at + i>>
    <2>1. at + Len(units) <= total
      BY <1>1, <1>5, <1>11
    <2>2. \A i \in 1 .. length : i \in Nat
      BY <1>1
    <2>3. \A i \in DOMAIN block : i \in Nat /\ block[i] = <<update, at + i>>
      BY <1>7, <1>8, <2>2, Zenon
    <2> QED
      BY <1>11, <2>1, <2>3, Zenon
  <1> QED
    BY <1>9, <1>10, <1>12

(* OtaStart or a block was granted: what is sent next fits behind it. *)
LEMMA WriteInStep ==
  ASSUME Parameters, FewFaults, SessionConsistent, Aging, InStep, NumbersAreFresh, WriteNext
  PROVE  InStep'
  <1> USE DEF InStep
  <1>0. Types /\ Calls
    BY DEF SessionConsistent
  <1>u. /\ UNCHANGED <<update, total, mcu, cache, running>>
        /\ pc \in {"start", "write"} /\ pc \in Commands
        /\ toHost' = toHost \/ (toHost # <<>> /\ toHost' = Tail(toHost))
    BY DEF WriteNext, Succeeded, Answered, mcuVars, Commands
  <1>g. Granted
    <2>1. toHost # <<>> => Head(toHost) = toHost[1] /\ 1 \in DOMAIN toHost
      BY <1>0, Tails DEF Types, WireTypes
    <2> QED
      BY <2>1 DEF WriteNext, Succeeded, Answered, AckErrorCode, Granted
  <1>1. req \in Requests /\ req.cmd = pc /\ \A j \in DOMAIN toMcu : toMcu[j] = req
    BY <1>0, <1>g, <1>u, GrantedIsLast DEF Calls
  <1>d. /\ offset' = Done
        /\ IF Done < total THEN SendCmd("write", EncodeBlock(Done)) ELSE SendCmd("verify", NoArg)
    BY Zenon DEF WriteNext, Done
  <1>2. Done \in Nat /\ Done <= total /\ total \in Nat
    <2>1. offset \in Nat /\ total \in Nat /\ Len(req.arg.units) \in Nat
      BY <1>0, <1>1 DEF Types, HostTypes, Requests, Args
    <2>2. CASE pc = "start"
      BY <2>1, <2>2 DEF Done
    <2>3. CASE pc = "write"
      BY <2>1, <2>3 DEF Done, CallerAsks
    <2> QED
      BY <1>u, <2>2, <2>3
  <1>3. /\ Receiving => Holds(Done) /\ mcu.total = total /\ mcu.update = update
        /\ cache.request = req \/ Restarted
        /\ \A i \in DOMAIN toMcu : toMcu[i].cmd = "start" => toMcu[i].arg.at = total
    <2>1. Receiving => Holds(Done)
      BY <1>g, <1>u DEF GrantedIsHeld
    <2>2. Receiving => mcu.total = total
      BY <1>g, <1>u DEF SizeIsMine
    <2>3. Receiving => mcu.update = update
      BY <1>g, <1>u DEF SessionConsistent, SessionIsMine, Receiving
    <2>4. cache.request = req \/ Restarted
      BY <1>g, <1>u DEF GrantedIsHeld
    <2>5. \A i \in DOMAIN toMcu : toMcu[i].cmd = "start" => toMcu[i].arg.at = total
      BY <1>g, <1>u DEF SizeIsMine
    <2> QED
      BY <2>1, <2>2, <2>3, <2>4, <2>5
  <1>n. toMcu \in Seq(Requests)
    BY <1>0 DEF Types, WireTypes
  <1>p. PICK done \in Nat : done = Done
    BY <1>2
  <1>4. ASSUME NEW cmd \in {"write", "verify"}, NEW arg \in Args, SendCmd(cmd, arg),
               \A r \in Requests : r.cmd = cmd /\ r.arg = arg => Fits(r) /\ Opens(req, r),
               cmd = "write" =>
                 /\ arg.at = done /\ done + Len(arg.units) <= total
                 /\ \A i \in DOMAIN arg.units : arg.units[i] = <<update, done + i>>
        PROVE  InStep'
    <2>1. \A r \in Requests, n \in Nat :
            r.cmd = cmd /\ r.arg = arg /\ Len(toMcu) = n => Comes(r, n)
      <3> SUFFICES ASSUME NEW r \in Requests, NEW n \in Nat, r.cmd = cmd, r.arg = arg,
                          Len(toMcu) = n
                   PROVE  Comes(r, n)
        OBVIOUS
      <3>1. \A j \in 1 .. n : toMcu[j] = req
        BY <1>1, <1>n
      <3>2. Fits(r) /\ Opens(req, r)
        BY <1>4
      <3>3. Behind(r, n)
        BY <1>3, <3>1, <3>2, Zenon DEF Behind
      <3> QED
        BY <3>2, <3>3 DEF Comes
    <2>2. cmd \in Commands /\ cmd # "start"
      BY DEF Commands
    <2>3. /\ WireFits' /\ RequestFits' /\ RepeatsTogether' /\ ~Granted'
          /\ req'.arg = arg /\ req'.cmd = cmd /\ pc' = cmd
          /\ \A i \in DOMAIN toMcu' :
               toMcu'[i] = req' \/ \E k \in DOMAIN toMcu : toMcu'[i] = toMcu[k]
      BY <1>4, <1>u, <2>1, <2>2, SentInStep
    <2>4. CallerAsks'
      BY <1>4, <1>d, <1>p, <1>u, <2>3 DEF CallerAsks
    <2>5. GrantedIsHeld'
      BY <2>3 DEF GrantedIsHeld
    <2>6. SizeIsMine'
      <3>1. Receiving' => mcu'.total = total'
        BY <1>3, <1>u DEF Receiving
      <3>2. \A i \in DOMAIN toMcu' : toMcu'[i].cmd = "start" => toMcu'[i].arg.at = total'
        BY <1>3, <1>u, <2>2, <2>3
      <3> QED
        BY <3>1, <3>2 DEF SizeIsMine
    <2>7. InOrder'
      BY <1>u DEF InOrder
    <2> QED
      BY <2>3, <2>4, <2>5, <2>6, <2>7
  <1>5. CASE Done < total
    <2>1. PICK arg \in Args :
            /\ arg = EncodeBlock(done) /\ arg.at = done /\ done + Len(arg.units) <= total
            /\ \A i \in DOMAIN arg.units : i \in Nat /\ arg.units[i] = <<update, done + i>>
      BY <1>0, <1>5, <1>p, BlockHolds
    <2>2. SendCmd("write", arg)
      BY <1>5, <1>d, <1>p, <2>1
    <2>3. ASSUME NEW r \in Requests, r.cmd = "write", r.arg = arg
          PROVE  Fits(r) /\ Opens(req, r)
      <3>1. Fits(r)
        BY <1>3, <1>p, <2>1, <2>3 DEF Fits
      <3>2. Opens(req, r)
        <4> SUFFICES ASSUME req.cmd = "start" PROVE Opens(req, r)
          BY DEF Opens
        <4>1. done = 0 /\ Of(req) = update
          BY <1>0, <1>1, <1>p DEF Done, Calls
        <4>2. \A i \in DOMAIN arg.units : arg.units[i] = <<update, i>>
          <5>1. \A i \in DOMAIN arg.units : done + i = i
            BY <2>1, <4>1
          <5> QED
            BY <2>1, <5>1
        <4> QED
          BY <2>1, <2>3, <4>1, <4>2 DEF Opens
      <3> QED
        BY <3>1, <3>2
    <2> QED
      BY <1>4, <2>1, <2>2, <2>3
  <1>6. CASE ~(Done < total)
    <2>1. Done = total /\ SendCmd("verify", NoArg)
      BY <1>2, <1>6, <1>d
    <2>2. ASSUME NEW r \in Requests, r.cmd = "verify"
          PROVE  Fits(r) /\ Opens(req, r)
      <3>1. Fits(r)
        BY <1>3, <2>1, <2>2 DEF Fits
      <3>2. req.cmd # "start"
        <4>1. pc = "start" => Done = 0 /\ total > 0
          BY DEF Done, CallerAsks
        <4> QED
          BY <1>1, <1>2, <2>1, <4>1
      <3> QED
        BY <3>1, <3>2 DEF Opens
    <2>3. NoArg \in Args
      BY DEF NoArg, Args
    <2> QED
      BY <1>4, <2>1, <2>2, <2>3
  <1> QED
    BY <1>5, <1>6

(* Every step keeps the requests in step with the session. *)
LEMMA NextInStep ==
  ASSUME Parameters, FewFaults, SessionConsistent, Aging, InStep, [Next]_vars, [NumbersAreFresh]_vars
  PROVE  InStep'
  <1>1. CASE UNCHANGED vars
    <2>1. UNCHANGED <<pc, req, update, total, offset, toMcu, toHost, mcu, cache>>
      BY <1>1 DEF vars, hostVars, mcuVars
    <2>2. Granted' = Granted
      BY <2>1 DEF Granted
    <2> QED
      BY <2>1, <2>2, QuietInStep
  <1>2. CASE NumbersAreFresh /\ Next
    <2>1. CASE StepRefused \/ StepTimedOut
      <3>1. UNCHANGED <<mcu, cache>>
        BY <2>1 DEF StepRefused, StepTimedOut, mcuVars
      <3>2. \/ SendCmd("abort", NoArg)
            \/ pc' = "idle" /\ UNCHANGED toMcu
        BY <2>1, Zenon DEF StepRefused, StepTimedOut, Failed
      <3> QED
        BY <1>2, <2>1, <3>1, <3>2, CommandInStep, QuietInStep DEF Commands
    <2>2. CASE BeginUpdate \/ RefuseSize \/ Finish \/ AbortReturns \/ CallbackThrows
      <3>1. UNCHANGED <<mcu, cache, toMcu>> /\ pc' \in {"size", "idle"}
        BY <2>2 DEF BeginUpdate, RefuseSize, Finish, AbortReturns, CallbackThrows, mcuVars
      <3> QED
        BY <3>1, QuietInStep DEF Commands
    <2>3. CASE LoseRequest \/ LoseAnswer \/ StrayAnswer
      <3>1. /\ UNCHANGED <<pc, req, update, total, offset, mcu, cache>>
            /\ toMcu' = toMcu \/ (toMcu # <<>> /\ toMcu' = Tail(toMcu))
            /\ toHost' = toHost \/ (toHost # <<>> /\ toHost' = Tail(toHost))
        BY <2>3 DEF LoseRequest, LoseAnswer, StrayAnswer, hostVars, mcuVars
      <3>2. Granted' => Granted
        <4>1. \A i \in DOMAIN toHost' : \E k \in DOMAIN toHost : toHost'[i] = toHost[k]
          BY <3>1, Tails DEF SessionConsistent, Types, WireTypes
        <4> QED
          BY <3>1, <4>1 DEF Granted
      <3> QED
        BY <3>1, <3>2, QuietInStep
    <2>4. CASE McuReplays
      <3>1. /\ UNCHANGED <<pc, req, update, total, offset, mcu, cache>>
            /\ toMcu # <<>> /\ toMcu' = Tail(toMcu) /\ cache.request = Head(toMcu)
            /\ toHost' = Append(toHost, cache.answer)
        BY <2>4 DEF McuReplays, Listening, hostVars, mcuVars
      <3>2. Granted' => Granted
        <4>0. toHost \in Seq(Answers) /\ toMcu \in Seq(Requests) /\ Numbered
          BY DEF SessionConsistent, Types, WireTypes
        <4>a. Head(toMcu) \in Requests
          BY <3>1, <4>0, Tails
        <4>1. cache.request # NoRequest
          BY <3>1, <4>a DEF Requests, NoRequest, Commands
        <4>2. /\ cache.answer \in Answers /\ cache.answer.seq = cache.request.seq
              /\ cache.request.seq = req.seq => cache.request = req
          BY <4>0, <4>1 DEF Numbered
        <4>3. \A i \in DOMAIN toHost' :
                toHost'[i] = cache.answer \/ (i \in DOMAIN toHost /\ toHost'[i] = toHost[i])
          BY <3>1, <4>0, <4>2, Appends
        <4> QED
          BY <3>1, <4>2, <4>3 DEF Granted
      <3> QED
        BY <3>1, <3>2, QuietInStep
    <2> QED
      BY <1>2, <2>1, <2>2, <2>3, <2>4, CommandInStep, WriteInStep, RetryInStep, ServeInStep,
         RestartInStep
      DEF Next, HostNext, McuNext
  <1> QED
    BY <1>1, <1>2

(* A late or repeated request never puts the session in error: the repeats of
   ota.cpp:58 are not taken for new blocks. *)
THEOREM RetriesAreNeverBlocks ==
  ASSUME Parameters, FewFaults
  PROVE  Spec => []RetriesAreNotBlocks
  <1>1. Init => SessionConsistent /\ Aging /\ InStep
    BY InitConsistent, InitAging, InitInStep
  <1>2. SessionConsistent /\ Aging /\ [Next]_vars => Aging' /\ [NumbersAreFresh]_vars
    BY NextAging
  <1>3. SessionConsistent /\ [Next]_vars /\ [NumbersAreFresh]_vars => SessionConsistent'
    BY NextConsistent
  <1>4. SessionConsistent /\ Aging /\ InStep /\ [Next]_vars /\ [NumbersAreFresh]_vars => InStep'
    BY NextInStep
  <1>5. InStep => RetriesAreNotBlocks
    BY DEF InStep, InOrder, RetriesAreNotBlocks
  <1> QED
    BY <1>1, <1>2, <1>3, <1>4, <1>5, PTL DEF Spec

=============================================================================
