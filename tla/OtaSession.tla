----------------------------- MODULE OtaSession -----------------------------
(***************************************************************************)
(* OtaSession (ota.hpp, ota.cpp): the firmware of a gripper's MCU written  *)
(* over the wire.  update_from_bytes() sends OtaStart, the blocks in       *)
(* order, OtaVerify and OtaApply, one command at a time and each repeated  *)
(* with its own sequence number when no answer came; a step that fails is  *)
(* followed by OtaAbort.  The MCU is external: it is what ota.hpp, the     *)
(* payloads and the tests say of it, a session that wants its blocks in    *)
(* order and answers a byte-identical repeat from a cache of one request.  *)
(* Requests and answers may be lost, an answer may be late, the MCU may    *)
(* fail to write or lose its power; at most MaxFaults of these happen.     *)
(***************************************************************************)
EXTENDS Integers, Sequences

CONSTANTS
  MaxUpdates,   \* calls of update_from_bytes() made one after the other
  Sizes,        \* the sizes of the images, in units of the model
  BlockSize,    \* OTA_BLOCK_SIZE, in the same units
  MaxSize,      \* OTA_MAX_FW_SIZE
  MaxRetries,   \* Transport::Config::max_retries
  SeqRange,     \* sequence numbers are drawn modulo this
  MaxFaults     \* bound on the faults of the wire and of the MCU

VARIABLES
  pc,       \* the step of update_from_bytes(): "idle", "size", or the command waited for
  update,   \* the update under way, or the last one; 0 before the first
  total,    \* its size
  offset,   \* units acknowledged
  req,      \* the request last sent: [seq, cmd, arg]
  attempt,  \* how often it was sent again
  told,     \* what the caller was told last
  toMcu,    \* requests on the wire
  toHost,   \* answers on the wire
  mcu,      \* the MCU's session: [state, update, total, flash]
  cache,    \* the request the MCU answered last, and its answer
  running,  \* the update whose image the MCU runs, 0 for the one it came with
  faults    \* faults so far

hostVars == <<pc, update, total, offset, req, attempt, told>>
mcuVars == <<mcu, cache, running>>
vars == <<hostVars, toMcu, toHost, mcuVars, faults>>

NoArg == [at |-> 0, units |-> <<>>]
NoRequest == [seq |-> 0, cmd |-> "none", arg |-> NoArg]
NoAnswer == [seq |-> 0, cmd |-> "none", nack |-> FALSE, code |-> "ok"]
NoSession == [state |-> "idle", update |-> 0, total |-> 0, flash |-> <<>>]

(* The content of an image, unit by unit: no two images share one. *)
Image(u, n) == [i \in 1 .. n |-> <<u, i>>]

(* The payload of OtaWriteBlock: the offset and at most BlockSize units of *)
(* the image from there on, fewer in the last block.                       *)
EncodeBlock(at) ==
  LET length == IF total - at < BlockSize THEN total - at ELSE BlockSize
  IN [at |-> at, units |-> SubSeq(Image(update, total), at + 1, at + length)]

(* Mutant: only a NACK is taken for an error. *)
AckErrorCodeOfNack(answer) == IF answer.nack THEN answer.code ELSE "ok"

(* What an answer says: a dispatch failure comes as a NACK, the error of a *)
(* handler as a payload of one byte under the command's own name.          *)
AckErrorCode(answer) == answer.code

-----------------------------------------------------------------------------
(* The wire and the transport's part: send_cmd() with RetryMode::SameSeq.  *)

InFlight ==
  \/ \E i \in DOMAIN toMcu : toMcu[i] = req
  \/ \E i \in DOMAIN toHost : toHost[i].seq = req.seq /\ toHost[i].cmd = req.cmd

(* A new command: a fresh sequence number, first attempt. *)
SendCmd(cmd, arg) ==
  LET r == [seq |-> (req.seq + 1) % SeqRange, cmd |-> cmd, arg |-> arg]
  IN /\ pc' = cmd
     /\ req' = r
     /\ attempt' = 0
     /\ toMcu' = Append(toMcu, r)

(* A fault of the environment, counted. *)
Fault ==
  /\ faults < MaxFaults
  /\ faults' = faults + 1

(* The wait for the answer ends: nothing is on its way, or it is late. *)
TimedOut ==
  /\ req.cmd = pc
  /\ IF InFlight THEN Fault ELSE UNCHANGED faults

(* The request of the next attempt: byte for byte the last one. *)
RepeatedRequest(r) == r

Retry ==
  /\ TimedOut
  /\ attempt < MaxRetries
  /\ attempt' = attempt + 1
  /\ req' = RepeatedRequest(req)
  /\ toMcu' = Append(toMcu, RepeatedRequest(req))
  /\ UNCHANGED <<pc, update, total, offset, told, toHost, mcuVars>>

LoseRequest ==
  /\ toMcu # <<>>
  /\ Fault
  /\ toMcu' = Tail(toMcu)
  /\ UNCHANGED <<hostVars, toHost, mcuVars>>

LoseAnswer ==
  /\ toHost # <<>>
  /\ Fault
  /\ toHost' = Tail(toHost)
  /\ UNCHANGED <<hostVars, toMcu, mcuVars>>

(* An answer nobody waits for any more. *)
StrayAnswer ==
  /\ toHost # <<>>
  /\ ~(Head(toHost).seq = req.seq /\ Head(toHost).cmd = req.cmd /\ pc = req.cmd)
  /\ toHost' = Tail(toHost)
  /\ UNCHANGED <<hostVars, toMcu, mcuVars, faults>>

-----------------------------------------------------------------------------
(* update_from_bytes() *)

BeginUpdate ==
  /\ pc = "idle"
  /\ update < MaxUpdates
  /\ update' = update + 1
  /\ \E n \in Sizes : total' = n
  /\ offset' = 0
  /\ told' = "pending"
  /\ pc' = "size"
  /\ UNCHANGED <<req, attempt, toMcu, toHost, mcuVars, faults>>

(* An empty image and one beyond the bank are refused before anything is sent. *)
RefuseSize ==
  /\ pc = "size"
  /\ total = 0 \/ total > MaxSize
  /\ pc' = "idle"
  /\ told' = "failed"
  /\ UNCHANGED <<update, total, offset, req, attempt, toMcu, toHost, mcuVars, faults>>

Start ==
  /\ pc = "size"
  /\ total \in 1 .. MaxSize
  /\ SendCmd("start", [at |-> total, units |-> Image(update, total)])
  /\ UNCHANGED <<update, total, offset, told, toHost, mcuVars, faults>>

(* The answer of the request under way is taken from the wire. *)
Answered ==
  /\ toHost # <<>>
  /\ Head(toHost).seq = req.seq
  /\ Head(toHost).cmd = req.cmd
  /\ pc = req.cmd
  /\ toHost' = Tail(toHost)

Succeeded == Answered /\ AckErrorCode(Head(toHost)) = "ok"

(* OtaStart or a block was acknowledged: the next block, or OtaVerify when *)
(* the image is through.                                                   *)
WriteNext ==
  /\ Succeeded
  /\ pc \in {"start", "write"}
  /\ LET done == IF pc = "start" THEN 0 ELSE offset + Len(req.arg.units)
     IN /\ offset' = done
        /\ IF done < total
           THEN SendCmd("write", EncodeBlock(done))
           ELSE SendCmd("verify", NoArg)
  /\ UNCHANGED <<update, total, told, mcuVars, faults>>

Apply ==
  /\ Succeeded
  /\ pc = "verify"
  /\ SendCmd("apply", NoArg)
  /\ UNCHANGED <<update, total, offset, told, mcuVars, faults>>

(* update_from_bytes() returns. *)
Finish ==
  /\ Succeeded
  /\ pc = "apply"
  /\ pc' = "idle"
  /\ told' = "ok"
  /\ UNCHANGED <<update, total, offset, req, attempt, toMcu, mcuVars, faults>>

(* Mutant: an update that could not start is not aborted. *)
AfterFailureUnlessStarted(step) == IF step \in {"write", "verify"} THEN "abort" ELSE "idle"

(* What follows a step that threw: OtaAbort, except after OtaApply. *)
AfterFailure(step) == IF step \in {"start", "write", "verify"} THEN "abort" ELSE "idle"

Failed(step) ==
  IF AfterFailure(step) = "abort"
  THEN SendCmd("abort", NoArg) /\ UNCHANGED told
  ELSE pc' = "idle" /\ told' = "failed" /\ UNCHANGED <<req, attempt, toMcu>>

(* The step's answer is an error. *)
StepRefused ==
  /\ Answered
  /\ AckErrorCode(Head(toHost)) # "ok"
  /\ pc # "abort"
  /\ Failed(pc)
  /\ UNCHANGED <<update, total, offset, mcuVars, faults>>

(* Every attempt went unanswered: send_cmd() throws TimeoutError. *)
StepTimedOut ==
  /\ TimedOut
  /\ pc # "abort"
  /\ attempt = MaxRetries
  /\ Failed(pc)
  /\ UNCHANGED <<update, total, offset, toHost, mcuVars>>

(* abort() swallows whatever it meets; the first exception is rethrown. *)
AbortReturns ==
  /\ pc = "abort"
  /\ \/ Answered /\ UNCHANGED faults
     \/ TimedOut /\ attempt = MaxRetries /\ UNCHANGED toHost
  /\ pc' = "idle"
  /\ told' = "failed"
  /\ UNCHANGED <<update, total, offset, req, attempt, toMcu, mcuVars>>

(* The caller's progress callback throws, after a block: nothing is caught and
   no OtaAbort is sent. *)
CallbackThrows ==
  /\ Succeeded
  /\ pc = "write"
  /\ Fault
  /\ offset' = offset + Len(req.arg.units)
  /\ pc' = "idle"
  /\ told' = "failed"
  /\ UNCHANGED <<update, total, req, attempt, toMcu, mcuVars>>

-----------------------------------------------------------------------------
(* The MCU (external). *)

Broken == [mcu EXCEPT !.state = "error"]

Reply(r, isNack, code) ==
  LET answer == [seq |-> r.seq, cmd |-> r.cmd, nack |-> isNack, code |-> code]
  IN /\ toMcu' = Tail(toMcu)
     /\ toHost' = Append(toHost, answer)
     /\ cache' = [request |-> r, answer |-> answer]

Accept(r, session) == mcu' = session /\ Reply(r, FALSE, "ok")
Refuse(r, code) == mcu' = mcu /\ Reply(r, FALSE, code)
Break(r, code) == mcu' = Broken /\ Reply(r, FALSE, code)

(* Its handlers.  A session in error stays so until OtaAbort; a block that is *)
(* not the next one fails it.                                                 *)
HandlesStart(r) ==
  /\ r.cmd = "start"
  /\ IF mcu.state = "idle"
     THEN Accept(r, [state |-> "started", update |-> r.arg.units[1][1],
                     total |-> r.arg.at, flash |-> <<>>])
     ELSE Refuse(r, "busy")

HandlesWrite(r) ==
  /\ r.cmd = "write"
  /\ IF mcu.state \notin {"started", "receiving"} THEN Refuse(r, "not started")
     ELSE IF r.arg.at # Len(mcu.flash) THEN Break(r, "offset")
     ELSE Accept(r, [mcu EXCEPT !.state = "receiving", !.flash = @ \o r.arg.units])

HandlesVerify(r) ==
  /\ r.cmd = "verify"
  /\ IF mcu.state # "receiving" THEN Refuse(r, "not started")
     ELSE IF mcu.flash # Image(mcu.update, mcu.total) THEN Break(r, "verify")
     ELSE Accept(r, [mcu EXCEPT !.state = "verified"])

HandlesApply(r) ==
  /\ r.cmd = "apply"
  /\ IF mcu.state # "verified" THEN Refuse(r, "not started")
     ELSE Accept(r, [mcu EXCEPT !.state = "applying"])

HandlesAbort(r) == r.cmd = "abort" /\ Accept(r, NoSession)

(* It hears nothing more once the bank swap has begun. *)
Listening == toMcu # <<>> /\ mcu.state # "applying"

(* The MCU takes a request: a repeat of the last one is answered from the cache. *)
McuHandles ==
  /\ Listening
  /\ Head(toMcu) # cache.request
  /\ \/ HandlesStart(Head(toMcu)) \/ HandlesWrite(Head(toMcu)) \/ HandlesVerify(Head(toMcu))
     \/ HandlesApply(Head(toMcu)) \/ HandlesAbort(Head(toMcu))
  /\ UNCHANGED <<hostVars, running, faults>>

McuReplays ==
  /\ Listening
  /\ Head(toMcu) = cache.request
  /\ toMcu' = Tail(toMcu)
  /\ toHost' = Append(toHost, cache.answer)
  /\ UNCHANGED <<hostVars, mcuVars, faults>>

(* A block that cannot be written, and a request that is not dispatched. *)
McuFails ==
  /\ Listening
  /\ Head(toMcu) # cache.request
  /\ Fault
  /\ \/ /\ Head(toMcu).cmd = "write"
        /\ mcu.state \in {"started", "receiving"}
        /\ Break(Head(toMcu), "flash")
     \/ UNCHANGED mcu /\ Reply(Head(toMcu), TRUE, "invalid")
  /\ UNCHANGED <<hostVars, running>>

(* The bank is swapped and the MCU starts the new image. *)
McuReboots ==
  /\ mcu.state = "applying"
  /\ running' = mcu.update
  /\ mcu' = NoSession
  /\ cache' = [request |-> NoRequest, answer |-> NoAnswer]
  /\ toMcu' = <<>>
  /\ UNCHANGED <<hostVars, toHost, faults>>

(* The power fails before the swap: the session and the cache are gone. *)
McuLosesPower ==
  /\ mcu.state # "applying"
  /\ mcu # NoSession
  /\ Fault
  /\ mcu' = NoSession
  /\ cache' = [request |-> NoRequest, answer |-> NoAnswer]
  /\ toMcu' = <<>>
  /\ UNCHANGED <<hostVars, toHost, running>>

-----------------------------------------------------------------------------
Init ==
  /\ pc = "idle"
  /\ update = 0
  /\ total = 0
  /\ offset = 0
  /\ req = NoRequest
  /\ attempt = 0
  /\ told = "none"
  /\ toMcu = <<>>
  /\ toHost = <<>>
  /\ mcu = NoSession
  /\ cache = [request |-> NoRequest, answer |-> NoAnswer]
  /\ running = 0
  /\ faults = 0

HostNext ==
  \/ BeginUpdate \/ RefuseSize \/ Start \/ WriteNext \/ Apply \/ Finish
  \/ StepRefused \/ StepTimedOut \/ AbortReturns \/ Retry \/ StrayAnswer

McuNext == McuHandles \/ McuReplays \/ McuReboots

Next ==
  \/ HostNext \/ CallbackThrows \/ LoseRequest \/ LoseAnswer
  \/ McuNext \/ McuFails \/ McuLosesPower

(* The thread that calls, the reader and the MCU go on; faults never must happen. *)
Fairness == WF_vars(HostNext) /\ WF_vars(McuNext)

Spec == Init /\ [][Next]_vars /\ Fairness

-----------------------------------------------------------------------------
TypeOK ==
  /\ pc \in {"idle", "size", "start", "write", "verify", "apply", "abort"}
  /\ update \in 0 .. MaxUpdates
  /\ offset \in 0 .. total
  /\ attempt \in 0 .. MaxRetries
  /\ told \in {"none", "pending", "ok", "failed"}
  /\ mcu.state \in {"idle", "started", "receiving", "verified", "applying", "error"}
  /\ running \in 0 .. MaxUpdates
  /\ faults \in 0 .. MaxFaults

(* The wire is served in order and no answer outlives SeqRange requests, so a
   session that never met a fault of the MCU itself is never put in error by
   lost or late answers: the retries of ota.cpp:58 are not taken for new
   blocks.  An MCU that failed to write says so in its cached answer. *)
RetriesAreNotBlocks ==
  mcu.state = "error" => cache.answer.code \notin {"offset", "verify"}

(* No number is drawn again while a request or an answer that bears it is on
   the wire, or is the one the MCU remembers. *)
NumbersAreFresh ==
  req' # req =>
    /\ \A i \in DOMAIN toMcu : toMcu[i].seq # req'.seq
    /\ \A i \in DOMAIN toHost : toHost[i].seq # req'.seq
    /\ cache.request # NoRequest => cache.request.seq # req'.seq

(* One failed update costs at most the next one: whatever step it failed at,
   the session it left behind is cleared by the OtaAbort of the update that
   meets it, so of as many calls with images that fit one succeeds. *)
UpdateSucceeds == <>(told = "ok") \/ <>(pc = "size" /\ total \notin 1 .. MaxSize)

(* The update as its caller sees it.  The bank swap is the point of no return:
   from the answer to OtaApply on the MCU counts as running the new image. *)
Caller == INSTANCE AtomicUpdate WITH
  Updates <- 1 .. MaxUpdates,
  Old <- 0,
  None <- -1,
  MayErase <- FALSE,
  running <- IF mcu.state = "applying" THEN mcu.update ELSE running,
  offered <- 1 .. update,
  current <- update

(* OtaSession implements AtomicUpdate: the MCU only ever runs a whole image it
   was offered, and update_from_bytes() returns only when it is that one. *)
Implements == Caller!Spec

=============================================================================
