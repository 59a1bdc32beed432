------------------------- MODULE TransportRequests -------------------------
(***************************************************************************)
(* The request side of bus::Transport: send_cmd() and send_cmd_no_ack()    *)
(* called from several threads, the reader thread that matches ACK frames  *)
(* to pending promises, the half-duplex turn, the reader's I/O failure and *)
(* stop().  One action is one critical section of the code (pending_mu_,   *)
(* the turn, or one write), so every interleaving of threads that the      *)
(* locks allow is a behaviour of the model.                                *)
(*                                                                         *)
(* The MCU and the wire are external: frames may be lost, answered in any  *)
(* order, or answered after the caller gave up.                            *)
(*                                                                         *)
(* A definition whose comment begins with "Mutant" is used by no other: it *)
(* stands for a plausible mistake in the definition after it, and shows    *)
(* that a property of the runs would notice.                               *)
(***************************************************************************)
EXTENDS Integers, FiniteSets

CONSTANTS
  Senders,     (* threads calling send_cmd / send_cmd_no_ack               *)
  Cmds,        (* command bytes (0 excluded: it marks the short ACK form)  *)
  NumSeqs,     (* size of the sequence space; 256 in the code              *)
  MaxRetries,  (* Config::max_retries                                      *)
  CallModes,   (* the modes callers use, a subset of Modes                 *)
  LinkCap,     (* bound: frames travelling in one direction                *)
  None         (* no sender, no promise, no result                         *)

ASSUME SendersAssumption == IsFiniteSet(Senders) /\ None \notin Senders
ASSUME NumSeqsAssumption == NumSeqs \in Nat \ {0}
ASSUME RetriesAssumption == MaxRetries \in Nat
ASSUME LinkAssumption == LinkCap \in Nat

Seqs == 0 .. NumSeqs - 1

(* RetryMode; "NoAck" is a send_cmd_no_ack() call.                         *)
Modes == {"NewSeq", "SameSeq", "Once", "NoAck"}
ASSUME ModesAssumption == CallModes \subseteq Modes

(* How far a call has come; one value per lock or wait of send_cmd().      *)
Points == {"idle", "reserve", "turn", "lock", "write", "wait", "expire", "sleep", "finish"}

(* What a promise is resolved with: set_value, NackError, IoError.         *)
Answers == {"ok", "nack", "io"}

(* The two response forms of the firmware: the command echoed, or command  *)
(* byte 0 with one error byte (0 = OK).                                    *)
ReplyForms == {"echo", "short_ok", "short_nack"}

Old == "old"   \* origin of a frame whose call is over

VARIABLES
  running,     (* running_                                                 *)
  reader,      (* reader_: "loop", "failing" (I/O error), "exited"         *)
  stopper,     (* stop(): "no", "joining", "done"                          *)
  halfDuplex,  (* half_duplex_                                             *)
  turn,        (* owner of half_duplex_mu_                                 *)
  nextSeq,     (* next_seq_                                                *)
  reserved,    (* indices set in reserved_seqs_                            *)
  pending,     (* pending_acks_: seq -> sender whose promise is there      *)
  hand,        (* promise the reader moved out and has not resolved yet    *)
  pc,          (* where each sender is                                     *)
  call,        (* the locals of its send_cmd()                             *)
  fut,         (* state of the future of its current attempt               *)
  toMcu,       (* request frames on the wire                               *)
  fromMcu      (* response frames on the wire                              *)

linkVars == <<toMcu, fromMcu>>
seqVars  == <<nextSeq, reserved, pending>>
modeVars == <<running, reader, stopper, halfDuplex>>
vars == <<running, reader, stopper, halfDuplex, turn, nextSeq, reserved,
          pending, hand, pc, call, fut, toMcu, fromMcu>>

Calls == [cmd : Cmds \cup {None}, mode : Modes, seq : Seqs, held : BOOLEAN,
          attempt : Nat]
NoCall == [cmd |-> None, mode |-> "Once", seq |-> 0, held |-> FALSE, attempt |-> 0]

(* cmd and origin: what the answer echoes and whose request it answers     *)
(* (history fields: no action reads them).                                 *)
Futures == [state : Answers \cup {"none", "waiting"}, cmd : Cmds \cup {None},
            origin : Senders \cup {Old, None}]
NoFuture == [state |-> "none", cmd |-> None, origin |-> None]
Waiting  == [state |-> "waiting", cmd |-> None, origin |-> None]

Requests  == [seq : Seqs, cmd : Cmds \cup {None}, needAck : BOOLEAN,
              origin : Senders \cup {Old}]
Responses == [seq : Seqs, cmd : Cmds \cup {None}, form : ReplyForms,
              origin : Senders \cup {Old}]

(* owner None: the attempt that owned the promise has dropped its future.  *)
Hands == [owner : Senders \cup {None}, answer : {"ok", "nack"}, cmd : Cmds \cup {None},
          origin : Senders \cup {Old}]
NoHand == [owner |-> None, answer |-> None, cmd |-> None, origin |-> None]

---------------------------------------------------------------------------
(* Helpers *)

(* Attempts a call may make: RetryMode::Once ignores max_retries.          *)
RetriesOf(s) == IF call[s].mode \in {"Once", "NoAck"} THEN 0 ELSE MaxRetries

(* next_seq_++ wraps on its own width (uint8_t).                           *)
NextAfter(q) == (q + 1) % NumSeqs

(* Mutant: the counter is trusted, as if no slot could still be in use.    *)
FirstFreeUnreserved(q) == q = nextSeq

(* allocate_seq_locked_(): q is the first slot that is not reserved,       *)
(* scanning cyclically from next_seq_.                                     *)
FirstFree(q) ==
  \E i \in 0 .. NumSeqs - 1 :
    /\ q = (nextSeq + i) % NumSeqs
    /\ q \notin reserved
    /\ \A j \in 0 .. i - 1 : (nextSeq + j) % NumSeqs \in reserved

(* Assumed of the link: a frame has left it when its sequence number is    *)
(* drawn again, NumSeqs numbers later.                                     *)
Forget(q) ==
  /\ toMcu' = { f \in toMcu : f.seq # q }
  /\ fromMcu' = { r \in fromMcu : r.seq # q }

(* A frame put on a full link is lost.                                     *)
Sent(frames, f) == IF Cardinality(frames) < LinkCap THEN frames \cup {f} ELSE frames

(* The frames of s's finished call keep travelling, but belong to no call. *)
Disowned(frames, s) == { IF f.origin = s THEN [f EXCEPT !.origin = Old] ELSE f : f \in frames }

(* The attempt's future goes out of scope: a promise the reader still      *)
(* holds resolves nothing.                                                 *)
DropFuture(s) ==
  /\ fut' = [fut EXCEPT ![s] = NoFuture]
  /\ IF hand.owner = s
     THEN hand' = [owner |-> None, answer |-> hand.answer, cmd |-> hand.cmd,
                   origin |-> hand.origin]
     ELSE UNCHANGED hand

(* release(): erase the entry if it is this attempt's, clear the slot.     *)
Release(s) ==
  IF call[s].held
  THEN /\ pending' = [pending EXCEPT ![call[s].seq] = IF @ = s THEN None ELSE @]
       /\ reserved' = reserved \ {call[s].seq}
  ELSE UNCHANGED <<pending, reserved>>

(* Turn's destructor or unlock(): only an owner releases.                  *)
ReleaseTurn(s) == turn' = IF turn = s THEN None ELSE turn

(* fail_pending_(): every promise in the map gets an IoError.              *)
FailPending ==
  /\ fut' = [s \in Senders |->
               IF \E q \in Seqs : pending[q] = s
               THEN [state |-> "io", cmd |-> None, origin |-> None] ELSE fut[s]]
  /\ pending' = [q \in Seqs |-> None]

---------------------------------------------------------------------------
Init ==
  /\ running = TRUE
  /\ reader = "loop"
  /\ stopper = "no"
  /\ halfDuplex = FALSE
  /\ turn = None
  /\ nextSeq = 0
  /\ reserved = {}
  /\ pending = [q \in Seqs |-> None]
  /\ hand = NoHand
  /\ pc = [s \in Senders |-> "idle"]
  /\ call = [s \in Senders |-> NoCall]
  /\ fut = [s \in Senders |-> NoFuture]
  /\ toMcu = {}
  /\ fromMcu = {}

---------------------------------------------------------------------------
(* The calling threads *)

(* send_cmd() / send_cmd_no_ack() is called.                               *)
StartCall(s) ==
  /\ pc[s] = "idle"
  /\ \E c \in Cmds, m \in CallModes :
       call' = [call EXCEPT ![s] = [cmd |-> c, mode |-> m, seq |-> 0, held |-> FALSE, attempt |-> 0]]
  /\ pc' = [pc EXCEPT ![s] = "reserve"]
  /\ UNCHANGED <<modeVars, turn, seqVars, hand, fut, linkVars>>

(* The attempt is left by return or by exception; release() is next.       *)
Leave(s) == pc' = [pc EXCEPT ![s] = "finish"]

(* Under pending_mu_ on a stopped transport.                               *)
ReserveStopped(s) ==
  /\ pc[s] = "reserve"
  /\ ~running
  /\ Leave(s)
  /\ UNCHANGED <<modeVars, turn, seqVars, hand, call, fut, linkVars>>

(* Under pending_mu_: all slots are reserved, EBUSY.                       *)
ReserveBusy(s) ==
  /\ pc[s] = "reserve"
  /\ running
  /\ ~call[s].held
  /\ Seqs \subseteq reserved
  /\ Leave(s)
  /\ UNCHANGED <<modeVars, turn, seqVars, hand, call, fut, linkVars>>

(* Under pending_mu_: reserve a sequence number and publish a promise.     *)
(* send_cmd_no_ack() only draws a number: no reservation, no promise.      *)
ReserveNew(s) ==
  /\ pc[s] = "reserve"
  /\ running
  /\ ~call[s].held
  /\ \E q \in Seqs :
       /\ FirstFree(q)
       /\ nextSeq' = NextAfter(q)
       /\ LET acked == call[s].mode # "NoAck" IN
          /\ call' = [call EXCEPT ![s].seq = q, ![s].held = acked]
          /\ reserved' = IF acked THEN reserved \cup {q} ELSE reserved
          /\ pending' = IF acked THEN [pending EXCEPT ![q] = s] ELSE pending
          /\ fut' = IF acked THEN [fut EXCEPT ![s] = Waiting] ELSE fut
       /\ Forget(q)
  /\ pc' = [pc EXCEPT ![s] = "turn"]
  /\ UNCHANGED <<modeVars, turn, hand>>

(* Mutant: a retry does not look at running_ again.                        *)
ReserveAgainUnchecked(s) ==
  /\ pc[s] = "reserve"
  /\ call[s].held
  /\ pending' = [pending EXCEPT ![call[s].seq] = s]
  /\ fut' = [fut EXCEPT ![s] = Waiting]
  /\ pc' = [pc EXCEPT ![s] = "turn"]
  /\ UNCHANGED <<modeVars, turn, nextSeq, reserved, hand, call, linkVars>>

(* Under pending_mu_: a SameSeq retry publishes a new promise in the slot  *)
(* it kept.                                                                *)
ReserveAgain(s) ==
  /\ pc[s] = "reserve"
  /\ running
  /\ call[s].held
  /\ pending' = [pending EXCEPT ![call[s].seq] = s]
  /\ fut' = [fut EXCEPT ![s] = Waiting]
  /\ pc' = [pc EXCEPT ![s] = "turn"]
  /\ UNCHANGED <<modeVars, turn, nextSeq, reserved, hand, call, linkVars>>

(* half_duplex_turn_(): whether a turn is needed is decided here.          *)
ReadHalfDuplex(s) ==
  /\ pc[s] = "turn"
  /\ pc' = [pc EXCEPT ![s] = IF halfDuplex THEN "lock" ELSE "write"]
  /\ UNCHANGED <<modeVars, turn, seqVars, hand, call, fut, linkVars>>

(* half_duplex_turn_(): try_lock_for() gets the turn.                      *)
TakeTurn(s) ==
  /\ pc[s] = "lock"
  /\ turn = None
  /\ turn' = s
  /\ pc' = [pc EXCEPT ![s] = "write"]
  /\ UNCHANGED <<modeVars, seqVars, hand, call, fut, linkVars>>

(* half_duplex_turn_(): try_lock_for() timed out; there is no retry.       *)
TurnTimeout(s) ==
  /\ pc[s] = "lock"
  /\ turn # None
  /\ Leave(s)
  /\ UNCHANGED <<modeVars, turn, seqVars, hand, call, fut, linkVars>>

(* write_frame_(): the frame leaves; a CMD_NO_ACK call is over.            *)
Write(s) ==
  /\ pc[s] = "write"
  /\ LET acked == call[s].mode # "NoAck" IN
     /\ toMcu' = Sent(toMcu, [seq |-> call[s].seq, cmd |-> call[s].cmd, needAck |-> acked,
                              origin |-> s])
     /\ pc' = [pc EXCEPT ![s] = IF acked THEN "wait" ELSE "idle"]
     /\ IF acked THEN UNCHANGED <<call, turn>>
        ELSE call' = [call EXCEPT ![s] = NoCall] /\ ReleaseTurn(s)
  /\ UNCHANGED <<modeVars, seqVars, hand, fut, fromMcu>>

(* Mutant: a failed write leaves the turn taken.                           *)
WriteFailsKeepsTurn(s) ==
  /\ pc[s] = "write"
  /\ Leave(s)
  /\ UNCHANGED <<modeVars, turn, seqVars, hand, call, fut, linkVars>>

(* serial_.write() throws; the Turn unwinds before release().              *)
WriteFails(s) ==
  /\ pc[s] = "write"
  /\ Leave(s)
  /\ ReleaseTurn(s)
  /\ UNCHANGED <<modeVars, seqVars, hand, call, fut, linkVars>>

(* fut.wait_for() returned ready; fut.get() returns or throws.             *)
Answered(s) ==
  /\ pc[s] = "wait"
  /\ fut[s].state \in Answers
  /\ Leave(s)
  /\ ReleaseTurn(s)
  /\ UNCHANGED <<modeVars, seqVars, hand, call, fut, linkVars>>

(* Mutant: the wait has no timeout.                                        *)
WaitForever(s) == FALSE

(* fut.wait_for() timed out.                                               *)
WaitTimeout(s) ==
  /\ pc[s] = "wait"
  /\ fut[s].state = "waiting"
  /\ pc' = [pc EXCEPT ![s] = "expire"]
  /\ ReleaseTurn(s)
  /\ UNCHANGED <<modeVars, seqVars, hand, call, fut, linkVars>>

(* Mutant: the timed-out attempt leaves its promise registered.            *)
ExpireKeepsPromise(s) ==
  /\ pc[s] = "expire"
  /\ IF call[s].attempt < RetriesOf(s)
     THEN pc' = [pc EXCEPT ![s] = "sleep"]
     ELSE Leave(s)
  /\ DropFuture(s)
  /\ UNCHANGED <<modeVars, turn, seqVars, call, linkVars>>

(* Under pending_mu_: take this attempt's promise back, then sleep before  *)
(* the next attempt or give up.                                            *)
Expire(s) ==
  /\ pc[s] = "expire"
  /\ pending' = [pending EXCEPT ![call[s].seq] = IF @ = s THEN None ELSE @]
  /\ IF call[s].attempt < RetriesOf(s)
     THEN pc' = [pc EXCEPT ![s] = "sleep"]
     ELSE Leave(s)
  /\ DropFuture(s)
  /\ UNCHANGED <<modeVars, turn, nextSeq, reserved, call, linkVars>>

(* Mutant: every retry gives its slot up, but SameSeq goes on using it.    *)
RetryFreesSlot(s) ==
  /\ pc[s] = "sleep"
  /\ pc' = [pc EXCEPT ![s] = "reserve"]
  /\ Release(s)
  /\ call' = [call EXCEPT ![s].held = call[s].mode # "NewSeq", ![s].attempt = @ + 1]
  /\ UNCHANGED <<modeVars, turn, nextSeq, hand, fut, linkVars>>

(* Next attempt: NewSeq gives its slot up first, in a lock of its own.     *)
Retry(s) ==
  /\ pc[s] = "sleep"
  /\ pc' = [pc EXCEPT ![s] = "reserve"]
  /\ IF call[s].mode = "NewSeq"
     THEN /\ Release(s)
          /\ call' = [call EXCEPT ![s].held = FALSE, ![s].attempt = @ + 1]
     ELSE /\ UNCHANGED <<pending, reserved>>
          /\ call' = [call EXCEPT ![s].attempt = @ + 1]
  /\ UNCHANGED <<modeVars, turn, nextSeq, hand, fut, linkVars>>

(* release() on the way out, by return or by exception.                    *)
Finish(s) ==
  /\ pc[s] = "finish"
  /\ Release(s)
  /\ DropFuture(s)
  /\ call' = [call EXCEPT ![s] = NoCall]
  /\ pc' = [pc EXCEPT ![s] = "idle"]
  /\ toMcu' = Disowned(toMcu, s)
  /\ fromMcu' = Disowned(fromMcu, s)
  /\ UNCHANGED <<modeVars, turn, nextSeq>>

---------------------------------------------------------------------------
(* The reader thread and stop() *)

(* handle_ack_() accepts a frame for the promise under its sequence number *)
(* if the command is echoed, or in the one-byte short form.                *)
Accepts(r) ==
  /\ pending[r.seq] # None
  /\ r.form = "echo" => r.cmd = call[pending[r.seq]].cmd

(* handle_ack_(), under pending_mu_: move the promise out, or drop a stray *)
(* frame.                                                                  *)
MatchAck ==
  /\ reader = "loop"
  /\ hand = NoHand
  /\ \E r \in fromMcu :
       /\ fromMcu' = fromMcu \ {r}
       /\ IF Accepts(r)
          THEN /\ hand' = [owner |-> pending[r.seq],
                           answer |-> IF r.form = "short_nack" THEN "nack" ELSE "ok",
                           cmd |-> r.cmd, origin |-> r.origin]
               /\ pending' = [pending EXCEPT ![r.seq] = None]
          ELSE UNCHANGED <<hand, pending>>
  /\ UNCHANGED <<modeVars, turn, nextSeq, reserved, pc, call, fut, toMcu>>

(* handle_ack_(), after unlocking: set_value() or set_exception().         *)
ResolvePromise ==
  /\ hand # NoHand
  /\ fut' = IF hand.owner = None THEN fut
            ELSE [fut EXCEPT ![hand.owner] = [state |-> hand.answer, cmd |-> hand.cmd,
                                              origin |-> hand.origin]]
  /\ hand' = NoHand
  /\ UNCHANGED <<modeVars, turn, seqVars, pc, call, linkVars>>

(* reader_loop_(): serial_.read() throws; running_ is cleared first.       *)
ReadFails ==
  /\ reader = "loop"
  /\ hand = NoHand
  /\ reader' = "failing"
  /\ running' = FALSE
  /\ UNCHANGED <<stopper, halfDuplex, turn, seqVars, hand, pc, call, fut, linkVars>>

(* reader_loop_(): fail_pending_(), then the thread returns.               *)
ReaderFailsPending ==
  /\ reader = "failing"
  /\ FailPending
  /\ reader' = "exited"
  /\ UNCHANGED <<running, stopper, halfDuplex, turn, nextSeq, reserved, hand, pc, call, linkVars>>

(* stop(): publish the two flags, then join.                               *)
StopBegin ==
  /\ stopper = "no"
  /\ stopper' = "joining"
  /\ running' = FALSE
  /\ UNCHANGED <<reader, halfDuplex, turn, seqVars, hand, pc, call, fut, linkVars>>

(* Mutant: the flag is looked at only when a frame has come.               *)
ReaderStopsOnFrame ==
  /\ stopper # "no"
  /\ reader = "loop"
  /\ hand = NoHand
  /\ fromMcu # {}
  /\ reader' = "exited"
  /\ UNCHANGED <<running, stopper, halfDuplex, turn, seqVars, hand, pc, call, fut, linkVars>>

(* reader_loop_() sees stop_requested_.                                    *)
ReaderStops ==
  /\ stopper # "no"
  /\ reader = "loop"
  /\ hand = NoHand
  /\ reader' = "exited"
  /\ UNCHANGED <<running, stopper, halfDuplex, turn, seqVars, hand, pc, call, fut, linkVars>>

(* stop(): the reader is joined; fail_pending_("transport stopped").       *)
StopEnd ==
  /\ stopper = "joining"
  /\ reader = "exited"
  /\ FailPending
  /\ stopper' = "done"
  /\ UNCHANGED <<running, reader, halfDuplex, turn, nextSeq, reserved, hand, pc, call, linkVars>>

(* set_half_duplex(), from start_exchange / stop_exchange_.                *)
SetHalfDuplex ==
  /\ halfDuplex' = ~halfDuplex
  /\ UNCHANGED <<running, reader, stopper, turn, seqVars, hand, pc, call, fut, linkVars>>

---------------------------------------------------------------------------
(* External: the MCU and the wire *)

(* The MCU executes a request and, if asked, answers in one of its forms.  *)
McuHandles ==
  \E f \in toMcu :
    /\ toMcu' = toMcu \ {f}
    /\ IF f.needAck
       THEN \E form \in ReplyForms :
              fromMcu' = Sent(fromMcu, [seq |-> f.seq, cmd |-> f.cmd, form |-> form,
                                        origin |-> f.origin])
       ELSE UNCHANGED fromMcu
    /\ UNCHANGED <<modeVars, turn, seqVars, hand, pc, call, fut>>

(* A frame is lost, or rejected by either parser.                          *)
LoseFrame ==
  /\ \/ /\ \E f \in toMcu : toMcu' = toMcu \ {f}
        /\ UNCHANGED fromMcu
     \/ /\ \E r \in fromMcu : fromMcu' = fromMcu \ {r}
        /\ UNCHANGED toMcu
  /\ UNCHANGED <<modeVars, turn, seqVars, hand, pc, call, fut>>

---------------------------------------------------------------------------
(* What the sender's own thread does once called.                          *)
SenderStep(s) ==
  \/ ReserveStopped(s) \/ ReserveBusy(s) \/ ReserveNew(s) \/ ReserveAgain(s)
  \/ ReadHalfDuplex(s) \/ TakeTurn(s) \/ TurnTimeout(s) \/ Write(s) \/ WriteFails(s)
  \/ Answered(s) \/ WaitTimeout(s) \/ Expire(s) \/ Retry(s) \/ Finish(s)

ReaderStep == MatchAck \/ ResolvePromise \/ ReadFails \/ ReaderFailsPending \/ ReaderStops

Next ==
  \/ \E s \in Senders : StartCall(s) \/ SenderStep(s)
  \/ ReaderStep
  \/ StopBegin \/ StopEnd \/ SetHalfDuplex
  \/ McuHandles \/ LoseFrame

Spec == Init /\ [][Next]_vars

(* Threads run; a timed wait ends.  Nothing is assumed of the MCU, of the  *)
(* wire, of the callers or of who asks for stop().                         *)
FairSpec ==
  /\ Spec
  /\ \A s \in Senders : WF_vars(SenderStep(s))
  /\ WF_vars(ResolvePromise) /\ WF_vars(ReaderFailsPending) /\ WF_vars(ReaderStops)
  /\ WF_vars(StopEnd)

---------------------------------------------------------------------------
(* Properties *)

(* Every variable stays in its type.                                        *)
TypeOK ==
  /\ running \in BOOLEAN
  /\ reader \in {"loop", "failing", "exited"}
  /\ stopper \in {"no", "joining", "done"}
  /\ halfDuplex \in BOOLEAN
  /\ turn \in Senders \cup {None}
  /\ nextSeq \in Seqs
  /\ reserved \subseteq Seqs
  /\ pending \in [Seqs -> Senders \cup {None}]
  /\ hand \in Hands \cup {NoHand}
  /\ pc \in [Senders -> Points]
  /\ call \in [Senders -> Calls]
  /\ fut \in [Senders -> Futures]
  /\ toMcu \subseteq Requests
  /\ fromMcu \subseteq Responses

(* No two calls in progress own the same sequence number, and the reserved *)
(* slots are exactly those of the calls in progress: the reservation       *)
(* survives timeouts and SameSeq retries, and none leaks into EBUSY.       *)
SeqExclusive ==
  /\ \A s, t \in Senders :
       s # t /\ call[s].held /\ call[t].held => call[s].seq # call[t].seq
  /\ \A s \in Senders : call[s].held => call[s].seq \in reserved
  /\ \A q \in reserved : \E s \in Senders : call[s].held /\ call[s].seq = q

(* A promise in pending_acks_ belongs to a live attempt of the call that   *)
(* owns the slot, and is unresolved; conversely a caller with an open      *)
(* future is registered still, or the reader is about to resolve it.       *)
PendingOwned ==
  /\ \A q \in Seqs : pending[q] # None =>
       LET s == pending[q] IN
         /\ call[s].held /\ call[s].seq = q
         /\ pc[s] \in {"turn", "lock", "write", "wait", "expire", "finish"}
         /\ fut[s].state = "waiting"
  /\ \A s \in Senders : pc[s] \in {"turn", "lock", "write", "wait"} /\ fut[s].state = "waiting" =>
       pending[call[s].seq] = s \/ hand.owner = s

(* An ACK resolves the promise of the call whose request it answers, never *)
(* that of another call, through timeouts, retries and numbers given back  *)
(* and drawn again.                                                        *)
AnswerIsOwn ==
  \A s \in Senders : fut[s].state \in {"ok", "nack"} =>
    fut[s].origin = s /\ fut[s].cmd = call[s].cmd

(* The half-duplex turn is held only between its acquisition and the       *)
(* answer, timeout or failed write of its holder.                          *)
TurnNotLeaked == turn # None => pc[turn] \in {"write", "wait"}

(* Once the reader is gone (and stop(), if it runs, has come to its end)   *)
(* no promise is left that nobody could resolve:                           *)
(* no caller sits out its whole ACK timeout on a dead link.                *)
DeadReaderWakesCallers ==
  reader = "exited" /\ stopper # "joining" =>
    /\ \A q \in Seqs : pending[q] = None
    /\ \A s \in Senders : pc[s] = "wait" => fut[s].state # "waiting"

(* What a call owns at each point of send_cmd(): the slot from the first   *)
(* reservation to release(), a promise only while an attempt lives.        *)
OwnedAt(s) ==
  /\ pc[s] = "idle" => ~call[s].held
  /\ call[s].mode = "NoAck" => ~call[s].held /\ fut[s] = NoFuture
  /\ pc[s] \in {"turn", "lock", "write"} /\ call[s].mode # "NoAck" => call[s].held
  /\ pc[s] \in {"wait", "expire", "sleep"} => call[s].held
  /\ call[s].attempt <= RetriesOf(s)
  /\ pc[s] = "sleep" => call[s].attempt < RetriesOf(s)
  /\ pc[s] \in {"idle", "reserve", "sleep"} => fut[s] = NoFuture
  /\ pc[s] \in {"turn", "lock", "write", "wait"} /\ call[s].held => fut[s].state # "none"
  /\ hand.owner = s =>
       /\ call[s].held /\ fut[s].state = "waiting"
       /\ hand.origin = s /\ hand.cmd = call[s].cmd
       /\ pending[call[s].seq] # s
OwnedByPoint == \A s \in Senders : OwnedAt(s)

(* On the link, every frame that carries a reserved number and asks for or *)
(* gives an answer belongs to the call that holds the number.              *)
LinkOwned ==
  \A s \in Senders : call[s].held =>
    /\ \A f \in toMcu : f.needAck /\ f.seq = call[s].seq => f.origin = s /\ f.cmd = call[s].cmd
    /\ \A r \in fromMcu : r.seq = call[s].seq => r.origin = s /\ r.cmd = call[s].cmd

(* running_ is cleared before the reader goes, and the reader resolves     *)
(* what it took before it goes.                                            *)
ReaderGone ==
  /\ reader # "loop" \/ stopper # "no" => ~running
  /\ reader # "loop" => hand = NoHand
  /\ stopper = "done" => reader = "exited"

(* The inductive invariant of the module: what makes the four properties   *)
(* above hold whatever the threads, the reader and the link do next.       *)
RequestsConsistent ==
  /\ SeqExclusive /\ PendingOwned /\ AnswerIsOwn /\ TurnNotLeaked
  /\ DeadReaderWakesCallers /\ OwnedByPoint /\ LinkOwned /\ ReaderGone

(* "Never overwrite another promise" (transport.cpp, above                 *)
(* allocate_seq_locked_): an entry changes hands only by being erased.     *)
NeverOverwritePromise ==
  [][\A q \in Seqs : pending[q] # None => pending'[q] \in {pending[q], None}]_vars

(* Every call returns or throws: no loss of frames, contention for the     *)
(* turn, reader failure or stop() leaves a caller blocked.                 *)
CallsEnd == \A s \in Senders : pc[s] # "idle" ~> pc[s] = "idle"

(* stop() returns.                                                         *)
StopReturns == stopper = "joining" ~> stopper = "done"
============================================================================
