-------------------------- MODULE MotorController --------------------------
(***************************************************************************)
(* The shell that ForcePositionController and ImpedanceController share:   *)
(* status samples come in on the control lane (on_status_), callers set    *)
(* targets and reset, a worker (run_) turns the latest sample into one     *)
(* command per status frame and submits it outside the mutex, and the      *)
(* owner starts and stops it all.  The control laws themselves are one     *)
(* bit here: a command moves the motor towards a target, or is zero.       *)
(*                                                                         *)
(* One action is one critical section of mu_, one write, or one step of    *)
(* start() or stop().  Time is a clock that samples and waiting advance.   *)
(*                                                                         *)
(* A definition whose comment begins with "Mutant" is used by no other: it *)
(* stands for a plausible mistake in the definition after it, and shows    *)
(* that a property of the runs would notice.                               *)
(***************************************************************************)
EXTENDS Integers, Sequences, FiniteSets

CONSTANTS
  Kinds,        (* controllers checked, a subset of AllKinds               *)
  Timeout,      (* cfg_.status_timeout_ms, in clock units                  *)
  MaxQueue,     (* kMaxQueuedCommands; 32 in the code                      *)
  MaxInFlight,  (* samples between their time stamp and on_status_()       *)
  MaxClock,     (* bound: the clock                                        *)
  MaxTargets,   (* bound: commands given by callers                        *)
  None

AllKinds == {"force", "impedance"}
ASSUME KindsAssumption == Kinds \subseteq AllKinds
ASSUME BoundsAssumption ==
  /\ Timeout \in Nat \ {0} /\ MaxQueue \in Nat \ {0}
  /\ MaxInFlight \in Nat /\ MaxClock \in Nat /\ MaxTargets \in Nat
ASSUME NoneAssumption == None \notin Nat

VARIABLES
  kind,      (* which of the two controllers this is                       *)
  phase,     (* how far start() or stop() is, "off" or "on"                *)
  worker,    (* run_(): "none", "wait", "submit", "exited"                 *)
  stopReq,   (* stop_requested_                                            *)
  running,   (* running_                                                   *)
  stopped,   (* stopped_                                                   *)
  have,      (* have_sample_                                               *)
  sub,       (* sub_active_                                                *)
  clock,     (* steady_clock::now()                                        *)
  epoch,     (* feedback_epoch_                                            *)
  latest,    (* latest_ and latest_time_                                   *)
  pending,   (* pending_status_fault_: the stamp of its sample, or None    *)
  stepReq,   (* step_requested_                                            *)
  woke,      (* command_woke_                                              *)
  obsValid,  (* observation_.valid                                         *)
  policy,    (* policy_: fault state, first cause of it, target            *)
  queue,     (* queue_ (force only)                                        *)
  cmd,       (* the command run_() computed and has not submitted yet      *)
  lane,      (* samples stamped and not delivered yet                      *)
  laneOpen,  (* the control lane has not overflowed                        *)
  linkUp,    (* the serial link works                                      *)
  wire,      (* the last command written, or "lost": a write that failed    *)
  issued,    (* history: commands given; a command is its number           *)
  resetAt,   (* history: issued at the last start() or reset()             *)
  known,     (* history: fault evidence came since start() or reset()      *)
  blind      (* history: motion written on known-bad or stale evidence     *)

ownerVars  == <<stopReq, running, stopped, have, sub>>
statusVars == <<epoch, latest, pending, obsValid>>
bellVars   == <<stepReq, woke>>
linkVars   == <<lane, laneOpen, linkUp>>
histVars   == <<resetAt, known>>
vars == <<kind, phase, worker, stopReq, running, stopped, have, sub, clock, epoch, latest,
          pending, stepReq, woke, obsValid, policy, queue, cmd, lane, laneOpen, linkUp, wire,
          issued, resetAt, known, blind>>

Phases == {"off", "subscribing", "streaming", "on",
           "flagged", "joined", "retired", "zeroed", "disabled", "unsubscribed"}
Samples == [t : 0 .. MaxClock, fault : BOOLEAN]
NoSample == [t |-> 0, fault |-> FALSE]

(* target 0: where the jaw was at start() or reset().                      *)
Policies == [state : {"none", "live", "fault"}, why : {"none", "status", "stale", "submit"},
             t : 0 .. MaxClock, target : 0 .. MaxTargets]
Seeded == [state |-> "live", why |-> "none", t |-> 0, target |-> 0]
NoPolicy == [Seeded EXCEPT !.state = "none"]

Cmds == [motion : BOOLEAN, target : 0 .. MaxTargets]
Zero == [motion |-> FALSE, target |-> 0]

---------------------------------------------------------------------------
(* The policy *)

(* fail(): Fault latches until reset().  The first cause is kept; later    *)
(* ones only reword fault_reason_.                                         *)
Failed(p, why, t) ==
  IF p.state = "fault" THEN p ELSE [p EXCEPT !.state = "fault", !.why = why, !.t = t]

(* set_target(), release(), hold_position() of the force policy, in queue  *)
(* order: no-ops in Fault, and each replaces the target.                   *)
Applied(p, q) ==
  IF p.state = "live" /\ q # <<>> THEN [p EXCEPT !.target = q[Len(q)]] ELSE p

(* step(): the sample it works on is looked at again; zero iff in Fault.   *)
Stepped(p) == IF latest.fault THEN Failed(p, "status", latest.t) ELSE p
Command(p) ==
  IF p.state = "live" THEN [motion |-> TRUE, target |-> p.target] ELSE Zero

Stale == clock - latest.t >= Timeout

---------------------------------------------------------------------------
Init ==
  /\ kind \in Kinds
  /\ phase = "off" /\ worker = "none"
  /\ stopReq = FALSE /\ running = FALSE /\ stopped = FALSE /\ have = FALSE /\ sub = FALSE
  /\ clock = 0 /\ epoch = 0 /\ latest = NoSample /\ pending = None
  /\ stepReq = FALSE /\ woke = FALSE /\ obsValid = FALSE
  /\ policy = NoPolicy /\ queue = <<>> /\ cmd = Zero
  /\ lane = {} /\ laneOpen = TRUE /\ linkUp = TRUE /\ wire = "none"
  /\ issued = 0 /\ resetAt = 0 /\ known = FALSE /\ blind = 0

---------------------------------------------------------------------------
(* start() *)

(* The checks passed and read_status() answered: all state is set afresh.  *)
StartInit ==
  /\ phase = "off" /\ ~running
  /\ linkUp
  /\ \E f \in BOOLEAN :
       /\ latest' = [t |-> clock, fault |-> f]
       /\ pending' = IF f THEN clock ELSE None
       /\ known' = f
  /\ policy' = Seeded
  /\ queue' = <<>>
  /\ epoch' = clock
  /\ have' = TRUE /\ obsValid' = TRUE
  /\ stopReq' = FALSE /\ stepReq' = TRUE
  /\ resetAt' = issued /\ blind' = 0
  /\ phase' = "subscribing"
  /\ UNCHANGED <<kind, worker, running, stopped, sub, clock, woke, cmd, linkVars, wire, issued>>

(* on_control_status_(): refused by a control lane that has overflowed.    *)
SubscribeDone ==
  /\ phase = "subscribing"
  /\ laneOpen
  /\ sub' = TRUE
  /\ phase' = "streaming"
  /\ UNCHANGED <<kind, worker, stopReq, running, stopped, have, clock, statusVars, bellVars,
                 policy, queue, cmd, linkVars, wire, issued, histVars, blind>>

SubscribeFails ==
  /\ phase = "subscribing"
  /\ ~laneOpen
  /\ stopReq' = TRUE /\ have' = FALSE /\ obsValid' = FALSE
  /\ phase' = "off"
  /\ UNCHANGED <<kind, worker, running, stopped, sub, clock, epoch, latest, pending, bellVars,
                 policy, queue, cmd, linkVars, wire, issued, histVars, blind>>

(* start_motor_stream_() throws: unsubscribe, and nothing else.            *)
StreamFails ==
  /\ phase = "streaming"
  /\ sub' = FALSE /\ lane' = {}
  /\ phase' = "off"
  /\ UNCHANGED <<kind, worker, stopReq, running, stopped, have, clock, statusVars, bellVars,
                 policy, queue, cmd, laneOpen, linkUp, wire, issued, histVars, blind>>

(* The stream runs: publish running_, then start run_().                   *)
Launch ==
  /\ phase = "streaming"
  /\ stopped' = FALSE /\ running' = TRUE
  /\ worker' = "wait"
  /\ phase' = "on"
  /\ UNCHANGED <<kind, stopReq, have, sub, clock, statusVars, bellVars, policy, queue, cmd,
                 linkVars, wire, issued, histVars, blind>>

---------------------------------------------------------------------------
(* stop(), which also runs on a controller that never started *)

StopFlag ==
  /\ phase \in {"on", "off"} /\ ~stopped
  /\ stopReq' = TRUE
  /\ phase' = "flagged"
  /\ UNCHANGED <<kind, worker, running, stopped, have, sub, clock, statusVars, bellVars, policy,
                 queue, cmd, linkVars, wire, issued, histVars, blind>>

(* Mutant: stop() does not wait for run_().                                *)
JoinDetached ==
  /\ phase = "flagged"
  /\ phase' = "joined"
  /\ UNCHANGED <<kind, worker, ownerVars, clock, statusVars, bellVars, policy, queue, cmd, linkVars,
                 wire, issued, histVars, blind>>

Join ==
  /\ phase = "flagged"
  /\ worker \in {"none", "exited"}
  /\ worker' = "none"
  /\ phase' = "joined"
  /\ UNCHANGED <<kind, ownerVars, clock, statusVars, bellVars, policy, queue, cmd, linkVars, wire,
                 issued, histVars, blind>>

(* running_ is cleared and the last sample read; only ImpedanceController  *)
(* invalidates its observation.                                            *)
Retire ==
  /\ phase = "joined"
  /\ running' = FALSE
  /\ obsValid' = IF kind = "impedance" THEN FALSE ELSE obsValid
  /\ phase' = "retired"
  /\ UNCHANGED <<kind, worker, stopReq, stopped, have, sub, clock, epoch, latest, pending,
                 bellVars, policy, queue, cmd, linkVars, wire, issued, histVars, blind>>

(* The zero frame; a failed write, on whatever link, is swallowed.         *)
ZeroFrame ==
  /\ phase = "retired"
  /\ \/ have /\ linkUp /\ wire' = "zero"
     \/ have /\ wire' = "lost"
     \/ ~have /\ UNCHANGED wire
  /\ phase' = "zeroed"
  /\ UNCHANGED <<kind, worker, ownerVars, clock, statusVars, bellVars, policy, queue, cmd,
                 linkVars, issued, histVars, blind>>

(* disable(): a failure (NACK, no answer, closed port) is logged only.     *)
Disable ==
  /\ phase = "zeroed"
  /\ \/ linkUp /\ wire' = "disabled"
     \/ UNCHANGED wire
  /\ phase' = "disabled"
  /\ UNCHANGED <<kind, worker, ownerVars, clock, statusVars, bellVars, policy, queue, cmd,
                 linkVars, issued, histVars, blind>>

(* off(): no on_status_() runs once it has returned.                       *)
Unsubscribe ==
  /\ phase = "disabled"
  /\ sub' = FALSE /\ lane' = {}
  /\ phase' = "unsubscribed"
  /\ UNCHANGED <<kind, worker, stopReq, running, stopped, have, clock, statusVars, bellVars,
                 policy, queue, cmd, laneOpen, linkUp, wire, issued, histVars, blind>>

StopDone ==
  /\ phase = "unsubscribed"
  /\ stopped' = TRUE
  /\ phase' = "off"
  /\ UNCHANGED <<kind, worker, stopReq, running, have, sub, clock, statusVars, bellVars, policy,
                 queue, cmd, linkVars, wire, issued, histVars, blind>>

---------------------------------------------------------------------------
(* Callers, on any thread *)

(* Mutant: a full queue refuses the newest command.                        *)
EnqueuedKeepsOldest(n) == IF Len(queue) >= MaxQueue THEN queue ELSE Append(queue, n)

(* enqueue_(): a full queue loses its oldest command.                      *)
Enqueued(n) == Append(IF Len(queue) >= MaxQueue THEN Tail(queue) ELSE queue, n)

(* set_target() (release() and hold_position() of the force controller are *)
(* commands like it): queued there, oldest dropped at the limit; written   *)
(* to the policy at once by ImpedanceController, in Fault too.             *)
SetTarget ==
  LET n == issued + 1 IN
  /\ running
  /\ issued < MaxTargets
  /\ issued' = n
  /\ IF kind = "force"
     THEN queue' = Enqueued(n) /\ UNCHANGED policy
     ELSE policy' = [policy EXCEPT !.target = n] /\ UNCHANGED queue
  /\ woke' = TRUE
  /\ UNCHANGED <<kind, phase, worker, ownerVars, clock, statusVars, stepReq, cmd, linkVars, wire,
                 histVars, blind>>

(* Mutant: a step requested before reset() still takes place.              *)
ResetKeepsDoorbell ==
  /\ running
  /\ policy' = Seeded
  /\ pending' = None
  /\ epoch' = clock
  /\ resetAt' = issued /\ known' = FALSE /\ blind' = 0
  /\ UNCHANGED <<kind, phase, worker, ownerVars, clock, latest, obsValid, bellVars, queue, cmd,
                 linkVars, wire, issued>>

(* reset(): the policy leaves Fault where the jaw is; older evidence and   *)
(* a step on it are cancelled.  queue_ is left alone.                      *)
Reset ==
  /\ running
  /\ policy' = Seeded
  /\ pending' = None
  /\ epoch' = clock
  /\ stepReq' = FALSE
  /\ resetAt' = issued /\ known' = FALSE /\ blind' = 0
  /\ UNCHANGED <<kind, phase, worker, ownerVars, clock, latest, obsValid, woke, queue, cmd,
                 linkVars, wire, issued>>

---------------------------------------------------------------------------
(* on_status_(), on the control worker *)

(* Samples from before start() or reset(), and all once stop() has begun.  *)
Ignored(x) == stopReq \/ x.t < epoch

OnStatus(x) ==
  LET evidence == IF pending = None /\ x.fault THEN x.t ELSE pending
      dropped  == (have /\ x.t < latest.t) \/ clock - x.t >= Timeout
  IN
  /\ lane' = lane \ {x}
  /\ IF Ignored(x)
     THEN UNCHANGED <<latest, pending, stepReq, have, obsValid, known, blind>>
     ELSE /\ pending' = evidence
          /\ known' = (known \/ x.fault)
          /\ stepReq' = (stepReq \/ evidence # None \/ ~dropped)
          /\ IF dropped THEN UNCHANGED <<latest, have, obsValid>>
             ELSE latest' = x /\ have' = TRUE /\ obsValid' = TRUE
          /\ blind' = IF known \/ (dropped /\ ~x.fault) THEN blind ELSE 0
  /\ UNCHANGED <<kind, phase, worker, stopReq, running, stopped, sub, clock, epoch, woke, policy,
                 queue, cmd, laneOpen, linkUp, wire, issued, resetAt>>

---------------------------------------------------------------------------
(* run_(), the controller's worker *)

(* Mutant: the worker finishes a requested step first.                     *)
WorkerExitsIdle ==
  /\ worker = "wait"
  /\ stopReq /\ ~stepReq
  /\ worker' = "exited"
  /\ UNCHANGED <<kind, phase, ownerVars, clock, statusVars, bellVars, policy, queue, cmd, linkVars,
                 wire, issued, histVars, blind>>

WorkerExits ==
  /\ worker = "wait"
  /\ stopReq
  /\ worker' = "exited"
  /\ UNCHANGED <<kind, phase, ownerVars, clock, statusVars, bellVars, policy, queue, cmd, linkVars,
                 wire, issued, histVars, blind>>

(* Mutant: latched evidence is left to the next sample to confirm.         *)
FlaggedBySample == policy

(* A wake's verdict on the evidence: the latched fault first, then age.    *)
Flagged == IF pending = None THEN policy ELSE Failed(policy, "status", pending)
Judged  == IF Stale THEN Failed(Flagged, "stale", latest.t) ELSE Flagged

(* Mutant: only a stale stream that causes the fault invalidates.          *)
ObservationKeptInFault == obsValid /\ ~(Stale /\ Flagged.state = "live")

(* The last sample is history once it is stale, whatever else went wrong.  *)
ObservationKept == obsValid /\ ~Stale

(* A step is due: a status frame came, a fault was found, or a caller      *)
(* waits for an answer on a dead stream.                                   *)
StepDue ==
  stepReq \/ pending # None \/ (Stale /\ (woke \/ Flagged.state = "live"))

(* One pass under mu_, on a notification or after 100 ms.                  *)
Wake ==
  LET fed == IF Stale THEN Judged ELSE Applied(Judged, queue)
      due == StepDue
  IN
  /\ worker = "wait"
  /\ ~stopReq /\ have
  /\ woke' = FALSE /\ stepReq' = FALSE /\ pending' = None
  /\ obsValid' = ObservationKept
  /\ \/ /\ ~due
        /\ policy' = Judged
        /\ UNCHANGED <<queue, cmd, worker>>
     \/ /\ due
        /\ queue' = <<>>
        /\ policy' = Stepped(fed)
        /\ cmd' = Command(Stepped(fed))
        /\ worker' = "submit"
  /\ UNCHANGED <<kind, phase, ownerVars, clock, epoch, latest, linkVars, wire, issued, histVars,
                 blind>>

(* The command is written, without mu_.                                    *)
Submit ==
  /\ worker = "submit"
  /\ linkUp
  /\ wire' = IF cmd.motion THEN "motion" ELSE "zero"
  /\ blind' = IF cmd.motion /\ (known \/ Stale) THEN blind + 1 ELSE blind
  /\ cmd' = Zero
  /\ worker' = "wait"
  /\ UNCHANGED <<kind, phase, ownerVars, clock, statusVars, bellVars, policy, queue, linkVars,
                 issued, histVars>>

SubmitFails ==
  /\ worker = "submit"
  /\ policy' = Failed(policy, "submit", clock)
  /\ wire' = "lost"
  /\ cmd' = Zero
  /\ worker' = "wait"
  /\ UNCHANGED <<kind, phase, ownerVars, clock, statusVars, bellVars, queue, linkVars, issued,
                 histVars, blind>>

---------------------------------------------------------------------------
(* The device and the link *)

(* A status frame is received and stamped, on its way to on_status_().     *)
Sample ==
  /\ linkUp /\ laneOpen /\ sub
  /\ clock < MaxClock
  /\ Cardinality(lane) < MaxInFlight
  /\ \E f \in BOOLEAN : lane' = lane \cup {[t |-> clock + 1, fault |-> f]}
  /\ clock' = clock + 1
  /\ UNCHANGED <<kind, phase, worker, ownerVars, statusVars, bellVars, policy, queue, cmd, laneOpen,
                 linkUp, wire, issued, histVars, blind>>

Tick ==
  /\ clock < MaxClock
  /\ clock' = clock + 1
  /\ UNCHANGED <<kind, phase, worker, ownerVars, statusVars, bellVars, policy, queue, cmd, linkVars,
                 wire, issued, histVars, blind>>

(* The control lane overflows: what is in it is lost, and it stays shut.   *)
LaneCloses ==
  /\ laneOpen
  /\ laneOpen' = FALSE /\ lane' = {}
  /\ UNCHANGED <<kind, phase, worker, ownerVars, clock, statusVars, bellVars, policy, queue, cmd,
                 linkUp, wire, issued, histVars, blind>>

LinkDrops ==
  /\ linkUp
  /\ linkUp' = FALSE
  /\ UNCHANGED <<kind, phase, worker, ownerVars, clock, statusVars, bellVars, policy, queue, cmd,
                 lane, laneOpen, wire, issued, histVars, blind>>

---------------------------------------------------------------------------
StartStep == SubscribeDone \/ SubscribeFails \/ StreamFails \/ Launch
StopStep  == Join \/ Retire \/ ZeroFrame \/ Disable \/ Unsubscribe \/ StopDone
WorkerStep == WorkerExits \/ Wake \/ Submit \/ SubmitFails
Deliver == \E x \in lane : OnStatus(x)

Next ==
  \/ StartInit \/ StartStep
  \/ StopFlag \/ StopStep
  \/ SetTarget \/ Reset
  \/ Deliver \/ WorkerStep
  \/ Sample \/ Tick \/ LaneCloses \/ LinkDrops

Spec == Init /\ [][Next]_vars

(* The worker and stop() run.  Nothing is assumed of callers, of the       *)
(* device, of the link or of how fast samples are delivered.               *)
FairSpec == Spec /\ WF_vars(WorkerStep) /\ WF_vars(StopStep)

---------------------------------------------------------------------------
(* Properties *)

(* Every variable stays in its type.                                       *)
TypeOK ==
  /\ kind \in Kinds /\ phase \in Phases
  /\ worker \in {"none", "wait", "submit", "exited"}
  /\ {stopReq, running, stopped, have, sub, stepReq, woke, obsValid, laneOpen, linkUp, known}
       \subseteq BOOLEAN
  /\ clock \in 0 .. MaxClock /\ epoch \in 0 .. MaxClock
  /\ latest \in Samples /\ pending \in 0 .. MaxClock \cup {None}
  /\ policy \in Policies /\ cmd \in Cmds
  /\ queue \in Seq(1 .. MaxTargets) /\ Len(queue) <= MaxQueue
  /\ lane \subseteq Samples
  /\ wire \in {"none", "motion", "zero", "disabled", "lost"}
  /\ issued \in 0 .. MaxTargets /\ resetAt \in 0 .. MaxTargets /\ blind \in Nat

(* Once fault evidence was delivered, or the last sample has grown stale,  *)
(* at most one more motion command is written (the one computed before)    *)
(* until reset(), whatever order samples and callers come in.              *)
FaultStopsMotion == blind <= 1

(* A motor-status fault that makes the policy leave operation was reported *)
(* after the last reset(): a cached sample or a late one never re-faults   *)
(* the freshly reset policy (reset()).                                     *)
FaultsAreCurrent ==
  policy.state = "fault" /\ policy.why = "status" => policy.t >= epoch

(* When stop() has returned on a working link, the last thing written to   *)
(* the motor is not a motion, whatever run_() was doing and even if the    *)
(* zero frame's write or the disable command failed.                       *)
QuietAfterStop == phase = "off" /\ stopped /\ linkUp => wire # "motion"

(* A motion command aims at the newest target given since start() or       *)
(* reset(), and an ImpedanceController command at no older one.            *)
TargetsCurrent ==
  [][worker = "wait" /\ worker' = "submit" /\ cmd'.motion =>
       IF issued > resetAt THEN cmd'.target = issued
       ELSE kind = "impedance" => cmd'.target = 0]_vars

(* stop() of ImpedanceController leaves no observation marked valid, not   *)
(* even one from a frame that came between the flag and off().             *)
RetiredForGood ==
  phase = "off" /\ stopped /\ stopReq /\ kind = "impedance" => ~obsValid

(* A controller that was stopped is at rest: its motor and its observation *)
(* (force_position_controller.cpp:1222, impedance_controller.cpp:561).     *)
StoppedForGood == QuietAfterStop /\ RetiredForGood

(* stop() returns.                                                         *)
StopReturns == phase = "flagged" ~> phase = "off"

(* Fault evidence on a running controller is answered by a zero command,   *)
(* unless its write fails or reset() or stop() get in the way.  (A failed  *)
(* write is not repeated until the next status frame.)                     *)
FaultReachesMotor == known /\ running ~> wire \in {"zero", "lost"} \/ ~known \/ stopReq

(* A stream that stays dead makes the observation invalid, for whatever    *)
(* reason the policy faulted before.                                       *)
StaleInvalidated ==
  [](phase = "on" /\ Stale /\ obsValid => <>(~obsValid \/ ~Stale \/ stopReq))

(* on_status_(): frames keep arriving "after [stop()] has retired the      *)
(* observation. Taking them would mark a stopped controller's observation  *)
(* valid again".                                                           *)
StopRetires == phase = "off" /\ stopped /\ stopReq => ~obsValid
============================================================================
