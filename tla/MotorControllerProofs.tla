----------------------- MODULE MotorControllerProofs -----------------------
(***************************************************************************)
(* What the shell of the two controllers promises, for every set of kinds, *)
(* every timeout, queue length and number of samples under way, and any    *)
(* length of run: the four safety properties of the MotorController run.   *)
(***************************************************************************)
EXTENDS MotorController, TLAPS

USE KindsAssumption, BoundsAssumption, NoneAssumption

(* What the callers, the device and the link do besides on_status_().      *)
WorldStep == Sample \/ Tick \/ LaneCloses \/ LinkDrops

---------------------------------------------------------------------------
(* Types *)

(* The type invariant in two parts: what is a flag,                        *)
Flags ==
  /\ stopReq \in BOOLEAN /\ running \in BOOLEAN /\ stopped \in BOOLEAN /\ have \in BOOLEAN
  /\ sub \in BOOLEAN /\ stepReq \in BOOLEAN /\ woke \in BOOLEAN /\ obsValid \in BOOLEAN
  /\ laneOpen \in BOOLEAN /\ linkUp \in BOOLEAN /\ known \in BOOLEAN

(* and what is not.                                                        *)
Data ==
  /\ kind \in Kinds /\ phase \in Phases
  /\ worker \in {"none", "wait", "submit", "exited"}
  /\ clock \in 0 .. MaxClock /\ epoch \in 0 .. MaxClock
  /\ latest \in Samples /\ pending \in 0 .. MaxClock \cup {None}
  /\ policy \in Policies /\ cmd \in Cmds
  /\ queue \in Seq(1 .. MaxTargets) /\ Len(queue) <= MaxQueue
  /\ lane \subseteq Samples
  /\ wire \in {"none", "motion", "zero", "disabled", "lost"}
  /\ issued \in 0 .. MaxTargets /\ resetAt \in 0 .. MaxTargets /\ blind \in Nat

(* TypeOK by its parts.                                                    *)
LEMMA TypeParts == TypeOK <=> Flags /\ Data
  <1>1. {stopReq, running, stopped, have, sub, stepReq, woke, obsValid, laneOpen, linkUp, known}
           \subseteq BOOLEAN <=> Flags
    BY SMT DEF Flags
  <1> QED
    BY <1>1, Zenon DEF TypeOK, Data

(* fail() and set_target() on a policy leave a policy.                     *)
LEMMA PolicyOps ==
  ASSUME NEW p \in Policies, NEW why \in {"status", "stale", "submit"}, NEW t \in 0 .. MaxClock,
         NEW q \in Seq(1 .. MaxTargets)
  PROVE  /\ Failed(p, why, t) \in Policies
         /\ Applied(p, q) \in Policies
  <1>1. Failed(p, why, t) \in Policies
    BY DEF Failed, Policies
  <1>2. q # <<>> => q[Len(q)] \in 0 .. MaxTargets
    OBVIOUS
  <1>3. Applied(p, q) \in Policies
    BY <1>2 DEF Applied, Policies
  <1> QED
    BY <1>1, <1>3

(* enqueue_() keeps the queue within its limit, and the newest command is  *)
(* its last.                                                               *)
LEMMA EnqueuedFits ==
  ASSUME queue \in Seq(1 .. MaxTargets), Len(queue) <= MaxQueue, NEW n \in 1 .. MaxTargets
  PROVE  /\ Enqueued(n) \in Seq(1 .. MaxTargets)
         /\ Len(Enqueued(n)) <= MaxQueue
         /\ Enqueued(n) # <<>>
         /\ Enqueued(n)[Len(Enqueued(n))] = n
  <1>1. CASE Len(queue) >= MaxQueue
    BY <1>1 DEF Enqueued
  <1>2. CASE ~(Len(queue) >= MaxQueue)
    BY <1>2 DEF Enqueued
  <1> QED
    BY <1>1, <1>2

(* start() and the steps of stop() keep the types.                         *)
LEMMA TypesOfOwner ==
  Flags /\ Data /\ (StartInit \/ StartStep \/ StopFlag \/ StopStep) => Flags' /\ Data'
  <1> SUFFICES ASSUME Flags, Data, StartInit \/ StartStep \/ StopFlag \/ StopStep
               PROVE  Flags' /\ Data'
    OBVIOUS
  <1>1. CASE StartInit
    <2> USE <1>1 DEF StartInit, linkVars
    <2>1. PICK f \in BOOLEAN : latest' = [t |-> clock, fault |-> f] /\ known' = f
                              /\ pending' = IF f THEN clock ELSE None
      BY Zenon
    <2>2. Flags'
      BY <2>1, Zenon DEF Flags
    <2>3. latest' \in Samples /\ pending' \in 0 .. MaxClock \cup {None}
      BY <2>1, SMT DEF Samples, Data
    <2>4. policy' \in Policies
      BY SMT DEF Policies, Seeded, Data
    <2>5. Data'
      BY <2>3, <2>4, SMT DEF Data, Phases
    <2> QED
      BY <2>2, <2>5
  <1> USE DEF ownerVars, statusVars, bellVars, linkVars, histVars
  <1>2. CASE SubscribeDone
    BY <1>2 DEF SubscribeDone, Flags, Data, Phases
  <1>3. CASE SubscribeFails
    <2>1. Flags'
      BY <1>3, Zenon DEF SubscribeFails, Flags
    <2>2. Data'
      BY <1>3, SMT DEF SubscribeFails, Data, Phases
    <2> QED
      BY <2>1, <2>2
  <1>4. CASE StreamFails
    <2>1. Flags'
      BY <1>4, Zenon DEF StreamFails, Flags
    <2>2. Data'
      BY <1>4, SMT DEF StreamFails, Data, Phases
    <2> QED
      BY <2>1, <2>2
  <1>5. CASE Launch
    <2>1. Flags'
      BY <1>5, Zenon DEF Launch, Flags
    <2>2. Data'
      BY <1>5, SMT DEF Launch, Data, Phases
    <2> QED
      BY <2>1, <2>2
  <1>6. CASE StopFlag
    BY <1>6 DEF StopFlag, Flags, Data, Phases
  <1>7. CASE Join
    BY <1>7 DEF Join, Flags, Data, Phases
  <1>8. CASE Retire
    <2>1. Flags'
      BY <1>8, Zenon DEF Retire, Flags
    <2>2. Data'
      BY <1>8, SMT DEF Retire, Data, Phases
    <2> QED
      BY <2>1, <2>2
  <1>9. CASE ZeroFrame
    BY <1>9 DEF ZeroFrame, Flags, Data, Phases
  <1>10. CASE Disable
    BY <1>10 DEF Disable, Flags, Data, Phases
  <1>11. CASE Unsubscribe
    <2>1. Flags'
      BY <1>11, Zenon DEF Unsubscribe, Flags
    <2>2. Data'
      BY <1>11, SMT DEF Unsubscribe, Data, Phases
    <2> QED
      BY <2>1, <2>2
  <1>12. CASE StopDone
    BY <1>12 DEF StopDone, Flags, Data, Phases
  <1> QED
    BY <1>1, <1>2, <1>3, <1>4, <1>5, <1>6, <1>7, <1>8, <1>9, <1>10, <1>11, <1>12
       DEF StartStep, StopStep

(* So do the callers and samples,                                          *)
LEMMA TypesOfEvents ==
  Flags /\ Data /\ (SetTarget \/ Reset \/ Deliver \/ WorldStep) => Flags' /\ Data'
  <1> SUFFICES ASSUME Flags, Data, SetTarget \/ Reset \/ Deliver \/ WorldStep
               PROVE  Flags' /\ Data'
    OBVIOUS
  <1> USE DEF ownerVars, statusVars, bellVars, linkVars, histVars
  <1>1. CASE SetTarget
    <2>1. issued + 1 \in 1 .. MaxTargets
      BY <1>1 DEF SetTarget, Data
    <2>2. Enqueued(issued + 1) \in Seq(1 .. MaxTargets) /\ Len(Enqueued(issued + 1)) <= MaxQueue
      BY <2>1, EnqueuedFits DEF Data
    <2>3. policy' \in Policies
      BY <1>1, <2>1 DEF SetTarget, Policies, Data
    <2>4. Flags'
      BY <1>1, Zenon DEF SetTarget, Flags
    <2>5. Data'
      BY <1>1, <2>1, <2>2, <2>3, SMT DEF SetTarget, Data
    <2> QED
      BY <2>4, <2>5
  <1>2. CASE Reset
    <2>1. policy' \in Policies
      BY <1>2, SMT DEF Reset, Policies, Seeded, Data
    <2>2. Flags'
      BY <1>2, Zenon DEF Reset, Flags
    <2>3. Data'
      BY <1>2, <2>1, SMT DEF Reset, Data
    <2> QED
      BY <2>2, <2>3
  <1>3. CASE Deliver
    <2> PICK x \in lane : OnStatus(x)
      BY <1>3 DEF Deliver
    <2>1. x \in Samples /\ x.fault \in BOOLEAN /\ x.t \in 0 .. MaxClock /\ lane' \subseteq Samples
      BY DEF OnStatus, Samples, Data
    <2>2. Flags'
      BY <2>1, Zenon DEF OnStatus, Flags
    <2>3. Data'
      BY <2>1, SMT DEF OnStatus, Data
    <2> QED
      BY <2>2, <2>3
  <1>4. CASE WorldStep
    <2> USE <1>4 DEF WorldStep, Sample, Tick, LaneCloses, LinkDrops
    <2>1. lane' \subseteq Samples
      BY SMT DEF Samples, Data
    <2>2. Flags'
      <3>1. laneOpen' \in BOOLEAN /\ linkUp' \in BOOLEAN
        BY Zenon DEF Flags
      <3>2. UNCHANGED <<stopReq, running, stopped, have, sub, stepReq, woke, obsValid, known>>
        BY Zenon
      <3> QED
        BY <3>1, <3>2, Zenon DEF Flags
    <2>3. clock' \in 0 .. MaxClock
      BY SMT DEF Data
    <2>4. UNCHANGED <<epoch, latest, pending, policy, cmd, queue, wire, issued, resetAt, blind,
                      kind, phase, worker>>
      BY Zenon
    <2>5. Data'
      BY <2>1, <2>3, <2>4, Zenon DEF Data
    <2> QED
      BY <2>2, <2>5
  <1> QED
    BY <1>1, <1>2, <1>3, <1>4

(* and the worker.                                                         *)
LEMMA TypesOfWorker == Flags /\ Data /\ WorkerStep => Flags' /\ Data'
  <1> SUFFICES ASSUME Flags, Data, WorkerStep PROVE Flags' /\ Data'
    OBVIOUS
  <1> USE DEF ownerVars, statusVars, bellVars, linkVars, histVars
  <1>1. CASE WorkerExits
    BY <1>1 DEF WorkerExits, Flags, Data
  <1>2. CASE Wake
    <2>1. /\ latest.t \in 0 .. MaxClock /\ policy \in Policies
          /\ pending # None => pending \in 0 .. MaxClock
          /\ queue \in Seq(1 .. MaxTargets)
      BY DEF Samples, Data
    <2>2. Flagged \in Policies
      BY <2>1, PolicyOps DEF Flagged
    <2>3. Judged \in Policies
      BY <2>1, <2>2, PolicyOps DEF Judged
    <2>4. Applied(Judged, queue) \in Policies
      BY <2>1, <2>3, PolicyOps
    <2>5. \A p \in Policies : Stepped(p) \in Policies
      BY <2>1, PolicyOps DEF Stepped
    <2>6. \A p \in Policies : Command(p) \in Cmds
      BY DEF Command, Cmds, Policies, Zero
    <2>7. policy' \in Policies /\ (cmd' \in Cmds \/ cmd' = cmd)
      BY <1>2, <2>3, <2>4, <2>5, <2>6, Zenon DEF Wake
    <2>8. queue' \in Seq(1 .. MaxTargets) /\ Len(queue') <= MaxQueue
      <3>1. queue' = <<>> \/ queue' = queue
        BY <1>2, Zenon DEF Wake
      <3>2. <<>> \in Seq(1 .. MaxTargets) /\ Len(<<>>) <= MaxQueue
        OBVIOUS
      <3> QED
        BY <3>1, <3>2, Zenon DEF Data
    <2>9. (worker' = "submit" \/ worker' = worker) /\ pending' = None
      BY <1>2, Zenon DEF Wake
    <2>10. Flags'
      BY <1>2, Zenon DEF Wake, ObservationKept, Flags
    <2>11. UNCHANGED <<kind, phase, clock, epoch, latest, lane, wire, issued, resetAt, blind>>
      BY <1>2, Zenon DEF Wake
    <2>12. Data'
      BY <2>7, <2>8, <2>9, <2>11, SMT DEF Data
    <2> QED
      BY <2>10, <2>12
  <1>3. CASE Submit
    BY <1>3 DEF Submit, Zero, Cmds, Flags, Data
  <1>4. CASE SubmitFails
    <2>1. policy' \in Policies
      BY <1>4, PolicyOps DEF SubmitFails, Data
    <2> QED
      BY <1>4, <2>1 DEF SubmitFails, Zero, Cmds, Flags, Data
  <1> QED
    BY <1>1, <1>2, <1>3, <1>4 DEF WorkerStep

(* They hold to begin with, and through every step.                        *)
LEMMA InitTypes == Init => Flags /\ Data
  <1>1. Init => Flags
    BY Zenon DEF Init, Flags
  <1>2. Init => Data
    BY SMT DEF Init, Data, Phases, NoSample, Samples, NoPolicy, Seeded, Policies, Zero, Cmds
  <1> QED
    BY <1>1, <1>2

(* Every step keeps the types.                                             *)
LEMMA TypesStep == Flags /\ Data /\ [Next]_vars => Flags' /\ Data'
  <1>1. Flags /\ Data /\ Next => Flags' /\ Data'
    BY TypesOfOwner, TypesOfEvents, TypesOfWorker DEF Next, WorldStep
  <1>2. Flags /\ Data /\ UNCHANGED vars => Flags' /\ Data'
    BY DEF Flags, Data, vars, ownerVars, statusVars, bellVars, linkVars, histVars
  <1> QED
    BY <1>1, <1>2

---------------------------------------------------------------------------
(* Fault evidence and motion *)

(* Evidence that came is in pending_status_fault_ or in the policy; a      *)
(* motion written blindly is excused by the evidence or the age of the     *)
(* last sample until both are gone; and there is none to excuse while a    *)
(* motion command waits to be written.                                     *)
Blindness ==
  /\ known => pending # None \/ policy.state = "fault"
  /\ blind > 0 => known \/ Stale
  /\ cmd.motion => blind = 0
  /\ FaultStopsMotion

(* A reported fault, and one that a requested step would report, comes     *)
(* from a sample that is no older than the last start() or reset().        *)
Evidence ==
  /\ FaultsAreCurrent
  /\ pending # None => pending >= epoch
  /\ stepReq => pending # None \/ latest.t >= epoch

(* The force queue ends with the newest command, which otherwise is the    *)
(* target of a live policy; impedance has it in the policy from the start. *)
Targets ==
  /\ resetAt <= issued
  /\ kind = "force" =>
       /\ queue # <<>> => queue[Len(queue)] = issued
       /\ policy.state = "live" /\ issued > resetAt => queue # <<>> \/ policy.target = issued
  /\ kind = "impedance" =>
       /\ queue = <<>>
       /\ policy.target = IF issued > resetAt THEN issued ELSE 0

(* Starting and stopping, and what happens to the link, touches none of    *)
(* the variables these are about.                                          *)
QuietStep == StartStep \/ StopFlag \/ StopStep \/ WorkerExits \/ LaneCloses \/ LinkDrops

(* Steps that only move a thread on leave the control data alone.          *)
LEMMA QuietStepLeaves ==
  QuietStep => UNCHANGED <<kind, clock, epoch, latest, pending, stepReq, policy, queue, cmd, issued,
                           resetAt, known, blind>>
  BY Zenon DEF QuietStep, StartStep, SubscribeDone, SubscribeFails, StreamFails, Launch, StopFlag, StopStep,
     Join, Retire, ZeroFrame, Disable, Unsubscribe, StopDone, WorkerExits, LaneCloses, LinkDrops,
     statusVars, bellVars, histVars

(* Time goes by, and that is all these are told of.                        *)
LEMMA TimeStepLeaves ==
  Sample \/ Tick => /\ clock' = clock + 1
                    /\ UNCHANGED <<kind, epoch, latest, pending, stepReq, policy, queue, cmd, issued,
                                   resetAt, known, blind>>
  BY DEF Sample, Tick, statusVars, bellVars, histVars

(* fail() leaves a policy in Fault, and one that is there as it is.        *)
LEMMA FailedFaults ==
  ASSUME NEW p \in Policies, NEW why, NEW t
  PROVE  /\ Failed(p, why, t).state = "fault"
         /\ Failed(p, why, t).target = p.target
         /\ p.state = "fault" => Failed(p, why, t) = p
         /\ p.state # "fault" => Failed(p, why, t).why = why /\ Failed(p, why, t).t = t
  BY DEF Failed, Policies

(* What a wake of the worker does to the policy, and the command that it   *)
(* computes: a motion only if there is no evidence and a fresh sample.     *)
LEMMA WakeJudges ==
  ASSUME Data, Wake
  PROVE  /\ pending' = None /\ stepReq' = FALSE
         /\ UNCHANGED <<kind, clock, epoch, latest, issued, resetAt, known, blind>>
         /\ pending # None \/ policy.state = "fault" => policy'.state = "fault"
         /\ policy'.state = "fault" /\ policy'.why = "status" =>
              \/ policy.state = "fault" /\ policy.why = "status" /\ policy'.t = policy.t
              \/ pending # None /\ policy'.t = pending
              \/ pending = None /\ stepReq /\ policy'.t = latest.t
         /\ \/ UNCHANGED <<queue, cmd, worker>> /\ policy'.target = policy.target
               /\ policy'.state \in {policy.state, "fault"}
            \/ /\ queue' = <<>> /\ worker' = "submit"
               /\ policy'.target \in {policy.target, Applied(policy, queue).target}
               /\ policy'.state \in {policy.state, "fault"}
               /\ policy'.state = "live" => policy' = Applied(policy, queue)
               /\ cmd'.motion => /\ pending = None /\ ~Stale /\ policy.state = "live"
                                 /\ policy'.state = "live" /\ cmd'.target = policy'.target
  <1> DEFINE fed == IF Stale THEN Judged ELSE Applied(Judged, queue)
  <1>1. /\ worker = "wait" /\ pending' = None /\ stepReq' = FALSE
        /\ UNCHANGED <<kind, clock, epoch, latest, issued, resetAt, known, blind>>
    BY Zenon DEF Wake, histVars
  <1>2. policy \in Policies /\ queue \in Seq(1 .. MaxTargets) /\ latest.t \in 0 .. MaxClock
    BY DEF Data, Samples
  <1>3. /\ pending # None => Flagged = Failed(policy, "status", pending)
        /\ pending = None => Flagged = policy
        /\ Flagged \in Policies
    BY <1>2, PolicyOps DEF Flagged, Data
  <1>4. /\ Stale => Judged = Failed(Flagged, "stale", latest.t)
        /\ ~Stale => Judged = Flagged
        /\ Judged \in Policies
    BY <1>2, <1>3, PolicyOps DEF Judged
  <1>5. /\ Judged.state # "fault" => Judged = policy /\ pending = None /\ ~Stale
        /\ Judged.state \in {policy.state, "fault"} /\ Judged.target = policy.target
        /\ policy.state = "fault" => Judged = policy
        /\ Judged.state = "fault" /\ Judged.why = "status" =>
             \/ policy.state = "fault" /\ Judged = policy
             \/ pending # None /\ Judged.t = pending
    <2>1. /\ Flagged.state # "fault" => Flagged = policy /\ pending = None
          /\ Flagged.state \in {policy.state, "fault"} /\ Flagged.target = policy.target
          /\ policy.state = "fault" => Flagged = policy
          /\ Flagged.state = "fault" =>
               Flagged = policy \/ (pending # None /\ Flagged.t = pending)
      BY <1>2, <1>3, FailedFaults
    <2>2. /\ Judged.state # "fault" => Judged = Flagged /\ ~Stale
          /\ Judged.state \in {Flagged.state, "fault"} /\ Judged.target = Flagged.target
          /\ Flagged.state = "fault" => Judged = Flagged
          /\ Judged.state = "fault" => Judged = Flagged \/ Judged.why = "stale"
      BY <1>3, <1>4, FailedFaults
    <2> QED
      BY <2>1, <2>2
  <1>6. \A p \in Policies : /\ Applied(p, queue) \in Policies
                            /\ Applied(p, queue).state = p.state
                            /\ Applied(p, queue).why = p.why /\ Applied(p, queue).t = p.t
                            /\ p.state = "fault" => Applied(p, queue) = p
    <2> TAKE p \in Policies
    <2>1. Applied(p, queue) \in Policies
      BY <1>2, PolicyOps
    <2>2. CASE Applied(p, queue) = p
      BY <2>1, <2>2
    <2>3. CASE p.state = "live" /\ Applied(p, queue) = [p EXCEPT !.target = queue[Len(queue)]]
      BY <2>1, <2>3 DEF Policies
    <2> QED
      BY <2>1, <2>2, <2>3 DEF Applied
  <1>7. \A p \in Policies : /\ Stepped(p).target = p.target
                            /\ Stepped(p).state \in {p.state, "fault"}
                            /\ p.state = "fault" \/ ~latest.fault => Stepped(p) = p
                            /\ p.state # "fault" /\ latest.fault => Stepped(p).t = latest.t
                            /\ Stepped(p).state # "fault" => Stepped(p) = p
    <2> TAKE p \in Policies
    <2>1. CASE latest.fault
      BY <2>1, FailedFaults DEF Stepped
    <2>2. CASE ~latest.fault
      BY <2>2 DEF Stepped
    <2> QED
      BY <2>1, <2>2
  <1>8. \/ ~StepDue /\ policy' = Judged /\ UNCHANGED <<queue, cmd, worker>>
        \/ /\ StepDue /\ queue' = <<>> /\ worker' = "submit"
           /\ policy' = Stepped(fed) /\ cmd' = Command(Stepped(fed))
    BY Zenon DEF Wake
  <1>9. CASE ~StepDue /\ policy' = Judged /\ UNCHANGED <<queue, cmd, worker>>
    BY <1>1, <1>5, <1>9, Zenon
  <1>10. CASE /\ StepDue /\ queue' = <<>> /\ worker' = "submit"
              /\ policy' = Stepped(fed) /\ cmd' = Command(Stepped(fed))
    <2>1. /\ fed \in Policies /\ fed.state = Judged.state
          /\ fed.why = Judged.why /\ fed.t = Judged.t
          /\ Judged.state = "fault" => fed = Judged
          /\ Judged.state # "fault" => fed = Applied(policy, queue)
      BY <1>4, <1>5, <1>6, Zenon
    <2>2. /\ policy'.state \in {policy.state, "fault"} /\ policy'.target = fed.target
          /\ pending # None \/ policy.state = "fault" => policy'.state = "fault"
      BY <1>5, <1>7, <1>10, <2>1, Zenon
    <2>3. policy'.target \in {policy.target, Applied(policy, queue).target}
      BY <1>5, <2>1, <2>2, Zenon
    <2>4. policy'.state # "fault" => /\ policy' = Applied(policy, queue)
                                     /\ pending = None /\ ~Stale
      BY <1>5, <1>7, <1>10, <2>1, Zenon
    <2>5. cmd'.motion => policy'.state = "live" /\ cmd'.target = policy'.target
      BY <1>10, Zenon DEF Command, Zero
    <2>6. policy'.state = "fault" /\ policy'.why = "status" =>
              \/ policy.state = "fault" /\ policy.why = "status" /\ policy'.t = policy.t
              \/ pending # None /\ policy'.t = pending
              \/ pending = None /\ stepReq /\ policy'.t = latest.t
      <3>1. CASE Judged.state = "fault"
        <4>1. policy' = Judged
          BY <1>7, <1>10, <2>1, <3>1
        <4> QED
          BY <1>5, <3>1, <4>1
      <3>2. CASE Judged.state # "fault"
        <4>1. pending = None /\ stepReq
          BY <1>5, <1>10, <3>2, Zenon DEF StepDue
        <4>2. policy'.state = "fault" => policy'.t = latest.t
          BY <1>7, <1>10, <2>1, <3>2, Zenon
        <4> QED
          BY <4>1, <4>2
      <3> QED
        BY <3>1, <3>2
    <2>7. "live" # "fault"
      OBVIOUS
    <2> QED
      BY <1>1, <1>10, <2>2, <2>3, <2>4, <2>5, <2>6, <2>7, Zenon
  <1> QED
    BY <1>8, <1>9, <1>10

(* What a delivered sample does: nothing if it is old; else its fault is   *)
(* latched, a step is requested, and it may become the latest.             *)
LEMMA OnStatusTakes ==
  ASSUME Data, NEW x \in lane, OnStatus(x)
  PROVE  /\ UNCHANGED <<kind, clock, epoch, policy, queue, cmd, issued, resetAt>>
         /\ \/ UNCHANGED <<latest, pending, stepReq, known, blind>>
            \/ /\ x.t >= epoch
               /\ pending' = IF pending = None /\ x.fault THEN x.t ELSE pending
               /\ (known => known') /\ (known' => known \/ x.fault)
               /\ latest' \in {latest, x}
               /\ blind' \in {blind, 0}
               /\ latest' # latest /\ ~known => blind' = 0
               /\ stepReq' => stepReq \/ pending' # None \/ latest' = x
  <1>1. UNCHANGED <<kind, clock, epoch, policy, queue, cmd, issued, resetAt>>
    BY DEF OnStatus
  <1>2. CASE Ignored(x)
    BY <1>1, <1>2, Zenon DEF OnStatus
  <1>3. CASE ~Ignored(x)
    <2>1. x.t >= epoch
      BY <1>3 DEF Ignored, Data, Samples
    <2>2. /\ pending' = IF pending = None /\ x.fault THEN x.t ELSE pending
          /\ (known => known') /\ (known' => known \/ x.fault)
          /\ latest' \in {latest, x}
          /\ blind' \in {blind, 0}
      BY <1>3, Zenon DEF OnStatus
    <2>3. latest' # latest /\ ~known => blind' = 0
      BY <1>3, Zenon DEF OnStatus
    <2>4. stepReq' => stepReq \/ pending' # None \/ latest' = x
      BY <1>3, Zenon DEF OnStatus
    <2> QED
      BY <1>1, <2>1, <2>2, <2>3, <2>4
  <1> QED
    BY <1>2, <1>3

(* Commands and reset().                                                   *)
LEMMA CallersChange ==
  ASSUME Data
  PROVE  /\ SetTarget =>
              /\ UNCHANGED <<kind, clock, epoch, latest, pending, stepReq, cmd, resetAt, known, blind>>
              /\ issued' = issued + 1 /\ policy'.state = policy.state
              /\ policy'.why = policy.why /\ policy'.t = policy.t
              /\ kind = "force" => /\ queue' # <<>> /\ queue'[Len(queue')] = issued'
              /\ kind # "force" => queue' = queue /\ policy'.target = issued'
         /\ Reset =>
              /\ UNCHANGED <<kind, clock, latest, queue, cmd, issued>>
              /\ policy' = Seeded /\ pending' = None /\ epoch' = clock /\ stepReq' = FALSE
              /\ resetAt' = issued /\ known' = FALSE /\ blind' = 0
  <1>1. ASSUME SetTarget
        PROVE  /\ UNCHANGED <<kind, clock, epoch, latest, pending, stepReq, cmd, resetAt, known, blind>>
               /\ issued' = issued + 1 /\ policy'.state = policy.state
               /\ policy'.why = policy.why /\ policy'.t = policy.t
               /\ kind = "force" => /\ queue' # <<>> /\ queue'[Len(queue')] = issued'
               /\ kind # "force" => queue' = queue /\ policy'.target = issued'
    <2>1. issued + 1 \in 1 .. MaxTargets
      BY <1>1 DEF SetTarget, Data
    <2>2. kind = "force" => queue' # <<>> /\ queue'[Len(queue')] = issued'
      BY <1>1, <2>1, EnqueuedFits DEF SetTarget, Data
    <2>3. /\ policy'.state = policy.state /\ policy'.why = policy.why /\ policy'.t = policy.t
          /\ kind # "force" => queue' = queue /\ policy'.target = issued'
      BY <1>1 DEF SetTarget, Data, Policies
    <2> QED
      BY <1>1, <2>2, <2>3 DEF SetTarget, statusVars, histVars
  <1>2. ASSUME Reset
        PROVE  /\ UNCHANGED <<kind, clock, latest, queue, cmd, issued>>
               /\ policy' = Seeded /\ pending' = None /\ epoch' = clock /\ stepReq' = FALSE
               /\ resetAt' = issued /\ known' = FALSE /\ blind' = 0
    BY <1>2, Zenon DEF Reset
  <1> QED
    BY <1>1, <1>2

(* Writing the command, or failing to.                                     *)
LEMMA SubmitChanges ==
  ASSUME Data, Submit \/ SubmitFails
  PROVE  /\ UNCHANGED <<kind, clock, epoch, latest, pending, stepReq, queue, issued, resetAt, known>>
         /\ cmd' = Zero
         /\ \/ policy' = policy
            \/ policy' = Failed(policy, "submit", clock) /\ blind' = blind
         /\ blind' = blind \/ (cmd.motion /\ (known \/ Stale) /\ blind' = blind + 1)
  BY Zenon DEF Submit, SubmitFails, statusVars, bellVars, histVars

---------------------------------------------------------------------------
(* At most one motion command is written blindly. *)

(* Every step keeps a blind controller from motion.                        *)
LEMMA BlindnessStep == Data /\ Blindness /\ Next => Blindness'
  <1> SUFFICES ASSUME Data, Blindness, Next PROVE Blindness'
    OBVIOUS
  <1> USE DEF Blindness, FaultStopsMotion
  <1>0. /\ blind \in Nat /\ clock \in Nat /\ latest.t \in Nat /\ policy \in Policies
        /\ pending # None => pending \in Nat
    BY DEF Data, Samples
  <1>1. CASE StartInit
    <2>1. known' => pending' # None
      BY <1>0, <1>1 DEF StartInit, Data
    <2>2. blind' = 0
      BY <1>1 DEF StartInit
    <2> QED
      BY <2>1, <2>2
  <1>2. CASE QuietStep
    BY <1>2, QuietStepLeaves DEF Stale
  <1>3. CASE Sample \/ Tick
    BY <1>0, <1>3, TimeStepLeaves DEF Stale
  <1>4. CASE SetTarget
    BY <1>4, CallersChange DEF Stale
  <1>5. CASE Reset
    BY <1>5, CallersChange
  <1>6. CASE Deliver
    <2> PICK x \in lane : OnStatus(x)
      BY <1>6 DEF Deliver
    <2>1. x.t \in Nat
      BY DEF Data, Samples
    <2>2. known' => pending' # None \/ policy'.state = "fault"
      BY <2>1, OnStatusTakes
    <2>3. (cmd'.motion => blind' = 0) /\ blind' <= 1
      BY <1>0, OnStatusTakes
    <2>4. blind' > 0 => known' \/ Stale'
      <3>1. (known => known') /\ clock' = clock
        BY OnStatusTakes
      <3>2. latest' = latest => blind' \in {blind, 0} /\ (Stale => Stale')
        BY <3>1, OnStatusTakes DEF Stale
      <3>3. latest' # latest => known \/ blind' = 0
        BY OnStatusTakes
      <3> QED
        BY <1>0, <3>1, <3>2, <3>3
    <2> QED
      BY <2>2, <2>3, <2>4
  <1>7. CASE Wake
    <2>2. known' => policy'.state = "fault"
      BY <1>7, WakeJudges
    <2>3. blind' > 0 => known' \/ Stale'
      BY <1>7, WakeJudges DEF Stale
    <2>4. cmd'.motion => blind' = 0
      <3>1. CASE UNCHANGED cmd
        BY <1>7, <3>1, WakeJudges
      <3>2. CASE ~UNCHANGED cmd
        BY <1>0, <1>7, <3>2, WakeJudges
      <3> QED
        BY <3>1, <3>2
    <2> QED
      BY <1>7, <2>2, <2>3, <2>4, WakeJudges
  <1>8. CASE Submit \/ SubmitFails
    <2>1. policy.state = "fault" => policy'.state = "fault"
      BY <1>0, <1>8, SubmitChanges, FailedFaults
    <2>2. ~cmd'.motion
      BY <1>8, SubmitChanges DEF Zero
    <2>3. blind' > 0 => known' \/ Stale'
      BY <1>8, SubmitChanges DEF Stale
    <2>4. blind' <= 1
      BY <1>8, SubmitChanges
    <2>5. known' => pending' # None \/ policy'.state = "fault"
      BY <1>8, <2>1, SubmitChanges, Zenon
    <2> QED
      BY <2>2, <2>3, <2>4, <2>5
  <1> QED
    BY <1>1, <1>2, <1>3, <1>4, <1>5, <1>6, <1>7, <1>8 DEF Next, WorkerStep, QuietStep

(* A fault is never reported for a sample from before the last reset.      *)
LEMMA EvidenceStep == Data /\ Evidence /\ Next => Evidence'
  <1> SUFFICES ASSUME Data, Evidence, Next PROVE Evidence'
    OBVIOUS
  <1> USE DEF Evidence, FaultsAreCurrent
  <1>0. /\ clock \in Nat /\ epoch \in Nat /\ latest.t \in Nat /\ policy \in Policies
        /\ pending # None => pending \in Nat
    BY DEF Data, Samples
  <1>1. CASE StartInit
    BY <1>0, <1>1 DEF StartInit, Data, Seeded
  <1>2. CASE QuietStep
    BY <1>2, QuietStepLeaves
  <1>3. CASE Sample \/ Tick
    BY <1>3, TimeStepLeaves
  <1>4. CASE SetTarget
    BY <1>4, CallersChange
  <1>5. CASE Reset
    BY <1>5, CallersChange DEF Seeded
  <1>6. CASE Deliver
    <2> PICK x \in lane : OnStatus(x)
      BY <1>6 DEF Deliver
    <2>1. x.t \in Nat
      BY DEF Data, Samples
    <2> QED
      BY <1>0, <2>1, OnStatusTakes
  <1>7. CASE Wake
    BY <1>0, <1>7, WakeJudges
  <1>8. CASE Submit \/ SubmitFails
    <2>1. policy'.state = "fault" /\ policy'.why = "status" =>
            policy.state = "fault" /\ policy.why = "status" /\ policy'.t = policy.t
      BY <1>0, <1>8, SubmitChanges, FailedFaults
    <2> QED
      BY <1>8, <2>1, SubmitChanges
  <1> QED
    BY <1>1, <1>2, <1>3, <1>4, <1>5, <1>6, <1>7, <1>8 DEF Next, WorkerStep, QuietStep

(* The newest command is where the next motion takes it from.              *)
LEMMA TargetsStep == Data /\ Targets /\ Next => Targets'
  <1> SUFFICES ASSUME Data, Targets, Next PROVE Targets'
    OBVIOUS
  <1> USE DEF Targets
  <1>0. issued \in Nat /\ resetAt \in Nat /\ policy \in Policies
    BY DEF Data
  <1>1. CASE StartInit
    BY <1>0, <1>1 DEF StartInit, Seeded
  <1>2. CASE QuietStep
    BY <1>2, QuietStepLeaves
  <1>3. CASE Sample \/ Tick
    BY <1>3, TimeStepLeaves
  <1>4. CASE SetTarget
    BY <1>0, <1>4, CallersChange
  <1>5. CASE Reset
    BY <1>0, <1>5, CallersChange DEF Seeded
  <1>6. CASE Deliver
    BY <1>6, OnStatusTakes, Zenon DEF Deliver
  <1>7. CASE Wake
    BY <1>0, <1>7, WakeJudges DEF Applied, Policies
  <1>8. CASE Submit \/ SubmitFails
    <2>1. policy'.target = policy.target /\ policy'.state \in {policy.state, "fault"}
      BY <1>0, <1>8, SubmitChanges, FailedFaults
    <2> QED
      BY <1>8, <2>1, SubmitChanges
  <1> QED
    BY <1>1, <1>2, <1>3, <1>4, <1>5, <1>6, <1>7, <1>8 DEF Next, WorkerStep, QuietStep

---------------------------------------------------------------------------
(* Stopping *)

(* run_() lives between Launch and Join.                                   *)
WorkerLives == worker # "none" => phase \in {"on", "flagged"}

(* A motion is on a working wire only until stop() has written its zero    *)
(* frame, which it does because a sample was there.                        *)
Quieting ==
  /\ worker = "submit" => have
  /\ wire = "motion" /\ linkUp => have /\ phase \in {"on", "flagged", "joined", "retired"}

(* The flag is down while start() runs, and when it is up and the          *)
(* impedance controller has been retired nothing makes its observation     *)
(* valid.                                                                  *)
Retiring ==
  /\ phase \in {"subscribing", "streaming", "on"} => ~stopReq
  /\ stopReq /\ kind = "impedance" /\ phase \notin {"on", "flagged", "joined"} => ~obsValid

Stopping == WorkerLives /\ Quieting /\ Retiring

(* Of the variables these are about, callers and time change none,         *)
LEMMA OthersLeave ==
  SetTarget \/ Reset \/ Sample \/ Tick \/ LaneCloses =>
    UNCHANGED <<kind, phase, worker, stopReq, have, obsValid, linkUp, wire>>
  BY Zenon DEF SetTarget, Reset, Sample, Tick, LaneCloses, ownerVars, statusVars, linkVars

(* start() and stop() neither motion nor the worker, but for Launch, Join, *)
(* and the zero frame,                                                     *)
LEMMA StoppingOfOwner ==
  Stopping /\ (StartInit \/ StartStep \/ StopFlag \/ StopStep) => Stopping'
  <1> SUFFICES ASSUME Stopping, StartInit \/ StartStep \/ StopFlag \/ StopStep PROVE Stopping'
    OBVIOUS
  <1> USE DEF Stopping, WorkerLives, Quieting, Retiring, ownerVars, statusVars, linkVars
  <1>1. CASE StartInit
    BY <1>1 DEF StartInit
  <1>2. CASE SubscribeDone
    BY <1>2 DEF SubscribeDone
  <1>3. CASE SubscribeFails
    BY <1>3 DEF SubscribeFails
  <1>4. CASE StreamFails
    BY <1>4 DEF StreamFails
  <1>5. CASE Launch
    BY <1>5 DEF Launch
  <1>6. CASE StopFlag
    BY <1>6 DEF StopFlag
  <1>7. CASE Join
    BY <1>7 DEF Join
  <1>8. CASE Retire
    BY <1>8 DEF Retire
  <1>9. CASE ZeroFrame
    BY <1>9 DEF ZeroFrame
  <1>10. CASE Disable
    BY <1>10 DEF Disable
  <1>11. CASE Unsubscribe
    BY <1>11 DEF Unsubscribe
  <1>12. CASE StopDone
    BY <1>12 DEF StopDone
  <1> QED
    BY <1>1, <1>2, <1>3, <1>4, <1>5, <1>6, <1>7, <1>8, <1>9, <1>10, <1>11, <1>12
       DEF StartStep, StopStep

(* and the worker and late samples are kept in bounds by the flag.         *)
LEMMA StoppingStep == Stopping /\ Next => Stopping'
  <1> SUFFICES ASSUME Stopping, Next PROVE Stopping'
    OBVIOUS
  <1> USE DEF Stopping, WorkerLives, Quieting, Retiring, ownerVars, statusVars, linkVars
  <1>1. CASE StartInit \/ StartStep \/ StopFlag \/ StopStep
    BY <1>1, StoppingOfOwner
  <1>2. CASE SetTarget \/ Reset \/ Sample \/ Tick \/ LaneCloses
    BY <1>2, OthersLeave
  <1>3. CASE Deliver
    <2> PICK x \in lane : OnStatus(x)
      BY <1>3 DEF Deliver
    <2>1. /\ UNCHANGED <<kind, phase, worker, stopReq, linkUp, wire>>
          /\ have => have'
          /\ obsValid' => obsValid \/ ~stopReq
      BY Zenon DEF OnStatus, Ignored
    <2> QED
      BY <2>1, Zenon
  <1>4. CASE WorkerExits
    BY <1>4 DEF WorkerExits
  <1>5. CASE Wake
    <2>1. /\ UNCHANGED <<kind, phase, stopReq, have, linkUp, wire>>
          /\ worker = "wait" /\ worker' \in {"wait", "submit"} /\ have
          /\ obsValid' => obsValid
      BY <1>5, Zenon DEF Wake, ObservationKept
    <2> QED
      BY <2>1, Zenon
  <1>6. CASE Submit \/ SubmitFails
    <2>1. /\ UNCHANGED <<kind, phase, stopReq, have, obsValid, linkUp>>
          /\ worker = "submit" /\ worker' = "wait"
      BY <1>6, Zenon DEF Submit, SubmitFails
    <2> QED
      BY <2>1
  <1>7. CASE LinkDrops
    BY <1>7 DEF LinkDrops
  <1> QED
    BY <1>1, <1>2, <1>3, <1>4, <1>5, <1>6, <1>7 DEF Next, WorkerStep

---------------------------------------------------------------------------
(* The results *)

(* Only a wake of the worker makes a command.                              *)
LEMMA OnlyWakeComputes ==
  [Next]_vars /\ worker = "wait" /\ worker' = "submit" => Wake
  <1>1. StartInit \/ SubscribeDone \/ SubscribeFails \/ StreamFails \/ StopFlag => worker' = worker
    BY Zenon DEF StartInit, SubscribeDone, SubscribeFails, StreamFails, StopFlag
  <1>2. Retire \/ ZeroFrame \/ Disable \/ Unsubscribe \/ StopDone => worker' = worker
    BY Zenon DEF Retire, ZeroFrame, Disable, Unsubscribe, StopDone
  <1>3. SetTarget \/ Reset \/ Deliver \/ WorldStep => worker' = worker
    BY Zenon DEF SetTarget, Reset, Deliver, OnStatus, WorldStep, Sample, Tick, LaneCloses, LinkDrops
  <1>4. Launch \/ Join \/ WorkerExits \/ Submit \/ SubmitFails => worker' # "submit"
    BY DEF Launch, Join, WorkerExits, Submit, SubmitFails
  <1> QED
    BY <1>1, <1>2, <1>3, <1>4
       DEF Next, StartStep, StopStep, WorkerStep, WorldStep, vars

(* The inductive invariant.                                                *)
IInv == Flags /\ Data /\ Blindness /\ Evidence /\ Targets /\ Stopping

(* The inductive invariant holds of every behaviour.                       *)
LEMMA Invariant == Spec => []IInv
  <1>1. Init => IInv
    <2>1. Init => Flags /\ Data
      BY InitTypes
    <2>2. Init => Blindness /\ Evidence
      BY DEF Init, Blindness, Evidence, FaultStopsMotion, FaultsAreCurrent, NoPolicy, Seeded, Zero
    <2>3. Init => Targets
      BY DEF Init, Targets, NoPolicy, Seeded
    <2>4. Init => Stopping
      BY DEF Init, Stopping, WorkerLives, Quieting, Retiring
    <2> QED
      BY <2>1, <2>2, <2>3, <2>4 DEF IInv
  <1>2. IInv /\ [Next]_vars => IInv'
    <2>1. IInv /\ Next => IInv'
      BY TypesStep, BlindnessStep, EvidenceStep, TargetsStep, StoppingStep DEF IInv
    <2>2. IInv /\ UNCHANGED vars => IInv'
      <3> SUFFICES ASSUME IInv, UNCHANGED vars PROVE IInv'
        OBVIOUS
      <3> USE DEF IInv, vars, ownerVars, statusVars, bellVars, linkVars, histVars
      <3>1. Flags' /\ Data'
        BY TypesStep
      <3>2. Blindness' /\ Evidence'
        BY DEF Blindness, Evidence, FaultStopsMotion, FaultsAreCurrent, Stale
      <3>3. Targets' /\ Stopping'
        BY DEF Targets, Stopping, WorkerLives, Quieting, Retiring
      <3> QED
        BY <3>1, <3>2, <3>3
    <2> QED
      BY <2>1, <2>2
  <1> QED
    BY <1>1, <1>2, PTL DEF Spec

(* Every variable stays in its type.                                       *)
THEOREM TypesHold == Spec => []TypeOK
  <1>1. IInv => TypeOK
    BY TypeParts DEF IInv
  <1> QED
    BY <1>1, Invariant, PTL

(* Once fault evidence was delivered, or the last sample has grown stale,  *)
(* at most one more motion command is written until reset().               *)
THEOREM FaultStopsMotionHolds == Spec => []FaultStopsMotion
  <1>1. IInv => FaultStopsMotion
    BY DEF IInv, Blindness
  <1> QED
    BY <1>1, Invariant, PTL

(* A status fault of the policy is never older than the last reset().      *)
THEOREM FaultsAreCurrentHolds == Spec => []FaultsAreCurrent
  <1>1. IInv => FaultsAreCurrent
    BY DEF IInv, Evidence
  <1> QED
    BY <1>1, Invariant, PTL

(* A controller that was stopped is at rest: on a working link the motor   *)
(* was told so, and ImpedanceController's observation stays invalid.       *)
THEOREM StoppedForGoodHolds == Spec => []StoppedForGood
  <1>1. IInv => StoppedForGood
    BY DEF IInv, Stopping, Quieting, Retiring, StoppedForGood, QuietAfterStop, RetiredForGood
  <1> QED
    BY <1>1, Invariant, PTL

(* A motion command aims at the newest target given since start() or       *)
(* reset(), and an ImpedanceController command at no older one.            *)
THEOREM TargetsCurrentHolds == Spec => TargetsCurrent
  <1> DEFINE Aims == worker = "wait" /\ worker' = "submit" /\ cmd'.motion =>
                       IF issued > resetAt THEN cmd'.target = issued
                       ELSE kind = "impedance" => cmd'.target = 0
  <1>1. IInv /\ [Next]_vars => Aims
    <2> SUFFICES ASSUME IInv, [Next]_vars, worker = "wait", worker' = "submit", cmd'.motion
                 PROVE  IF issued > resetAt THEN cmd'.target = issued
                        ELSE kind = "impedance" => cmd'.target = 0
      OBVIOUS
    <2>1. Wake
      BY OnlyWakeComputes
    <2>2. /\ policy.state = "live" /\ cmd'.target = Applied(policy, queue).target
      BY <2>1, WakeJudges DEF IInv
    <2>3. kind \in {"force", "impedance"} /\ policy \in Policies
      BY DEF IInv, Data, AllKinds
    <2> QED
      BY <2>2, <2>3 DEF IInv, Targets, Applied, Policies
  <1> QED
    BY <1>1, Invariant, PTL DEF Spec, TargetsCurrent
=============================================================================
