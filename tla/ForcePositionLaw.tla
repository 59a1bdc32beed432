--------------------------- MODULE ForcePositionLaw ---------------------------
(***************************************************************************)
(* detail::ForcePositionPolicy (force_position_controller.cpp): the control *)
(* law of a grasp.  Each frame of the motor's status it turns the caller's *)
(* target and torque budget into one impedance command; what it reports    *)
(* (holding, arrived) it derives from that command.                        *)
(* Angles, torques and gains are integers; a frame is one unit of time, so *)
(* a speed is an angle per frame.  Quotients are rounded to the inside of  *)
(* the interval they bound.  The playback of a streamed target (its lag,   *)
(* the smoothed frame clock, the interpolation) is abstracted to any point *)
(* between two targets that are held.                                      *)
(* The jaw is external: it moves as it likes, or stands for good.          *)
(***************************************************************************)
EXTENDS Integers, Sequences, FiniteSets

CONSTANTS
  Kp, Kd,      \* position_kp, travel_kd
  Speed,       \* close_speed_radps
  Open,        \* the raw angle of the open jaw, negative on a reversed gripper
  Grasps,      \* torque budgets a target may have; hold_torque_limit_nm is the largest
  Preload,     \* close_preload_nm
  MotionLimit, \* motion_torque_limit_nm
  TopUp,       \* topup_rate_nmps
  Eps,         \* arrival_eps_rad
  Progress,    \* kStallProgressRad
  Window,      \* kStallWindow, in frames
  History,     \* kHistory
  MaxCommands, \* bound on the caller's commands
  Patience     \* frames after which a jaw that is blocked is gripped

VARIABLES
  jaw,      \* the last status: [pos, vel]
  policy,   \* the members of the policy, see Fresh
  refs,     \* hist_raw_: the targets held for playback
  out,      \* the last command: its branch, the torque it asked of the motor and the
            \* budget it was asked under
  blocked,  \* 0, or the jaw is blocked and the caller quiet, from 1 frame less on
  commands  \* commands so far

vars == <<jaw, policy, refs, out, blocked, commands>>

stuck == blocked > 0

-----------------------------------------------------------------------------
Abs(x) == IF x < 0 THEN -x ELSE x
Less(x, y) == IF x < y THEN x ELSE y
More(x, y) == IF x < y THEN y ELSE x
Clamp(x, low, high) == IF x < low THEN low ELSE IF x > high THEN high ELSE x
Up(x, n) == -((-x) \div n)

Default == CHOOSE g \in Grasps : \A h \in Grasps : h <= g
Positions == IF Open > 0 THEN 0 .. Open ELSE Open .. 0
CloseDir == IF Open > 0 THEN -1 ELSE 1

NoFrame == [pos |-> 0, kp |-> 0, kd |-> 0, ff |-> 0, vel |-> 0]

(* What the motor makes of a command where the jaw is now. *)
Torque(f, s) == f.kp * (f.pos - s.pos) + f.kd * (f.vel - s.vel) + f.ff

-----------------------------------------------------------------------------
(* set_target and the commands that end a grasp. *)

Released(p) == [p EXCEPT !.latched = FALSE, !.topup = 0]

(* Mutant: the target is compared with the one before. *)
CreepingTarget(p, raw) ==
  (p.latched \/ p.topup > 0) /\ Abs(raw - p.target) > Eps

(* A target that moved on from where the push began is a new approach. *)
NewApproach(p, raw) == (p.latched \/ p.topup > 0) /\ Abs(raw - p.anchor) > Eps

Targeted(p, raw, grasp) ==
  [IF NewApproach(p, raw) THEN Released(p) ELSE p EXCEPT !.target = raw, !.grasp = grasp]

(* ref_sample_: a target soon after another is played back after it, any other
   is a step. *)
Sampled(held, raw) ==
  Append(IF Len(held) = History THEN Tail(held) ELSE held, raw)

(* ref_at_: where the playback may be. *)
References(held) ==
  IF Len(held) = 1 THEN {held[1]}
  ELSE UNION {Less(held[i], held[i + 1]) .. More(held[i], held[i + 1]) : i \in 1 .. Len(held) - 1}

-----------------------------------------------------------------------------
(* travel_track_ *)

(* The ramp of before, no further from the jaw than the budget pulls. *)
Reseated(p, s) == Clamp(p.ramp, s.pos - p.grasp \div Kp, s.pos + p.grasp \div Kp)

(* It advances to the reference, never back onto one that trails it. *)
Advanced(prev, target, chase, dir) ==
  LET ramp == IF dir > 0
              THEN Less(prev + Speed, More(chase, Less(prev, target)))
              ELSE More(prev - Speed, Less(chase, More(prev, target)))
  IN Clamp(ramp, prev - Speed, prev + Speed)

(* close_preload_signed_, once the ramp is on a target at the closed end. *)
PreloadAt(ramp, target) == IF ramp = target /\ target = 0 THEN CloseDir * Preload ELSE 0

(* Mutant: the damping is left out of the budget. *)
BoundedBySpring(prev, ramp, s, budget) ==
  Clamp(ramp, s.pos - budget \div Kp, s.pos + budget \div Kp)

(* The ramps whose whole torque, damping included, is within the budget. *)
BoundedByBudget(prev, ramp, s, budget) ==
  LET b == Kp * s.pos + Kd * (prev + s.vel)
  IN Clamp(ramp, Up(b - budget, Kp + Kd), (b + budget) \div (Kp + Kd))

AtRest(p, s) == (p.stalled \/ p.steady) /\ 4 * Abs(s.vel) <= Speed

(* The push on a jaw that stands short of its target: it grows from what the
   spring gives to the budget, where it is latched, and falls back when the jaw
   moves.  A latch goes when the jaw has passed the target. *)
Pushed(p, s, short, base, dir, shortBy) ==
  LET grown == Less(p.grasp, More(p.topup, base) + TopUp)
      q == IF p.latched THEN p
           ELSE IF short /\ AtRest(p, s)
           THEN [p EXCEPT !.topup = grown,
                          !.anchor = IF p.topup = 0 THEN p.target ELSE @,
                          !.latched = grown >= p.grasp,
                          !.dir = IF grown >= p.grasp THEN dir ELSE @]
           ELSE [p EXCEPT !.topup = IF short THEN More(0, @ - TopUp) ELSE 0]
  IN IF q.latched /\ shortBy < -Eps THEN Released(q) ELSE q

(* The frame of a jaw that pushes: pinned on the target. *)
Pinned(p, ff) == [pos |-> p.target, kp |-> Kp, kd |-> Kd, ff |-> ff, vel |-> 0]

Result(p, frame, branch, s) ==
  [policy |-> [p EXCEPT !.told = Less(MotionLimit, Abs(Torque(frame, s)))],
   out |-> [branch |-> branch, torque |-> Torque(frame, s), budget |-> p.grasp]]

(* The first frame seeds the ramp on the jaw and asks for nothing. *)
Seeded(p, s) ==
  Result([p EXCEPT !.ramp = s.pos, !.ramped = TRUE],
         [NoFrame EXCEPT !.pos = s.pos, !.kp = Kp], "seed", s)

travel_track(p, s, chase, dir) ==
  LET prev == Reseated(p, s)
      advanced == Advanced(prev, p.target, chase, dir)
      preload == PreloadAt(advanced, p.target)
      ramp == BoundedByBudget(prev, advanced, s, More(1, p.grasp - Abs(preload)))
      gap == Abs(ramp - p.target)
      parked == gap = 0 \/ (Abs(chase - p.target) <= Eps /\ ramp = chase)
      spring == Kp * (p.target - s.pos)
      shortBy == dir * (p.target - s.pos)
      short == (parked \/ (p.topup > 0 /\ gap <= Eps)) /\ shortBy > Eps
      base == dir * spring + More(0, dir * preload)
      q == Pushed([p EXCEPT !.ramp = ramp], s, short, base, dir, shortBy)
      pinned == spring - Kd * s.vel
  IN IF ~q.latched /\ short /\ q.topup > base
     THEN Result([q EXCEPT !.ramp = p.target], Pinned(p, dir * q.topup - spring), "push", s)
     ELSE IF q.latched /\ gap <= Eps
     THEN Result([q EXCEPT !.ramp = p.target], Pinned(p, dir * p.grasp - pinned), "grip", s)
     ELSE Result(q, [pos |-> ramp, kp |-> Kp, kd |-> Kd, ff |-> preload, vel |-> ramp - prev],
                 "track", s)

-----------------------------------------------------------------------------
(* step *)

(* The two windows: the jaw, and the caller's target, have stayed in place. *)
Watched(p, s) ==
  LET moved == Abs(s.pos - p.stallPos) > Progress
      retargeted == Abs(p.target - p.steadyPos) > Progress
      stall == IF moved THEN 0 ELSE Less(Window, p.stall + 1)
      steady == IF retargeted THEN 0 ELSE Less(Window, p.steadyFor + 1)
  IN [p EXCEPT !.stallPos = IF moved THEN s.pos ELSE @, !.stall = stall,
               !.stalled = stall = Window,
               !.steadyPos = IF retargeted THEN p.target ELSE @, !.steadyFor = steady,
               !.steady = steady = Window]

Limp(p, s) ==
  [policy |-> [p EXCEPT !.told = 0, !.arrived = FALSE, !.holding = FALSE],
   out |-> [branch |-> "limp", torque |-> Torque([NoFrame EXCEPT !.pos = s.pos], s),
            budget |-> 0]]

(* What is reported: the clamp binds and the jaw stays. *)
Holding(p, branch, s) ==
  /\ ~p.arrived
  /\ p.ramped
  /\ \/ branch = "grip"
     \/ /\ 2 * Kp * Abs(p.ramp - s.pos) >= p.grasp
        /\ p.stalled
        /\ 4 * Abs(s.vel) <= Speed

step(p, s, chase) ==
  IF p.state = "fault" THEN Limp(p, s)
  ELSE LET w == Watched(p, s)
           q == [w EXCEPT !.arrived = ~p.latched /\ Abs(p.target - s.pos) <= Eps]
           dir == IF p.latched THEN p.dir ELSE IF p.target > s.pos THEN 1 ELSE -1
           r == IF p.ramped THEN travel_track(q, s, chase, dir) ELSE Seeded(q, s)
       IN [r EXCEPT !.policy.holding = Holding(r.policy, r.out.branch, s)]

(* fail *)
Failed(p) ==
  [Released(p) EXCEPT !.state = "fault", !.told = 0, !.holding = FALSE, !.ramped = FALSE,
                      !.stall = 0, !.stalled = FALSE, !.steadyFor = 0, !.steady = FALSE]

(* A frame: the jaw has moved, its status may report a fault. *)
Frame ==
  /\ \E pos \in IF stuck THEN {jaw.pos} ELSE Positions \cap (jaw.pos - 1 .. jaw.pos + 1),
        fault \in IF stuck THEN {FALSE} ELSE BOOLEAN :
       LET s == [pos |-> pos, vel |-> pos - jaw.pos]
       IN \E chase \in References(refs) :
            LET r == step(IF fault THEN Failed(policy) ELSE policy, s, chase)
            IN /\ stuck => chase = refs[Len(refs)]
               /\ jaw' = s
               /\ policy' = r.policy
               /\ out' = r.out
  /\ blocked' = IF stuck THEN Less(Patience + 1, blocked + 1) ELSE 0
  /\ UNCHANGED <<refs, commands>>

-----------------------------------------------------------------------------
(* The caller. *)

Command ==
  /\ ~stuck
  /\ commands < MaxCommands
  /\ commands' = commands + 1
  /\ UNCHANGED <<jaw, out, blocked>>

set_target ==
  /\ Command
  /\ policy.state # "fault"
  /\ \E raw \in Positions, grasp \in Grasps :
       /\ policy' = Targeted(policy, raw, grasp)
       /\ refs' \in {<<raw>>, Sampled(refs, raw)}

(* A release opens the jaw, with the budget of the configuration. *)
release ==
  /\ Command
  /\ policy.state # "fault"
  /\ policy' = [Released(policy) EXCEPT !.target = Open, !.grasp = Default]
  /\ refs' = <<Open>>

hold_position ==
  /\ Command
  /\ policy.state # "fault"
  /\ policy' = [Released(policy) EXCEPT !.target = jaw.pos, !.ramped = FALSE]
  /\ refs' = <<jaw.pos>>

reset ==
  /\ Command
  /\ policy' = [Failed(policy) EXCEPT !.state = "ok", !.target = jaw.pos, !.grasp = Default,
                                      !.arrived = TRUE]
  /\ refs' = <<jaw.pos>>

(* From now on an object, or nothing, is between the fingers and stays there. *)
Block ==
  /\ ~stuck
  /\ policy.state # "fault"
  /\ blocked' = 1
  /\ UNCHANGED <<jaw, policy, refs, out, commands>>

(* What the constructor takes: the preload within the budget, the budget within
   what the motor may do. *)
validate_config ==
  /\ Speed > 0 /\ Kp > 0 /\ Kd >= 0 /\ Eps >= 0 /\ TopUp > 0
  /\ Default > 0 /\ Default <= MotionLimit
  /\ Preload \in 0 .. Default

Init ==
  /\ validate_config
  /\ \E pos \in {0, Open} :
       /\ jaw = [pos |-> pos, vel |-> 0]
       /\ policy = [state |-> "ok", target |-> pos, grasp |-> Default, told |-> 0,
                    ramp |-> 0, ramped |-> FALSE, latched |-> FALSE, dir |-> 0, topup |-> 0,
                    anchor |-> 0, stallPos |-> pos, stall |-> 0, stalled |-> FALSE,
                    steadyPos |-> pos, steadyFor |-> 0, steady |-> FALSE,
                    arrived |-> TRUE, holding |-> FALSE]
       /\ refs = <<pos>>
       /\ out = [branch |-> "limp", torque |-> 0, budget |-> 0]
       /\ blocked = 0
       /\ commands = 0

Next == Frame \/ set_target \/ release \/ hold_position \/ reset \/ Block

Spec == Init /\ [][Next]_vars

-----------------------------------------------------------------------------
(* The torque a command asks of the motor stays within the budget, whatever the
   jaw does, but for a preload above the budget.  A push is within it, or within
   what is left of one that began under a higher budget; what is damped of a jaw
   that moves while it is pushed comes on top.  And it is told as it is asked. *)
TorqueIsBounded ==
  /\ out.branch = "limp" => out.torque = 0
  /\ out.branch \in {"seed", "track", "grip"} => Abs(out.torque) <= More(out.budget, Preload + 1)
  /\ out.branch = "push" => Abs(out.torque + Kd * jaw.vel) <= More(out.budget, Default - TopUp)
  /\ policy.told \in {0, Less(MotionLimit, Abs(out.torque))}

(* A push that stands above the budget, as a lower one was set while it lasted,
   grows no more: every frame takes some of it back, or the grip is latched, where
   the budget alone counts. *)
PushesFall ==
  policy'.topup > policy'.grasp =>
    \/ policy'.topup = policy.topup - TopUp
    \/ policy'.topup = policy.topup /\ (policy'.latched \/ out' = out)

(* What a test expects of every command, its push included: nothing above the budget
   the caller asked for last (test_force_position_controller.cpp:535-536). *)
PushIsCurrent == out.branch = "push" => Abs(out.torque + Kd * jaw.vel) <= out.budget

(* A grip that is latched is of the target that is asked for: no stream of small
   steps carries it away from where it began (force_position_controller.cpp:412). *)
LatchIsCurrent == policy.latched => Abs(policy.target - policy.anchor) <= Eps

(* On the closed end the preload leaves the ramp less than half of the budget: its
   lead on the jaw never is what step() calls holding (:869), nor what parks it. *)
PreloadOutweighs == policy.target = 0 /\ 2 * Preload > policy.grasp

(* Wherever a jaw is blocked short of a target that stays, it is gripped: with
   at least half the budget, all of it once latched, and holding is reported, but
   where the preload stands in for the ramp. *)
Gripping ==
  /\ policy.holding \/ PreloadOutweighs
  /\ 2 * Abs(out.torque) >= policy.grasp
  /\ (out.torque > 0) = (policy.target > jaw.pos)

BlockedIsGripped ==
  blocked > Patience => Gripping \/ Abs(policy.target - jaw.pos) <= Eps

=============================================================================
