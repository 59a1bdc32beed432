---------------------------- MODULE ImpedanceLaw ----------------------------
(***************************************************************************)
(* detail::ImpedancePolicy (impedance_controller.cpp): a target followed   *)
(* with given gains, the error clamp that bounds what is asked of the      *)
(* motor, and the ceiling on what the motor was measured to produce.       *)
(* Angles, torques and gains are integers; a frame of the motor's status   *)
(* is one unit of time, and so is every threshold in milliseconds.         *)
(* The motor and the jaw are external: the motor does what it was told     *)
(* last, the jaw moves as it likes.                                        *)
(***************************************************************************)
EXTENDS Integers, FiniteSets

CONSTANTS
  Open,        \* the angle of the open jaw
  Directions,  \* 1, or -1 for a gripper whose motor turns the other way
  Specs,       \* ratings a motor may report, 0 for one it does not know: [rated, stall, range]
  Configs,     \* configurations the caller may make: [kp, kd, ff, budget, rated, peak]
  Fallback,    \* the ratings compiled in
  ConfigKp,    \* ImpedanceConfig::kp
  Approach,    \* MOTOR_APPROACH_SPEED_RADPS
  Ceiling,     \* MOTOR_ABSOLUTE_TORQUE_CEILING_NM
  Gains,       \* gains a caller may set: [kp, kd, ff]
  Hold,        \* rated_hold_ms, in frames
  Release,     \* rated_release_rad
  MaxCommands  \* bound on the caller's commands

VARIABLES
  cfg,      \* cfg_, and the direction of map_
  jaw,      \* the last status: [pos, vel, torque]
  law,      \* the members of the policy
  frame,    \* the last command: [pos, kp, kd, ff]
  over,     \* frames, up to this one and since a reset, with the motor above its rating
  commands  \* commands so far

vars == <<cfg, jaw, law, frame, over, commands>>

Abs(x) == IF x < 0 THEN -x ELSE x
Less(x, y) == IF x < y THEN x ELSE y
Clamp(x, low, high) == IF x < low THEN low ELSE IF x > high THEN high ELSE x

to_position(raw) == Clamp(raw * cfg.dir, 0, Open)
to_rad(position) == position * cfg.dir

-----------------------------------------------------------------------------
(* The configuration. *)

validate_config(c) ==
  /\ c.kp > 0 /\ c.kd >= 0
  /\ Abs(c.ff) <= c.rated
  /\ c.peak \in 1 .. Ceiling
  /\ c.budget \in 0 .. Ceiling
  /\ c.rated \in 0 .. Ceiling
  /\ c.rated > 0 => c.budget + Abs(c.ff) < c.rated

(* for_spec: a rating the motor does not know is the one compiled in, field by
   field; a budget that reaches the rating is backed off to 9/10 of it. *)
for_spec(spec) ==
  LET known(field) == IF spec[field] > 0 THEN spec[field] ELSE Fallback[field]
      rated == known("rated")
      budget == IF rated <= known("stall") THEN (rated * 9) \div 10 ELSE known("stall")
  IN [kp |-> ConfigKp, kd |-> budget \div Approach, ff |-> 0,
      budget |-> budget, rated |-> rated, peak |-> known("range")]

-----------------------------------------------------------------------------
(* guard_torque_ *)

(* Mutant: the wait begins anew with every frame. *)
WaitsAnew(p) == [p EXCEPT !.since = 1]

(* The measured torque is at its rating; since when. *)
Waits(p) == [p EXCEPT !.since = @ + 1]

Engaged(p, s) ==
  [p EXCEPT !.capped = TRUE, !.sign = IF s.torque >= 0 THEN 1 ELSE -1, !.entry = s.pos,
            !.closing = p.target < to_position(s.pos)]

(* The jaw came free, or the caller took the target back past the entry. *)
ComesOut(p, s) ==
  \/ Abs(s.pos - p.entry) > Release
  \/ IF p.closing THEN p.target > to_position(p.entry) ELSE p.target < to_position(p.entry)

guard_torque(p, s) ==
  IF cfg.rated = 0 THEN p
  ELSE IF p.capped
  THEN IF ComesOut(p, s) THEN [p EXCEPT !.capped = FALSE, !.since = 0] ELSE p
  ELSE IF Abs(s.torque) < cfg.rated THEN [p EXCEPT !.since = 0]
  ELSE IF p.since >= Hold THEN Engaged(p, s)
  ELSE Waits(p)

(* What a capped motor is asked for: the budget, which it may hold for ever. *)
cap_hold_torque == IF cfg.budget > 0 THEN Less(cfg.rated, cfg.budget) ELSE cfg.rated

-----------------------------------------------------------------------------
(* step *)

Command(pos, kp, kd, ff) == [pos |-> pos, kp |-> kp, kd |-> kd, ff |-> ff]
Result(p, f) == [law |-> p, frame |-> f]

(* The error clamp, on every frame of a target that is followed. *)
ErrorClamped(p, s) ==
  IF cfg.budget > 0 /\ p.kp > 0
  THEN Clamp(to_rad(p.target), s.pos - cfg.budget \div p.kp, s.pos + cfg.budget \div p.kp)
  ELSE to_rad(p.target)

step(p, s) ==
  LET g == guard_torque(p, s)
      raw == ErrorClamped(g, s)
      predicted == g.kp * (raw - s.pos) - g.kd * s.vel + g.ff
  IN IF p.state = "fault" THEN Result([p EXCEPT !.told = 0], Command(s.pos, 0, 0, 0))
     ELSE IF g.capped
     THEN Result([g EXCEPT !.state = "capped", !.told = cap_hold_torque],
                 Command(s.pos, 0, 0, g.sign * cap_hold_torque))
     ELSE Result([g EXCEPT !.state = "tracking", !.told = Less(cfg.peak, Abs(predicted))],
                 Command(raw, g.kp, g.kd, g.ff))

fail(p) == [p EXCEPT !.state = "fault", !.told = 0]

(* What the motor makes of its last command, where the jaw is now. *)
Measured(pos, vel) ==
  Clamp(frame.kp * (frame.pos - pos) - frame.kd * vel + frame.ff, -cfg.peak, cfg.peak)

(* A status of the motor: it may report a fault, or a torque it cannot have. *)
Frame ==
  \E pos \in {jaw.pos - 1, jaw.pos, jaw.pos + 1}, fault \in BOOLEAN :
    LET vel == pos - jaw.pos
        s == [pos |-> pos, vel |-> vel, torque |-> Measured(pos, vel)]
        r == step(IF fault THEN fail(law) ELSE law, s)
    IN /\ pos * cfg.dir \in 0 .. Open
       /\ jaw' = s
       /\ law' = r.law
       /\ frame' = r.frame
       /\ over' = IF Abs(s.torque) > cfg.rated THEN Less(over + 1, Hold + 2) ELSE 0
       /\ UNCHANGED <<cfg, commands>>

-----------------------------------------------------------------------------
(* The caller. *)

Asks ==
  /\ commands < MaxCommands
  /\ commands' = commands + 1
  /\ UNCHANGED <<cfg, jaw, frame>>

set_target ==
  /\ Asks
  /\ UNCHANGED over
  /\ \E position \in 0 .. Open : law' = [law EXCEPT !.target = position]

(* The controller lets the feed-forward reach the rating. *)
set_gains ==
  /\ Asks
  /\ UNCHANGED over
  /\ \E g \in Gains :
       /\ Abs(g.ff) <= cfg.rated
       /\ law' = [law EXCEPT !.kp = g.kp, !.kd = g.kd, !.ff = g.ff]

reset ==
  /\ Asks
  /\ over' = 0
  /\ law' = [law EXCEPT !.state = "tracking", !.target = to_position(jaw.pos), !.told = 0,
                        !.since = 0, !.capped = FALSE]

Init ==
  \E c \in Configs \union {for_spec(spec) : spec \in Specs}, dir \in Directions :
    /\ validate_config(c)
    /\ cfg = [kp |-> c.kp, kd |-> c.kd, ff |-> c.ff, budget |-> c.budget,
              rated |-> c.rated, peak |-> c.peak, dir |-> dir]
    /\ jaw = [pos |-> 0, vel |-> 0, torque |-> 0]
    /\ law = [state |-> "tracking", target |-> 0, kp |-> c.kp, kd |-> c.kd, ff |-> c.ff,
              told |-> 0, since |-> 0, capped |-> FALSE, sign |-> 1, entry |-> 0,
              closing |-> FALSE]
    /\ frame = Command(0, 0, 0, 0)
    /\ over = 0
    /\ commands = 0

Next == Frame \/ set_target \/ set_gains \/ reset

Spec == Init /\ [][Next]_vars

-----------------------------------------------------------------------------
(* The motor is above its rated torque for no longer than it takes the ceiling
   to engage: whatever gains and targets the caller sets, wherever the jaw is
   driven, the ceiling comes and what it asks for is within the rating
   (impedance_controller.cpp:209). *)
OverloadEnds == cfg.rated > 0 => over <= Hold + 1

(* A caller who backs off is let out: no ceiling pushes towards one side while
   the target lies on the other (impedance_controller.cpp:214-217). *)
BackingOffReleases ==
  law.state = "capped" /\ jaw.torque # 0 =>
    law.sign * (to_rad(law.target) - law.entry) >= 0

=============================================================================
