------------------------------- MODULE MCFrames -------------------------------
(* Frames on small instances. *)
EXTENDS Frames

(* A buffer of one frame and one that is too small, a payload of one
   byte, which must be stuffed. *)
MCIds == {0}
Flag == <<1>>   \* FrameParser's HEAD
MCPayloads == {<<Flag>>}

(* Legacy times of Width, steps short, of about half of it and of almost all:
   several wraps, silences in which one is missed. *)
MCSteps == {1, 7, Width - 1}

(* A jaw that closes upwards. *)
MCGraspOpen == -3

(* Every combination of ratings a motor may not know; a configuration with and
   one without a budget, one whose ceiling is off. *)
Config(kp, kd, ff, limit, rated) ==
  [kp |-> kp, kd |-> kd, ff |-> ff, budget |-> limit, rated |-> rated, peak |-> 5]

MCDirections == {1, -1}
MCSpecs == [rated : {0, 2, 3}, stall : {0, 1, 4}, range : {0, 5}]
MCConfigs == {Config(2, 0, 0, 0, 3), Config(2, 0, 0, 0, 0), Config(1, 1, 1, 1, 3)}
MCFallback == [rated |-> 3, stall |-> 2, range |-> 4]
MCGains ==
  {[kp |-> 2, kd |-> 0, ff |-> 3], [kp |-> 0, kd |-> 1, ff |-> -1], [kp |-> 1, kd |-> 2, ff |-> 0]}

(* Whatever ratings a motor does not know, what for_spec() makes of them is a
   configuration that the constructor takes (impedance_controller.cpp:316). *)
ASSUME SpecsAreValid ==
  \A spec \in Specs : Impedance!validate_config(Impedance!for_spec(spec))

=============================================================================
