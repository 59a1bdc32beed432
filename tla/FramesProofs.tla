---------------------------- MODULE FramesProofs ----------------------------
(***************************************************************************)
(* What holds of the laws and of the time line in Frames for every value   *)
(* of their constants.                                                     *)
(***************************************************************************)
EXTENDS Frames, TLAPS

-----------------------------------------------------------------------------
(* The impedance law. *)

Ratings ==
  [kp : Int, kd : Int, ff : Int, budget : Nat, rated : Nat, peak : Nat, dir : {1, -1}]
Statuses == [pos : Int, vel : Int, torque : Int]
LawStates == {"tracking", "capped", "fault"}
Laws ==
  [state : LawStates, target : Int, kp : Int, kd : Int, ff : Int,
   told : Int, since : Nat, capped : BOOLEAN, sign : {1, -1}, entry : Int, closing : BOOLEAN]
Commands == [pos : Int, kp : Int, kd : Int, ff : Int]

ImpedanceTyped ==
  /\ cfg \in Ratings
  /\ jaw \in Statuses
  /\ law \in Laws
  /\ frame \in Commands
  /\ over \in Nat

(* A command that is a torque alone, of this much at most. *)
TorqueOnly(f, most) == f.kp = 0 /\ f.kd = 0 /\ Impedance!Abs(f.ff) <= most

(* Neither the wait for the ceiling nor the time above the rating is longer than
   Hold; the time does not outlast the wait, and with the ceiling in place the motor
   is asked for what it may do for ever. *)
OverloadInv ==
  /\ ImpedanceTyped
  /\ law.since <= Hold
  /\ law.state = "fault" => TorqueOnly(frame, 0)
  /\ cfg.rated > 0 =>
       /\ over <= Hold + 1
       /\ law.capped => TorqueOnly(frame, cfg.rated)
       /\ ~law.capped /\ law.state # "fault" => over <= law.since

LEMMA ForSpecTyped ==
  ASSUME NEW spec \in Specs
  PROVE  Impedance!for_spec(spec) \in
           [kp : Int, kd : Int, ff : Int, budget : Int, rated : Int, peak : Int]
<1>1. /\ spec \in [rated : Nat, stall : Nat, range : Nat]
      /\ Fallback \in [rated : Nat, stall : Nat, range : Nat]
      /\ ConfigKp \in Int /\ Approach \in Nat \ {0}
  BY ImpedanceAssumption
<1> DEFINE known(field) == IF spec[field] > 0 THEN spec[field] ELSE Fallback[field]
           limit == IF known("rated") <= known("stall") THEN (known("rated") * 9) \div 10
                    ELSE known("stall")
<1>2. known("rated") \in Nat /\ known("stall") \in Nat /\ known("range") \in Nat
  BY <1>1
<1> HIDE DEF known
<1>3. (known("rated") * 9) \div 10 \in Int
  BY <1>2
<1>4. limit \in Int
  BY <1>2, <1>3
<1> HIDE DEF limit
<1>5. limit \div Approach \in Int
  BY <1>4, <1>1
<1> QED
  BY <1>1, <1>2, <1>4, <1>5 DEF Impedance!for_spec, known, limit

LEMMA OverloadInit ==
  Impedance!Init => OverloadInv
<1> SUFFICES ASSUME Impedance!Init PROVE OverloadInv
  OBVIOUS
<1>1. PICK c \in Configs \union {Impedance!for_spec(spec) : spec \in Specs}, dir \in Directions :
        /\ Impedance!validate_config(c)
        /\ cfg = [kp |-> c.kp, kd |-> c.kd, ff |-> c.ff, budget |-> c.budget,
                  rated |-> c.rated, peak |-> c.peak, dir |-> dir]
        /\ jaw = [pos |-> 0, vel |-> 0, torque |-> 0]
        /\ law = [state |-> "tracking", target |-> 0, kp |-> c.kp, kd |-> c.kd, ff |-> c.ff,
                  told |-> 0, since |-> 0, capped |-> FALSE, sign |-> 1, entry |-> 0,
                  closing |-> FALSE]
        /\ frame = Impedance!Command(0, 0, 0, 0)
        /\ over = 0
  BY Zenon DEF Impedance!Init
<1>2. c \in [kp : Int, kd : Int, ff : Int, budget : Int, rated : Int, peak : Int]
  BY <1>1, ForSpecTyped, ImpedanceAssumption
<1>3. c.budget \in Nat /\ c.rated \in Nat /\ c.peak \in Nat
  BY <1>1, <1>2, ImpedanceAssumption DEF Impedance!validate_config
<1>4. dir \in {1, -1}
  BY <1>1, ImpedanceAssumption
<1>5. ImpedanceTyped
  BY <1>1, <1>2, <1>3, <1>4 DEF ImpedanceTyped, Ratings, Statuses, Laws, LawStates, Commands,
    Impedance!Command
<1> QED
  BY <1>1, <1>5, ImpedanceAssumption DEF OverloadInv, Impedance!Command

(* What a step makes of the law and asks of the motor, one result for each of its
   three returns. *)
LEMMA GuardTyped ==
  ASSUME cfg \in Ratings, Open \in Nat, NEW p \in Laws, NEW s \in Statuses
  PROVE  Impedance!guard_torque(p, s) \in Laws
<1> DEFINE Clamped(x) == Impedance!to_position(x)
<1>0. p.since + 1 \in Nat
  BY DEF Laws
<1>1. /\ [p EXCEPT !.capped = FALSE, !.since = 0] \in Laws
      /\ [p EXCEPT !.since = 0] \in Laws
      /\ \A n \in Nat : [p EXCEPT !.since = n] \in Laws
  BY DEF Laws
<1>2. \A b \in BOOLEAN, n \in {1, -1}, e \in Int :
        [p EXCEPT !.capped = TRUE, !.sign = n, !.entry = e, !.closing = b] \in Laws
  BY DEF Laws
<1>3. (p.target < Clamped(s.pos)) \in BOOLEAN
  OBVIOUS
<1>4. (IF s.torque >= 0 THEN 1 ELSE -1) \in {1, -1} /\ s.pos \in Int
  BY DEF Statuses
<1>5. Impedance!Engaged(p, s) \in Laws
  BY <1>2, <1>3, <1>4 DEF Impedance!Engaged
<1> QED
  BY <1>0, <1>1, <1>5 DEF Impedance!guard_torque, Impedance!Waits

LEMMA ClampedTyped ==
  ASSUME cfg \in Ratings, Open \in Nat, NEW p \in Laws, NEW s \in Statuses
  PROVE  Impedance!ErrorClamped(p, s) \in Int
<1>1. Impedance!to_rad(p.target) \in Int
  BY DEF Impedance!to_rad, Ratings, Laws
<1>2. p.kp > 0 => cfg.budget \div p.kp \in Int
  BY DEF Ratings, Laws
<1>3. s.pos \in Int
  BY DEF Statuses
<1> QED
  BY <1>1, <1>2, <1>3 DEF Impedance!ErrorClamped, Impedance!Clamp, Laws, Ratings

LEMMA CapBounded ==
  ASSUME cfg \in Ratings
  PROVE  Impedance!cap_hold_torque \in 0 .. cfg.rated
BY DEF Ratings, Impedance!cap_hold_torque, Impedance!Less

LEMMA StepReturns ==
  ASSUME cfg \in Ratings, Open \in Nat, NEW p \in Laws, NEW s \in Statuses,
         NEW g, g = Impedance!guard_torque(p, s), NEW r, r = Impedance!step(p, s)
  PROVE  /\ r.law \in Laws /\ r.frame \in Commands
         /\ \/ /\ p.state = "fault" /\ r.law.state = "fault"
               /\ r.law.since = p.since /\ r.law.capped = p.capped
               /\ TorqueOnly(r.frame, 0)
            \/ /\ p.state # "fault" /\ r.law.state # "fault" /\ g.capped
               /\ r.law.since = g.since /\ r.law.capped
               /\ TorqueOnly(r.frame, cfg.rated)
            \/ /\ p.state # "fault" /\ r.law.state # "fault" /\ ~g.capped
               /\ r.law.since = g.since /\ ~r.law.capped
<1> DEFINE raw == Impedance!ErrorClamped(g, s)
           predicted == g.kp * (raw - s.pos) - g.kd * s.vel + g.ff
           cap == Impedance!cap_hold_torque
<1>1. g \in Laws
  BY GuardTyped
<1>2. raw \in Int
  BY <1>1, ClampedTyped
<1>3. predicted \in Int
  BY <1>1, <1>2 DEF Laws, Statuses
<1>4. cap \in 0 .. cfg.rated /\ cfg.rated \in Nat
  BY CapBounded DEF Ratings
<1>5. Impedance!Less(cfg.peak, Impedance!Abs(predicted)) \in Int
  BY <1>3 DEF Impedance!Less, Impedance!Abs, Ratings
<1>6. g.sign * cap \in Int /\ Impedance!Abs(g.sign * cap) <= cfg.rated
  <2>1. g.sign = 1 \/ g.sign = -1
    BY <1>1 DEF Laws
  <2>2. cap \in Int
    BY <1>4
  <2>3. g.sign * cap = cap \/ g.sign * cap = -cap
    <3> HIDE DEF cap
    <3> QED
      BY <2>1, <2>2
  <2> HIDE DEF cap
  <2> QED
    BY <2>3, <1>4 DEF Impedance!Abs
<1> HIDE DEF raw, predicted, cap
<1>7. CASE p.state = "fault"
  <2>1. r = Impedance!Result([p EXCEPT !.told = 0], Impedance!Command(s.pos, 0, 0, 0))
    BY <1>7 DEF Impedance!step
  <2>2. r.law = [p EXCEPT !.told = 0] /\ r.frame = [pos |-> s.pos, kp |-> 0, kd |-> 0, ff |-> 0]
    BY <2>1 DEF Impedance!Result, Impedance!Command
  <2>3. r.law \in Laws /\ r.law.state = "fault" /\ r.law.since = p.since /\ r.law.capped = p.capped
    BY <2>2, <1>7 DEF Laws
  <2>4. r.frame \in Commands /\ TorqueOnly(r.frame, 0)
    BY <2>2 DEF Commands, Statuses, TorqueOnly, Impedance!Abs
  <2> QED
    BY <2>3, <2>4, <1>7
<1>8. CASE p.state # "fault" /\ g.capped
  <2>1. r = Impedance!Result([g EXCEPT !.state = "capped", !.told = cap],
                             Impedance!Command(s.pos, 0, 0, g.sign * cap))
    BY <1>8 DEF Impedance!step, cap
  <2>2. /\ r.law = [g EXCEPT !.state = "capped", !.told = cap]
        /\ r.frame = [pos |-> s.pos, kp |-> 0, kd |-> 0, ff |-> g.sign * cap]
    BY <2>1 DEF Impedance!Result, Impedance!Command
  <2>3. cap \in Int
    BY <1>4
  <2>5. /\ r.law \in Laws /\ r.law.state # "fault"
        /\ r.law.since = g.since /\ r.law.capped = g.capped
    BY <2>2, <2>3, <1>1 DEF Laws, LawStates
  <2>4. r.frame \in Commands /\ TorqueOnly(r.frame, cfg.rated)
    BY <2>2, <1>6 DEF Commands, Statuses, TorqueOnly
  <2> QED
    BY <2>4, <2>5, <1>8
<1>9. CASE p.state # "fault" /\ ~g.capped
  <2>1. r = Impedance!Result([g EXCEPT !.state = "tracking",
                                       !.told = Impedance!Less(cfg.peak, Impedance!Abs(predicted))],
                             Impedance!Command(raw, g.kp, g.kd, g.ff))
    BY <1>9 DEF Impedance!step, raw, predicted
  <2>2. /\ r.law = [g EXCEPT !.state = "tracking",
                             !.told = Impedance!Less(cfg.peak, Impedance!Abs(predicted))]
        /\ r.frame = [pos |-> raw, kp |-> g.kp, kd |-> g.kd, ff |-> g.ff]
    BY <2>1 DEF Impedance!Result, Impedance!Command
  <2>3. /\ r.law \in Laws /\ r.law.state # "fault"
        /\ r.law.since = g.since /\ r.law.capped = g.capped
    BY <2>2, <1>1, <1>5 DEF Laws, LawStates
  <2>4. r.frame \in Commands
    BY <2>2, <1>1, <1>2 DEF Commands, Laws
  <2> QED
    BY <2>3, <2>4, <1>9
<1> QED
  BY <1>7, <1>8, <1>9

(* A motor that is asked for a torque alone makes no more than that. *)
LEMMA MeasuredBounded ==
  ASSUME cfg \in Ratings, frame \in Commands,
         NEW pos \in Int, NEW vel \in Int
  PROVE  /\ Impedance!Measured(pos, vel) \in Int
         /\ \A most \in Nat :
              TorqueOnly(frame, most) => Impedance!Abs(Impedance!Measured(pos, vel)) <= most
<1> DEFINE asked == frame.kp * (frame.pos - pos) - frame.kd * vel + frame.ff
<1>1. asked \in Int /\ cfg.peak \in Nat
  BY DEF Commands, Ratings
<1>2. frame.kp = 0 /\ frame.kd = 0 => asked = frame.ff
  BY DEF Commands
<1>3. Impedance!Measured(pos, vel) = Impedance!Clamp(asked, -cfg.peak, cfg.peak)
  BY DEF Impedance!Measured
<1> HIDE DEF asked
<1>4. Impedance!Clamp(asked, -cfg.peak, cfg.peak) \in Int
  BY <1>1 DEF Impedance!Clamp
<1>5. \A most \in Nat :
        Impedance!Abs(asked) <= most =>
          Impedance!Abs(Impedance!Clamp(asked, -cfg.peak, cfg.peak)) <= most
  BY <1>1 DEF Impedance!Clamp, Impedance!Abs
<1> QED
  BY <1>2, <1>3, <1>4, <1>5 DEF TorqueOnly

(* What the guard makes of the wait: with the ceiling in place there is none above
   the rating, and what is above it either lengthens the wait or ends it. *)
LEMMA GuardWaits ==
  ASSUME cfg \in Ratings, cfg.rated > 0, Hold \in Nat,
         NEW p \in Laws, NEW s \in Statuses, p.since <= Hold,
         NEW g, g = Impedance!guard_torque(p, s)
  PROVE  /\ g.since <= Hold
         /\ p.capped => g.capped \/ g.since = 0
         /\ ~p.capped => \/ ~g.capped /\ g.since = 0 /\ Impedance!Abs(s.torque) < cfg.rated
                         \/ g.capped
                         \/ ~g.capped /\ g.since = p.since + 1
<1>1. p.capped \in BOOLEAN /\ p.since \in Nat /\ cfg.rated \in Nat
  BY DEF Laws, Ratings
<1>2. /\ [p EXCEPT !.capped = FALSE, !.since = 0].capped = FALSE
      /\ [p EXCEPT !.capped = FALSE, !.since = 0].since = 0
      /\ [p EXCEPT !.since = 0].since = 0
      /\ [p EXCEPT !.since = 0].capped = p.capped
      /\ Impedance!Waits(p).since = p.since + 1
      /\ Impedance!Waits(p).capped = p.capped
      /\ Impedance!Engaged(p, s).capped = TRUE
      /\ Impedance!Engaged(p, s).since = p.since
  BY DEF Laws, Impedance!Waits, Impedance!Engaged
<1>3. CASE p.capped /\ Impedance!ComesOut(p, s)
  <2>1. g = [p EXCEPT !.capped = FALSE, !.since = 0]
    BY <1>3, <1>1 DEF Impedance!guard_torque
  <2> QED
    BY <2>1, <1>2, <1>3
<1>4. CASE p.capped /\ ~Impedance!ComesOut(p, s)
  <2>1. g = p
    BY <1>4, <1>1 DEF Impedance!guard_torque
  <2> QED
    BY <2>1, <1>4
<1>5. CASE ~p.capped /\ Impedance!Abs(s.torque) < cfg.rated
  <2>1. g = [p EXCEPT !.since = 0]
    BY <1>5, <1>1 DEF Impedance!guard_torque
  <2> QED
    BY <2>1, <1>2, <1>5
<1>6. CASE ~p.capped /\ ~(Impedance!Abs(s.torque) < cfg.rated) /\ p.since >= Hold
  <2>1. g = Impedance!Engaged(p, s)
    BY <1>6, <1>1 DEF Impedance!guard_torque
  <2> QED
    BY <2>1, <1>2, <1>6
<1>7. CASE ~p.capped /\ ~(Impedance!Abs(s.torque) < cfg.rated) /\ ~(p.since >= Hold)
  <2>1. g = Impedance!Waits(p)
    BY <1>7, <1>1 DEF Impedance!guard_torque
  <2> QED
    BY <2>1, <1>1, <1>2, <1>7
<1> QED
  BY <1>3, <1>4, <1>5, <1>6, <1>7

LEMMA OverloadFrame ==
  ASSUME OverloadInv, Impedance!Frame
  PROVE  OverloadInv'
<1>0. Open \in Nat /\ Hold \in Nat
  BY ImpedanceAssumption
<1>1. PICK pos \in {jaw.pos - 1, jaw.pos, jaw.pos + 1}, fault \in BOOLEAN :
        LET vel == pos - jaw.pos
            s == [pos |-> pos, vel |-> vel, torque |-> Impedance!Measured(pos, vel)]
            r == Impedance!step(IF fault THEN Impedance!fail(law) ELSE law, s)
        IN /\ jaw' = s
           /\ law' = r.law
           /\ frame' = r.frame
           /\ over' = IF Impedance!Abs(s.torque) > cfg.rated
                      THEN Impedance!Less(over + 1, Hold + 2) ELSE 0
           /\ UNCHANGED <<cfg, commands>>
  BY Zenon DEF Impedance!Frame
<1>2. /\ cfg \in Ratings /\ law \in Laws /\ frame \in Commands /\ jaw \in Statuses /\ over \in Nat
      /\ law.since <= Hold
  BY DEF OverloadInv, ImpedanceTyped
<1>3. pos \in Int /\ pos - jaw.pos \in Int
  BY <1>1, <1>2 DEF Statuses
<1>4. PICK torque \in Int : torque = Impedance!Measured(pos, pos - jaw.pos)
  BY <1>2, <1>3, MeasuredBounded
<1> DEFINE s == [pos |-> pos, vel |-> pos - jaw.pos, torque |-> torque]
           p == IF fault THEN Impedance!fail(law) ELSE law
           g == Impedance!guard_torque(p, s)
           r == Impedance!step(p, s)
<1>5. /\ jaw' = s /\ law' = r.law /\ frame' = r.frame /\ cfg' = cfg
      /\ over' = IF Impedance!Abs(torque) > cfg.rated
                 THEN Impedance!Less(over + 1, Hold + 2) ELSE 0
  BY <1>1, <1>4
<1>6. s \in Statuses /\ s.torque = torque
  BY <1>3 DEF Statuses
<1>7. /\ p \in Laws /\ p.since = law.since /\ p.capped = law.capped
      /\ p.state = "fault" \/ p.state = law.state
      /\ law.state = "fault" => p.state = "fault"
  <2>1. Impedance!fail(law) = [law EXCEPT !.state = "fault", !.told = 0]
    BY DEF Impedance!fail
  <2>2. [law EXCEPT !.state = "fault", !.told = 0] \in Laws
    <3>1. \A st \in LawStates, n \in Int : [law EXCEPT !.state = st, !.told = n] \in Laws
      BY <1>2 DEF Laws
    <3>2. "fault" \in LawStates /\ 0 \in Int
      BY DEF LawStates
    <3> QED
      BY <3>1, <3>2, Zenon
  <2>3. [law EXCEPT !.state = "fault", !.told = 0].state = "fault"
    BY <1>2 DEF Laws
  <2>4. /\ [law EXCEPT !.state = "fault", !.told = 0].since = law.since
        /\ [law EXCEPT !.state = "fault", !.told = 0].capped = law.capped
    BY <1>2 DEF Laws
  <2> QED
    BY <2>1, <2>2, <2>3, <2>4, <1>2
<1> HIDE DEF p
<1> HIDE DEF s
<1>8. /\ r.law \in Laws /\ r.frame \in Commands
      /\ \/ /\ p.state = "fault" /\ r.law.state = "fault"
            /\ r.law.since = p.since /\ r.law.capped = p.capped
            /\ TorqueOnly(r.frame, 0)
         \/ /\ p.state # "fault" /\ r.law.state # "fault" /\ g.capped
            /\ r.law.since = g.since /\ r.law.capped
            /\ TorqueOnly(r.frame, cfg.rated)
         \/ /\ p.state # "fault" /\ r.law.state # "fault" /\ ~g.capped
            /\ r.law.since = g.since /\ ~r.law.capped
  BY <1>0, <1>2, <1>6, <1>7, StepReturns
<1>9. /\ cfg.rated \in Nat /\ law.since \in Nat /\ law.capped \in BOOLEAN
      /\ r.law.capped \in BOOLEAN /\ r.law.since \in Nat /\ g.since \in Nat
  <2>1. g \in Laws
    BY <1>0, <1>2, <1>6, <1>7, GuardTyped
  <2> QED
    BY <2>1, <1>2, <1>8 DEF Ratings, Laws
<1>10. over' \in Nat
  BY <1>0, <1>2, <1>5 DEF Impedance!Less
<1>11. ImpedanceTyped'
  BY <1>2, <1>5, <1>6, <1>8, <1>10 DEF ImpedanceTyped
<1>12. cfg.rated > 0 =>
         /\ g.since <= Hold
         /\ p.capped => g.capped \/ g.since = 0
         /\ ~p.capped => \/ ~g.capped /\ g.since = 0 /\ Impedance!Abs(torque) < cfg.rated
                         \/ g.capped
                         \/ ~g.capped /\ g.since = p.since + 1
  BY <1>0, <1>2, <1>6, <1>7, GuardWaits
<1>13. cfg.rated = 0 => g.since = p.since
  BY DEF Impedance!guard_torque
<1> HIDE DEF g, r
<1>14. law'.since <= Hold
  BY <1>2, <1>5, <1>7, <1>8, <1>9, <1>12, <1>13
<1>15. TorqueOnly(frame, 0) => TorqueOnly(frame, cfg.rated)
  BY <1>2, <1>9 DEF TorqueOnly, Impedance!Abs, Commands
<1>16. law'.state = "fault" => TorqueOnly(r.frame, 0)
  BY <1>5, <1>8
<1>17. /\ TorqueOnly(r.frame, 0) => TorqueOnly(frame, 0)'
       /\ TorqueOnly(r.frame, cfg.rated) => TorqueOnly(frame, cfg.rated)'
       /\ TorqueOnly(r.frame, 0) => TorqueOnly(r.frame, cfg.rated)
  BY <1>5, <1>8, <1>9 DEF TorqueOnly, Impedance!Abs, Commands
<1>18. ASSUME cfg.rated > 0
       PROVE  /\ over' <= Hold + 1
              /\ law'.capped => TorqueOnly(frame, cfg.rated)'
              /\ ~law'.capped /\ law'.state # "fault" => over' <= law'.since
  <2>1. over' = 0 \/ over' <= over + 1
    BY <1>0, <1>2, <1>5 DEF Impedance!Less
  <2>2. law.capped \/ law.state = "fault" => over' = 0
    <3>1. law.capped \/ law.state = "fault" => TorqueOnly(frame, cfg.rated)
      BY <1>15, <1>18 DEF OverloadInv
    <3>2. TorqueOnly(frame, cfg.rated) => Impedance!Abs(torque) <= cfg.rated
      BY <1>2, <1>3, <1>4, <1>9, MeasuredBounded
    <3>3. Impedance!Abs(torque) \in Int
      BY DEF Impedance!Abs
    <3> QED
      BY <3>1, <3>2, <3>3, <1>5, <1>9
  <2>3. ~law.capped /\ law.state # "fault" => over <= law.since
    BY <1>18 DEF OverloadInv
  <2>4. over' <= Hold + 1
    BY <2>1, <2>2, <2>3, <1>0, <1>2, <1>9, <1>10
  <2>5. law'.capped => TorqueOnly(frame, cfg.rated)'
    <3>1. ASSUME p.state = "fault"
          PROVE  TorqueOnly(frame, cfg.rated)'
      BY <3>1, <1>8, <1>17
    <3>2. ASSUME p.state # "fault", law'.capped
          PROVE  TorqueOnly(frame, cfg.rated)'
      BY <3>2, <1>5, <1>8, <1>17
    <3> QED
      BY <3>1, <3>2
  <2>6. ASSUME ~law'.capped, law'.state # "fault"
        PROVE  over' <= law'.since
    <3>1. p.state # "fault" /\ ~g.capped /\ law'.since = g.since
      BY <2>6, <1>5, <1>8
    <3>2. law.state # "fault"
      BY <3>1, <1>7
    <3>3. CASE law.capped
      BY <3>3, <2>2, <3>1, <1>9
    <3>4. CASE ~law.capped
      <4>1. \/ g.since = 0 /\ Impedance!Abs(torque) < cfg.rated
            \/ g.since = p.since + 1
        BY <3>1, <3>4, <1>7, <1>12, <1>18
      <4>2. Impedance!Abs(torque) < cfg.rated => over' = 0
        <5>1. Impedance!Abs(torque) \in Int
          BY DEF Impedance!Abs
        <5> QED
          BY <5>1, <1>5, <1>9
      <4> QED
        BY <4>1, <4>2, <2>1, <2>3, <3>1, <3>2, <3>4, <1>2, <1>7, <1>9, <1>10
    <3> QED
      BY <3>3, <3>4, <1>9
  <2> QED
    BY <2>4, <2>5, <2>6
<1>19. cfg'.rated = cfg.rated
  BY <1>5
<1> QED
  BY <1>5, <1>11, <1>14, <1>16, <1>17, <1>18, <1>19 DEF OverloadInv

LEMMA OverloadCommands ==
  ASSUME OverloadInv, Impedance!set_target \/ Impedance!set_gains \/ Impedance!reset
  PROVE  OverloadInv'
<1>0. /\ Open \in Nat /\ Hold \in Nat /\ Gains \subseteq [kp : Int, kd : Int, ff : Int]
      /\ cfg' = cfg /\ jaw' = jaw /\ frame' = frame
  BY ImpedanceAssumption
  DEF Impedance!set_target, Impedance!set_gains, Impedance!reset, Impedance!Asks
<1>1. /\ cfg \in Ratings /\ law \in Laws /\ frame \in Commands /\ jaw \in Statuses /\ over \in Nat
      /\ law.since \in Nat /\ cfg.rated \in Nat
  BY DEF OverloadInv, ImpedanceTyped, Laws, Ratings
<1>2. /\ law' \in Laws /\ over' \in Nat
      /\ \/ /\ over' = over /\ law'.since = law.since /\ law'.capped = law.capped
            /\ law'.state = law.state
         \/ over' = 0 /\ law'.since = 0 /\ ~law'.capped /\ law'.state # "fault"
  <2>1. CASE Impedance!set_target
    <3>1. PICK position \in 0 .. Open : law' = [law EXCEPT !.target = position]
      BY <2>1 DEF Impedance!set_target
    <3>2. position \in Int
      BY <1>0
    <3>3. over' = over
      BY <2>1 DEF Impedance!set_target
    <3> QED
      BY <3>1, <3>2, <3>3, <1>1 DEF Laws
  <2>2. CASE Impedance!set_gains
    <3>1. PICK g \in Gains : law' = [law EXCEPT !.kp = g.kp, !.kd = g.kd, !.ff = g.ff]
      BY <2>2 DEF Impedance!set_gains
    <3>2. g.kp \in Int /\ g.kd \in Int /\ g.ff \in Int
      BY <1>0
    <3>3. over' = over
      BY <2>2 DEF Impedance!set_gains
    <3> QED
      BY <3>1, <3>2, <3>3, <1>1 DEF Laws
  <2>3. CASE Impedance!reset
    <3>1. law' = [law EXCEPT !.state = "tracking", !.target = Impedance!to_position(jaw.pos),
                             !.told = 0, !.since = 0, !.capped = FALSE]
      BY <2>3 DEF Impedance!reset
    <3>2. Impedance!to_position(jaw.pos) \in Int
      BY <1>0, <1>1 DEF Impedance!to_position, Impedance!Clamp, Statuses, Ratings
    <3>3. PICK t \in Int : t = Impedance!to_position(jaw.pos)
      BY <3>2
    <3>4. law' = [law EXCEPT !.state = "tracking", !.target = t, !.told = 0, !.since = 0,
                             !.capped = FALSE]
      BY <3>1, <3>3
    <3>5. law' \in Laws
      <4>1. \A st \in LawStates, n \in Int, m \in Nat, b \in BOOLEAN :
              [law EXCEPT !.state = st, !.target = t, !.told = n, !.since = m, !.capped = b]
                \in Laws
        BY <1>1 DEF Laws
      <4>2. "tracking" \in LawStates /\ 0 \in Int /\ 0 \in Nat /\ FALSE \in BOOLEAN
        BY DEF LawStates
      <4> QED
        BY <3>4, <4>1, <4>2, Zenon
    <3>6. law'.since = 0 /\ law'.capped = FALSE
      BY <3>4, <1>1 DEF Laws
    <3>7. law'.state = "tracking"
      BY <3>4, <1>1 DEF Laws
    <3>8. over' = 0
      BY <2>3 DEF Impedance!reset
    <3> QED
      BY <3>5, <3>6, <3>7, <3>8
  <2> QED
    BY <2>1, <2>2, <2>3
<1>3. ImpedanceTyped'
  BY <1>0, <1>1, <1>2 DEF ImpedanceTyped
<1>4. TorqueOnly(frame, 0)' = TorqueOnly(frame, 0)
      /\ TorqueOnly(frame, cfg.rated)' = TorqueOnly(frame, cfg.rated)
  BY <1>0 DEF TorqueOnly
<1> QED
  BY <1>0, <1>1, <1>2, <1>3, <1>4 DEF OverloadInv

LEMMA OverloadStep ==
  ASSUME OverloadInv, Impedance!Next
  PROVE  OverloadInv'
BY OverloadFrame, OverloadCommands DEF Impedance!Next

(* However the gains and the target are set and the jaw is driven, the motor is above
   its rating for no longer than the ceiling takes to engage
   (impedance_controller.cpp:209). *)
THEOREM OverloadAlwaysEnds ==
  Spec => []OverloadEnds
<1> DEFINE IInv == part = "impedance" => OverloadInv
<1>1. Init => IInv
  BY OverloadInit DEF Init
<1>2. IInv /\ [Next]_vars => IInv'
  <2> SUFFICES ASSUME IInv, [Next]_vars, part' = "impedance" PROVE OverloadInv'
    OBVIOUS
  <2>1. CASE Next
    <3>1. part = "impedance" /\ Impedance!Next
      BY <2>1 DEF Next
    <3> QED
      BY <3>1, OverloadStep
  <2>2. CASE UNCHANGED vars
    BY <2>2 DEF vars, impedanceVars, OverloadInv, ImpedanceTyped, TorqueOnly
  <2> QED
    BY <2>1, <2>2
<1>3. IInv => OverloadEnds
  BY DEF OverloadEnds, OverloadInv, Impedance!OverloadEnds
<1> QED
  BY <1>1, <1>2, <1>3, PTL DEF Spec

-----------------------------------------------------------------------------
(* The time line of the IMU's samples. *)

ImuPayloads == [v2 : BOOLEAN, size : Int, raw : Int, time : Int, session : Int, seq : Int]
ImuFrames == [payload : ImuPayloads, boot : Int, up : Int]
Mcus == [boot : Nat \ {0}, up : Nat, seq : Int, v2 : BOOLEAN, samples : Nat]
Timelines ==
  [seen : BOOLEAN, faulted : BOOLEAN, last : Int, raw : Int, seq : Int, session : Int, host : Int]
ImuSamples == [payload : ImuPayloads, time : Int, valid : BOOLEAN, jump : BOOLEAN]
Truths == [boot : Int, origin : Int, sampled : Int, of : Int]

ImuTyped ==
  /\ clock \in Nat
  /\ mcu \in Mcus
  /\ sent \subseteq ImuFrames
  /\ track \in Timelines
  /\ sample \in ImuSamples
  /\ truth \in Truths

(* A frame that decodes says when it was sampled; in the old format it is the latest. *)
TrueFrame(f) ==
  Imu!Decodes(f.payload) =>
    /\ f.boot = mcu.boot
    /\ f.up \in 0 .. mcu.up
    /\ f.payload.raw = f.up % Width
    /\ f.payload.v2 => f.payload.time = f.up /\ f.payload.session = f.boot
    /\ ~f.payload.v2 => f.payload.session = 0 /\ f.up = mcu.up

(* What a timeline has seen: of its boot, in V2, everything; in the old format the low
   bits of the last sample's time, when it came by the host's clock, and, unless a
   sample was lost or the MCU has restarted since, the whole of that time. *)
TrackInv ==
  track.seen =>
    /\ truth.boot <= truth.of /\ truth.of <= mcu.boot
    /\ track.session # 0 => truth.origin = 0
    /\ track.session = 0 =>
         /\ truth.sampled \in Nat
         /\ track.raw = truth.sampled % Width
         /\ ~track.faulted /\ truth.of = truth.boot => track.last = truth.sampled - truth.origin
         /\ truth.of = mcu.boot =>
              /\ truth.sampled <= mcu.up
              /\ track.host - (clock - (mcu.up - truth.sampled)) \in 0 .. Width \div 2

TimesInv ==
  /\ ImuTyped
  /\ \A f \in sent : TrueFrame(f)
  /\ TrackInv
  /\ Imu!ValidTimesAreTrue

(* Two times less than a wrap apart are told apart by their low bits. *)
LEMMA ModDiff ==
  ASSUME NEW w \in Nat \ {0}, NEW a \in Nat, NEW b \in Nat, b <= a, a - b < w
  PROVE  ((a % w) - (b % w)) % w = a - b
<1> DEFINE q == a \div w  r == b \div w
<1>1. q \in Int /\ r \in Int /\ a % w \in 0 .. w - 1 /\ b % w \in 0 .. w - 1
  OBVIOUS
<1>2. a = w * q + (a % w) /\ b = w * r + (b % w)
  OBVIOUS
<1>3. PICK k \in Int : k = q - r
  BY <1>1
<1>4. w * k = (a - b) - ((a % w) - (b % w))
  <2>1. w * k = w * q - w * r
    BY <1>1, <1>3
  <2> QED
    BY <2>1, <1>1, <1>2
<1>5. k = 0 \/ k = 1
  <2> HIDE DEF q, r
  <2>1. w * k > -w /\ w * k < 2 * w
    BY <1>1, <1>4
  <2>2. k <= -1 => w * k <= -w
    OBVIOUS
  <2>3. k >= 2 => w * k >= 2 * w
    OBVIOUS
  <2> QED
    BY <2>1, <2>2, <2>3
<1> DEFINE d == (a % w) - (b % w)
<1>6. d \in Int
  BY <1>1
<1> HIDE DEF d
<1>7. d = a - b \/ d = a - b - w
  <2>1. w * k = (a - b) - d
    BY <1>4 DEF d
  <2> QED
    BY <2>1, <1>3, <1>5, <1>6
<1>8. \A m \in 0 .. w - 1 : m % w = m
  OBVIOUS
<1>9. \A m \in 0 .. w - 1 : (m - w) % w = m
  OBVIOUS
<1> QED
  BY <1>6, <1>7, <1>8, <1>9 DEF d
LEMMA WidthTyped == Width \in Nat \ {0} /\ Width \div 2 \in Nat /\ Imu!Half \in Nat
                    /\ Imu!Half + Imu!Half <= Width /\ Imu!Half = Width \div 2
<1>1. Width \in Nat /\ Width > 1
  BY ImuAssumption
<1>2. Width \div 2 \in Nat /\ 2 * (Width \div 2) <= Width
  BY <1>1
<1> QED
  BY <1>1, <1>2 DEF Imu!Half

(* What the MCU sends decodes, and a frame that was tampered with does not. *)
LEMMA PayloadTrue ==
  ASSUME NEW m \in Mcus
  PROVE  /\ Imu!Payload(m) \in ImuPayloads
         /\ Imu!Payload(m).raw = m.up % Width
         /\ Imu!Payload(m).v2 = m.v2
         /\ m.v2 => Imu!Payload(m).time = m.up /\ Imu!Payload(m).session = m.boot
         /\ ~m.v2 => Imu!Payload(m).session = 0
<1>1. m.up % Width \in Int
  BY WidthTyped DEF Mcus
<1>2. Imu!Size(m.v2) \in Int
  BY DEF Imu!Size
<1> QED
  BY <1>1, <1>2 DEF Imu!Payload, Mcus, ImuPayloads

(* The frame of a sample that a reader takes. *)
LEMMA LegacyGap ==
  ASSUME NEW t \in Timelines, NEW p \in ImuPayloads, NEW arrival \in Int,
         t.seen, ~Imu!Ambiguous(t, p, arrival)
  PROVE  /\ ~t.faulted /\ t.session = 0
         /\ arrival - t.host \in 0 .. Imu!Half - 1
<1>1. ~(arrival - t.host < 0) /\ ~(arrival - t.host >= Imu!Half) /\ ~t.faulted /\ t.session = 0
  BY DEF Imu!Ambiguous
<1>2. arrival - t.host \in Int /\ Imu!Half \in Int
  BY WidthTyped DEF Timelines
<1> QED
  BY <1>1, <1>2

LEMMA DecodedTyped ==
  ASSUME NEW t \in Timelines, NEW p \in ImuPayloads, NEW arrival \in Int,
         NEW s, s = Imu!Decoded(t, p, arrival)
  PROVE  /\ s \in ImuSamples /\ s.payload = p
         /\ p.v2 => /\ s.time = p.time
                    /\ s.valid = ~Imu!Stale(t, p)
                    /\ s.jump = (Imu!Stale(t, p) \/ (t.seen /\ t.session # p.session))
         /\ ~p.v2 => /\ s.valid = ~s.jump
                     /\ s.jump = (t.seen /\ Imu!Ambiguous(t, p, arrival))
                     /\ s.time = IF t.seen /\ s.valid THEN t.last + ((p.raw - t.raw) % Width)
                                 ELSE p.raw
<1>1. p.raw \in Int /\ p.time \in Int /\ t.last \in Int /\ t.raw \in Int /\ t.seen \in BOOLEAN
  BY DEF ImuPayloads, Timelines
<1>2. (p.raw - t.raw) % Width \in Int
  BY <1>1, WidthTyped
<1>3. Imu!Stale(t, p) \in BOOLEAN /\ Imu!Ambiguous(t, p, arrival) \in BOOLEAN
  BY DEF Imu!Stale, Imu!Ambiguous, Timelines
<1>4. CASE p.v2
  <2>1. s = [payload |-> p, time |-> p.time, valid |-> ~Imu!Stale(t, p),
             jump |-> Imu!Stale(t, p) \/ (t.seen /\ t.session # p.session)]
    BY <1>4 DEF Imu!Decoded, Imu!Native, Imu!Sample
  <2>2. (~Imu!Stale(t, p)) \in BOOLEAN
        /\ (Imu!Stale(t, p) \/ (t.seen /\ t.session # p.session)) \in BOOLEAN
    BY <1>3
  <2>3. s \in ImuSamples
    BY <2>1, <2>2, <1>1 DEF ImuSamples
  <2>4. /\ s.payload = p /\ s.time = p.time /\ s.valid = ~Imu!Stale(t, p)
        /\ s.jump = (Imu!Stale(t, p) \/ (t.seen /\ t.session # p.session))
    BY <2>1
  <2> QED
    BY <2>3, <2>4, <1>4, Zenon
<1>5. CASE ~p.v2
  <2> DEFINE lost == t.seen /\ Imu!Ambiguous(t, p, arrival)
             time == IF t.seen /\ ~lost THEN t.last + ((p.raw - t.raw) % Width) ELSE p.raw
  <2>1. s = [payload |-> p, time |-> time, valid |-> ~lost, jump |-> lost]
    BY <1>5 DEF Imu!Decoded, Imu!Legacy, Imu!Sample
  <2>2. lost \in BOOLEAN /\ (~lost) \in BOOLEAN
    BY <1>1, <1>3
  <2>3. time \in Int
    BY <1>1, <1>2
  <2>4. lost = (t.seen /\ Imu!Ambiguous(t, p, arrival))
    OBVIOUS
  <2>5. time = IF t.seen /\ ~lost THEN t.last + ((p.raw - t.raw) % Width) ELSE p.raw
    OBVIOUS
  <2> HIDE DEF lost, time
  <2>6. s \in ImuSamples
    BY <2>1, <2>2, <2>3 DEF ImuSamples
  <2>7. s.payload = p /\ s.time = time /\ s.valid = ~lost /\ s.jump = lost
    BY <2>1
  <2>8. s.valid = ~s.jump
    BY <2>7, Zenon
  <2>9. s.jump = (t.seen /\ Imu!Ambiguous(t, p, arrival))
    BY <2>4, <2>7, Zenon
  <2>10. s.time = IF t.seen /\ s.valid THEN t.last + ((p.raw - t.raw) % Width) ELSE p.raw
    BY <2>5, <2>7, Zenon
  <2> QED
    BY <2>6, <2>7, <2>8, <2>9, <2>10, <1>5, Zenon
<1> QED
  BY <1>4, <1>5

(* What taking a frame does to the time line and to what is known of it. *)
LEMMA TakesFields ==
  ASSUME ImuTyped, NEW f \in ImuFrames, NEW arrival \in Int,
         NEW s, s = Imu!Decoded(track, f.payload, arrival), Imu!Takes(f, arrival)
  PROVE  /\ s \in ImuSamples /\ sample' = s
         /\ track' \in Timelines /\ truth' \in Truths
         /\ truth'.sampled = f.up /\ truth'.of = f.boot
         /\ ~track.seen \/ (s.jump /\ s.valid) =>
              truth'.boot = f.boot /\ truth'.origin = f.up - s.time
         /\ ~(~track.seen \/ (s.jump /\ s.valid)) =>
              truth'.boot = truth.boot /\ truth'.origin = truth.origin
         /\ Imu!Stale(track, f.payload) => track' = track
         /\ ~Imu!Stale(track, f.payload) =>
              /\ track'.seen /\ track'.last = s.time /\ track'.raw = f.payload.raw
              /\ track'.session = f.payload.session /\ track'.host = arrival
              /\ track'.faulted = IF track.seen THEN ~f.payload.v2 /\ s.jump ELSE track.faulted
<1>1. f.payload \in ImuPayloads /\ f.boot \in Int /\ f.up \in Int /\ track \in Timelines
      /\ truth \in Truths
  BY DEF ImuTyped, ImuFrames
<1>2. s \in ImuSamples
  BY <1>1, DecodedTyped
<1>3. sample' = s /\ track' = Imu!Tracked(track, f.payload, arrival) /\ truth' = Imu!Judged(s, f)
  BY DEF Imu!Takes
<1> DEFINE anew == ~track.seen \/ (s.jump /\ s.valid)
<1>4. truth' = [boot |-> IF anew THEN f.boot ELSE truth.boot,
                origin |-> IF anew THEN f.up - s.time ELSE truth.origin,
                sampled |-> f.up, of |-> f.boot]
  BY <1>3 DEF Imu!Judged
<1>5. s.time \in Int /\ f.up - s.time \in Int /\ truth.boot \in Int /\ truth.origin \in Int
  BY <1>1, <1>2 DEF ImuSamples, Truths
<1>6. /\ anew => truth'.boot = f.boot /\ truth'.origin = f.up - s.time
      /\ ~anew => truth'.boot = truth.boot /\ truth'.origin = truth.origin
      /\ truth'.sampled = f.up /\ truth'.of = f.boot
  BY <1>4
<1>7. truth' \in Truths
  <2> HIDE DEF anew
  <2>1. (IF anew THEN f.boot ELSE truth.boot) \in Int
        /\ (IF anew THEN f.up - s.time ELSE truth.origin) \in Int
    BY <1>1, <1>5
  <2> QED
    BY <2>1, <1>1, <1>4 DEF Truths
<1>8. Imu!Stale(track, f.payload) => track' = track
  BY <1>3 DEF Imu!Tracked
<1>9. ASSUME ~Imu!Stale(track, f.payload)
      PROVE  /\ track'.seen /\ track'.last = s.time /\ track'.raw = f.payload.raw
             /\ track'.session = f.payload.session /\ track'.host = arrival
             /\ track'.faulted = IF track.seen THEN ~f.payload.v2 /\ s.jump ELSE track.faulted
             /\ track' \in Timelines
  <2> DEFINE faulted == IF track.seen THEN ~f.payload.v2 /\ s.jump ELSE track.faulted
  <2>1. track' = [seen |-> TRUE, faulted |-> faulted, last |-> s.time, raw |-> f.payload.raw,
                  seq |-> f.payload.seq, session |-> f.payload.session, host |-> arrival]
    BY <1>3, <1>9 DEF Imu!Tracked
  <2>2. faulted \in BOOLEAN
    BY <1>1, <1>2 DEF Timelines, ImuSamples, ImuPayloads
  <2>3. f.payload.raw \in Int /\ f.payload.seq \in Int /\ f.payload.session \in Int
    BY <1>1 DEF ImuPayloads
  <2> HIDE DEF faulted
  <2>4. track' \in Timelines
    BY <2>1, <2>2, <2>3, <1>5 DEF Timelines
  <2>5. track'.faulted = faulted
    BY <2>1
  <2>6. /\ track'.seen /\ track'.last = s.time /\ track'.raw = f.payload.raw
        /\ track'.session = f.payload.session /\ track'.host = arrival
    BY <2>1
  <2> QED
    BY <2>4, <2>5, <2>6 DEF faulted
<1>10. track' \in Timelines
  BY <1>1, <1>8, <1>9
<1> QED
  BY <1>2, <1>3, <1>6, <1>7, <1>8, <1>9, <1>10

LEMMA TakesV2 ==
  ASSUME TimesInv, NEW f \in ImuFrames, NEW arrival \in Int, Imu!Takes(f, arrival),
         Imu!Decodes(f.payload), TrueFrame(f), f.payload.v2, UNCHANGED <<clock, mcu, sent>>
  PROVE  TrackInv' /\ Imu!ValidTimesAreTrue' /\ Imu!MarksJumps
<1> DEFINE p == f.payload
           s == Imu!Decoded(track, p, arrival)
<1>1. /\ ImuTyped /\ TrackInv /\ track \in Timelines /\ truth \in Truths /\ mcu \in Mcus
      /\ p \in ImuPayloads /\ f.boot \in Int /\ f.up \in Int
  BY DEF TimesInv, ImuTyped, ImuFrames
<1>2. f.boot = mcu.boot /\ p.time = f.up /\ p.session = f.boot /\ f.boot # 0 /\ mcu' = mcu
  BY <1>1 DEF TrueFrame, Mcus
<1>3. /\ s.payload = p /\ s.time = p.time
      /\ s.valid = ~Imu!Stale(track, p)
      /\ s.jump = (Imu!Stale(track, p) \/ (track.seen /\ track.session # p.session))
  BY <1>1, DecodedTyped
<1>4. /\ sample' = s
      /\ truth'.sampled = f.up /\ truth'.of = f.boot
      /\ ~track.seen \/ (s.jump /\ s.valid) =>
           truth'.boot = f.boot /\ truth'.origin = f.up - s.time
      /\ ~(~track.seen \/ (s.jump /\ s.valid)) =>
           truth'.boot = truth.boot /\ truth'.origin = truth.origin
      /\ Imu!Stale(track, p) => track' = track
      /\ ~Imu!Stale(track, p) => track'.seen /\ track'.session = p.session
  BY <1>1, TakesFields
<1>5. track.seen => /\ truth.boot <= truth.of /\ truth.of <= mcu.boot
                    /\ track.session # 0 => truth.origin = 0
  BY <1>1 DEF TrackInv
<1> HIDE DEF s, p
<1>6. f.up - f.up = 0 /\ truth.boot \in Int /\ truth.of \in Int /\ track.seen \in BOOLEAN
      /\ p.time \in Int /\ track.last \in Int /\ mcu.boot \in Int
  BY <1>1 DEF Truths, Timelines, ImuPayloads, Mcus
<1>7. CASE Imu!Stale(track, p)
  <2>1. track.seen /\ track.session = p.session
    BY <1>7 DEF Imu!Stale
  <2>2. ~s.valid /\ ~sample'.valid
    BY <1>3, <1>4, <1>7
  <2>3. truth'.boot = truth.boot /\ truth'.origin = truth.origin /\ track' = track
    BY <1>4, <1>7, <2>1, <2>2
  <2>4. TrackInv'
    BY <2>1, <2>3, <1>2, <1>4, <1>5, <1>6 DEF TrackInv
  <2> QED
    BY <2>2, <2>4 DEF Imu!ValidTimesAreTrue, Imu!MarksJumps
<1>8. CASE ~Imu!Stale(track, p)
  <2>1. s.valid /\ s.jump = (track.seen /\ track.session # p.session)
    BY <1>3, <1>8
  <2>2. track'.seen /\ track'.session = p.session /\ track'.session # 0
    BY <1>2, <1>4, <1>8
  <2>3. truth'.origin = 0 /\ truth'.boot <= truth'.of /\ truth'.of = mcu.boot
    <3>1. CASE ~track.seen \/ s.jump
      BY <3>1, <2>1, <1>2, <1>3, <1>4, <1>6
    <3>2. CASE track.seen /\ ~s.jump
      <4>1. track.session = p.session
        BY <3>2, <2>1
      <4>2. truth'.boot = truth.boot /\ truth'.origin = truth.origin
        BY <3>2, <1>4
      <4> QED
        BY <4>1, <4>2, <3>2, <1>2, <1>4, <1>5, <1>6
    <3> QED
      BY <3>1, <3>2, <1>6
  <2>4. TrackInv'
    BY <2>2, <2>3, <1>2, <1>6 DEF TrackInv
  <2>5. sample'.time = f.up /\ truth'.sampled = f.up
    BY <1>2, <1>3, <1>4
  <2>6. Imu!ValidTimesAreTrue'
    BY <2>3, <2>5, <1>6 DEF Imu!ValidTimesAreTrue
  <2>7. Imu!MarksJumps
    <3> SUFFICES ASSUME track.seen, ~sample'.jump
                 PROVE  track'.session = track.session /\ sample'.time >= track.last
      BY DEF Imu!MarksJumps
    <3>1. track.session = p.session
      BY <2>1, <1>4
    <3>2. ~(p.time < track.last)
      <4>1. p.v2
        BY DEF p
      <4> QED
        BY <4>1, <3>1, <1>8 DEF Imu!Stale
    <3> QED
      BY <3>1, <3>2, <2>2, <2>5, <1>2, <1>6
  <2> QED
    BY <2>4, <2>6, <2>7
<1> QED
  BY <1>7, <1>8

LEMMA TakesLegacy ==
  ASSUME TimesInv, NEW f \in ImuFrames, NEW arrival \in Int, Imu!Takes(f, arrival),
         arrival - clock \in 0 .. Width \div 2,
         Imu!Decodes(f.payload), TrueFrame(f), ~f.payload.v2, UNCHANGED <<clock, mcu, sent>>
  PROVE  TrackInv' /\ Imu!ValidTimesAreTrue' /\ Imu!MarksJumps
<1> DEFINE p == f.payload
           s == Imu!Decoded(track, p, arrival)
<1>1. /\ ImuTyped /\ TrackInv /\ track \in Timelines /\ truth \in Truths /\ mcu \in Mcus
      /\ p \in ImuPayloads /\ f.boot \in Int /\ f.up \in Int /\ clock \in Nat
  BY DEF TimesInv, ImuTyped, ImuFrames
<1>2. /\ f.boot = mcu.boot /\ p.session = 0 /\ f.up = mcu.up /\ p.raw = f.up % Width
      /\ mcu' = mcu /\ clock' = clock
  BY <1>1 DEF TrueFrame
<1>3. ~Imu!Stale(track, p)
  BY DEF Imu!Stale
<1>4. /\ s.payload = p /\ s.valid = ~s.jump
      /\ s.jump = (track.seen /\ Imu!Ambiguous(track, p, arrival))
      /\ s.time = IF track.seen /\ s.valid THEN track.last + ((p.raw - track.raw) % Width)
                  ELSE p.raw
  BY <1>1, DecodedTyped
<1>5. /\ sample' = s
      /\ truth'.sampled = f.up /\ truth'.of = f.boot
      /\ ~track.seen \/ (s.jump /\ s.valid) =>
           truth'.boot = f.boot /\ truth'.origin = f.up - s.time
      /\ ~(~track.seen \/ (s.jump /\ s.valid)) =>
           truth'.boot = truth.boot /\ truth'.origin = truth.origin
      /\ track'.seen /\ track'.last = s.time /\ track'.raw = p.raw
      /\ track'.session = 0 /\ track'.host = arrival
      /\ track'.faulted = IF track.seen THEN ~p.v2 /\ s.jump ELSE track.faulted
      /\ s \in ImuSamples
  <2>1. ~Imu!Stale(track, f.payload)
    BY <1>3
  <2> QED
    BY <2>1, <1>1, <1>2, TakesFields
<1>6. /\ truth.boot \in Int /\ truth.of \in Int /\ truth.origin \in Int /\ truth.sampled \in Int
      /\ track.seen \in BOOLEAN /\ track.last \in Int /\ track.raw \in Int /\ track.host \in Int
      /\ mcu.up \in Nat /\ mcu.boot \in Int /\ s.time \in Int
  BY <1>1, <1>5 DEF Truths, Timelines, Mcus, ImuSamples
<1> HIDE DEF s
<1>7. /\ truth'.boot <= truth'.of /\ truth'.of = mcu.boot
      /\ truth'.sampled = mcu.up /\ truth'.sampled \in Nat
      /\ track'.raw = truth'.sampled % Width
      /\ track'.host - (clock - (mcu.up - truth'.sampled)) \in 0 .. Width \div 2
  <2>1. truth'.boot <= truth'.of
    BY <1>1, <1>2, <1>4, <1>5, <1>6 DEF TrackInv
  <2>2. track'.host - (clock - (mcu.up - truth'.sampled)) = arrival - clock
    BY <1>1, <1>2, <1>5, <1>6
  <2> QED
    BY <2>1, <2>2, <1>2, <1>5, <1>6
(* A sample that was not lost continues the one before it, if that is of its boot. *)
<1>8. s.valid /\ truth'.of = truth'.boot => s.time = truth'.sampled - truth'.origin
  <2> SUFFICES ASSUME s.valid, truth'.of = truth'.boot
               PROVE  s.time = truth'.sampled - truth'.origin
    OBVIOUS
  <2>1. CASE ~track.seen
    BY <2>1, <1>5, <1>6, <1>2
  <2>2. CASE track.seen
    <3>1. /\ ~Imu!Ambiguous(track, p, arrival)
          /\ truth'.boot = truth.boot /\ truth'.origin = truth.origin
      BY <2>2, <1>4, <1>5
    <3>2. /\ ~track.faulted /\ track.session = 0
          /\ arrival - track.host \in 0 .. Imu!Half - 1
      BY <3>1, <2>2, <1>1, LegacyGap
    <3>3. truth.boot = mcu.boot /\ truth.of = mcu.boot
      BY <3>1, <2>2, <1>1, <1>6, <1>7 DEF TrackInv
    <3>4. /\ truth.sampled \in Nat /\ truth.sampled <= mcu.up
          /\ track.raw = truth.sampled % Width
          /\ track.last = truth.sampled - truth.origin
          /\ track.host - (clock - (mcu.up - truth.sampled)) \in 0 .. Width \div 2
      BY <3>2, <3>3, <2>2, <1>1 DEF TrackInv
    <3>5. mcu.up - truth.sampled < Width
      <4>1. mcu.up - truth.sampled
              = (arrival - track.host) + (track.host - (clock - (mcu.up - truth.sampled)))
                  - (arrival - clock)
        BY <1>1, <1>6, <3>4
      <4> QED
        BY <4>1, <3>2, <3>4, <1>1, <1>6, WidthTyped
    <3>6. (p.raw - track.raw) % Width = mcu.up - truth.sampled
      <4>1. p.raw = mcu.up % Width
        BY <1>2
      <4>2. ((mcu.up % Width) - (truth.sampled % Width)) % Width = mcu.up - truth.sampled
        BY <3>4, <3>5, <1>6, WidthTyped, ModDiff
      <4> QED
        BY <4>1, <4>2, <3>4
    <3>7. s.time = track.last + (mcu.up - truth.sampled)
      BY <3>6, <2>2, <1>4
    <3> QED
      BY <3>1, <3>4, <3>7, <1>5, <1>2, <1>6
  <2> QED
    BY <2>1, <2>2, <1>6
<1>9. ~track'.faulted => s.valid
  BY <1>4, <1>5
<1>10. TrackInv'
  <2>1. ~track'.faulted /\ truth'.of = truth'.boot => track'.last = truth'.sampled - truth'.origin
    BY <1>5, <1>8, <1>9
  <2>2. track'.session = 0
    BY <1>5
  <2>3. truth'.sampled <= mcu'.up /\ truth'.of <= mcu'.boot
    BY <1>2, <1>6, <1>7
  <2>4. track'.host - (clock' - (mcu'.up - truth'.sampled)) \in 0 .. Width \div 2
    BY <1>2, <1>7
  <2> QED
    BY <2>1, <2>2, <2>3, <2>4, <1>7 DEF TrackInv
<1>11. Imu!ValidTimesAreTrue'
  <2>1. ~sample'.payload.v2
    BY <1>4, <1>5
  <2> SUFFICES ASSUME s.valid, truth'.of = truth'.boot
               PROVE  truth'.sampled - s.time = truth'.origin
    BY <2>1, <1>5 DEF Imu!ValidTimesAreTrue
  <2>2. truth'.origin \in Int
    BY <1>1, TakesFields DEF Truths
  <2> QED
    BY <2>2, <1>5, <1>6, <1>7, <1>8
<1>12. Imu!MarksJumps
  BY <1>4, <1>5 DEF Imu!MarksJumps
<1> QED
  BY <1>10, <1>11, <1>12

LEMMA TimesTakes ==
  ASSUME TimesInv, NEW f \in ImuFrames, NEW arrival \in Int, Imu!Takes(f, arrival),
         arrival - clock \in 0 .. Width \div 2,
         Imu!Decodes(f.payload), TrueFrame(f), UNCHANGED <<clock, mcu, sent>>
  PROVE  TimesInv' /\ Imu!MarksJumps
<1>1. TrackInv' /\ Imu!ValidTimesAreTrue' /\ Imu!MarksJumps
  BY TakesV2, TakesLegacy
<1>2. ImuTyped
  BY DEF TimesInv
<1>3. track' \in Timelines /\ truth' \in Truths /\ sample' \in ImuSamples
  BY <1>2, TakesFields
<1>4. ImuTyped'
  BY <1>2, <1>3 DEF ImuTyped
<1>5. \A g \in sent : TrueFrame(g)' = TrueFrame(g)
  BY DEF TrueFrame
<1> QED
  BY <1>1, <1>4, <1>5 DEF TimesInv

(* The MCU's own frames are true. *)
LEMMA OwnFrame ==
  ASSUME NEW m \in Mcus, NEW f, f = Imu!Frame(Imu!Payload(m), m)
  PROVE  /\ f \in ImuFrames
         /\ mcu = m => TrueFrame(f)
<1>1. f.payload = Imu!Payload(m) /\ f.boot = m.boot /\ f.up = m.up /\ f \in ImuFrames
  BY PayloadTrue DEF Imu!Frame, ImuFrames, Mcus
<1>2. m.up \in 0 .. m.up
  BY DEF Mcus
<1> QED
  BY <1>1, <1>2, PayloadTrue DEF TrueFrame

LEMMA TimesPoll ==
  ASSUME TimesInv, Imu!read_once
  PROVE  TimesInv' /\ Imu!MarksJumps
<1>1. mcu \in Mcus /\ clock \in Nat
  BY DEF TimesInv, ImuTyped
<1>2. /\ Imu!Decodes(Imu!Payload(mcu)) /\ Imu!Takes(Imu!Frame(Imu!Payload(mcu), mcu), clock)
      /\ UNCHANGED <<clock, mcu, sent>>
  BY DEF Imu!read_once
<1>3. Imu!Frame(Imu!Payload(mcu), mcu).payload = Imu!Payload(mcu)
  BY DEF Imu!Frame
<1>4. clock \in Int /\ clock - clock \in 0 .. Width \div 2
  BY <1>1, WidthTyped
<1> QED
  BY <1>1, <1>2, <1>3, <1>4, OwnFrame, TimesTakes

LEMMA TimesReceive ==
  ASSUME TimesInv, Imu!Receive
  PROVE  TimesInv' /\ Imu!MarksJumps
<1>1. PICK f \in sent, delay \in Delays : Imu!Deliver(f, delay)
  BY DEF Imu!Receive
<1>2. f \in ImuFrames /\ TrueFrame(f) /\ clock \in Nat
  BY <1>1 DEF TimesInv, ImuTyped
<1>3. clock + delay \in Int /\ (clock + delay) - clock \in 0 .. Width \div 2
  BY <1>2, ImuAssumption, WidthTyped
<1>4. /\ Imu!Decodes(f.payload) /\ Imu!Takes(f, clock + delay)
      /\ UNCHANGED <<clock, mcu, sent>>
  BY <1>1 DEF Imu!Deliver, Imu!Receive
<1> QED
  BY <1>2, <1>3, <1>4, TimesTakes

(* Where neither the reader's time line nor its sample changes. *)
LEMMA TimesSame ==
  ASSUME TimesInv, UNCHANGED <<track, sample, truth>>,
         mcu' \in Mcus, clock' \in Nat, sent' \subseteq ImuFrames,
         \A f \in sent' : TrueFrame(f)',
         \/ mcu'.boot = mcu.boot /\ mcu'.up - mcu.up \in Nat /\ clock' - clock = mcu'.up - mcu.up
         \/ mcu'.boot > mcu.boot
  PROVE  TimesInv' /\ Imu!MarksJumps
<1>1. /\ ImuTyped /\ track \in Timelines /\ truth \in Truths /\ mcu \in Mcus /\ TrackInv
      /\ clock \in Nat
  BY DEF TimesInv, ImuTyped
<1>2. ImuTyped'
  BY <1>1 DEF ImuTyped
<1>3. Imu!ValidTimesAreTrue' /\ Imu!MarksJumps
  BY DEF TimesInv, Imu!ValidTimesAreTrue, Imu!MarksJumps
<1>4. /\ mcu.boot \in Int /\ mcu'.boot \in Int /\ mcu.up \in Int /\ mcu'.up \in Int
      /\ truth.of \in Int /\ truth.boot \in Int /\ truth.sampled \in Int /\ track.host \in Int
      /\ clock \in Int /\ clock' \in Int
  BY <1>1 DEF Mcus, Truths, Timelines
<1>5. ASSUME track.seen
      PROVE  /\ truth.of <= mcu'.boot
             /\ track.session = 0 /\ truth.of = mcu'.boot =>
                  /\ truth.sampled <= mcu'.up
                  /\ track.host - (clock' - (mcu'.up - truth.sampled)) \in 0 .. Width \div 2
  <2>1. CASE mcu'.boot = mcu.boot /\ mcu'.up - mcu.up \in Nat /\ clock' - clock = mcu'.up - mcu.up
    <3>1. track.host - (clock' - (mcu'.up - truth.sampled))
            = track.host - (clock - (mcu.up - truth.sampled))
      BY <2>1, <1>4
    <3>2. mcu.up <= mcu'.up
      BY <2>1, <1>4
    <3>3. /\ truth.of <= mcu.boot
          /\ track.session = 0 /\ truth.of = mcu.boot =>
               /\ truth.sampled <= mcu.up
               /\ track.host - (clock - (mcu.up - truth.sampled)) \in 0 .. Width \div 2
      BY <1>1, <1>5 DEF TrackInv
    <3> QED
      BY <3>1, <3>2, <3>3, <2>1, <1>4
  <2>2. CASE mcu'.boot > mcu.boot
    BY <2>2, <1>1, <1>4, <1>5 DEF TrackInv
  <2> QED
    BY <2>1, <2>2
<1>6. TrackInv'
  BY <1>1, <1>5 DEF TrackInv
<1> QED
  BY <1>2, <1>3, <1>6 DEF TimesInv

LEMMA TimesAcquire ==
  ASSUME TimesInv, Imu!Acquire
  PROVE  TimesInv' /\ Imu!MarksJumps
<1>1. /\ mcu \in Mcus /\ clock \in Nat /\ sent \subseteq ImuFrames
      /\ \A f \in sent : TrueFrame(f)
  BY DEF TimesInv, ImuTyped
<1>2. PICK d \in Steps, k \in Skips :
        /\ clock' = clock + d
        /\ mcu' = [mcu EXCEPT !.up = @ + d, !.seq = (@ + k) % SeqWidth, !.samples = @ + 1]
  BY DEF Imu!Acquire
<1>3. /\ d \in Nat /\ mcu.up + d \in Nat /\ (mcu.seq + k) % SeqWidth \in Int
      /\ mcu.samples + 1 \in Nat /\ clock' \in Nat
  BY <1>1, <1>2, ImuAssumption DEF Mcus
<1>4. mcu' \in Mcus /\ mcu'.up = mcu.up + d /\ mcu'.boot = mcu.boot
  BY <1>1, <1>2, <1>3 DEF Mcus
<1>5. sent' = Imu!Latest(sent, mcu') /\ UNCHANGED <<track, sample, truth>>
  BY DEF Imu!Acquire
<1>6. ASSUME NEW f \in sent'
      PROVE  f \in ImuFrames /\ TrueFrame(f)'
  <2>1. CASE f = Imu!Frame(Imu!Payload(mcu'), mcu')
    <3>1. PICK m \in Mcus : m = mcu'
      BY <1>4
    <3>2. f \in ImuFrames /\ f.payload = Imu!Payload(m) /\ f.boot = m.boot /\ f.up = m.up
      BY <2>1, <3>1, OwnFrame DEF Imu!Frame
    <3>3. m.up \in 0 .. m.up
      BY DEF Mcus
    <3> QED
      BY <3>1, <3>2, <3>3, PayloadTrue DEF TrueFrame
  <2>2. CASE f # Imu!Frame(Imu!Payload(mcu'), mcu')
    <3>1. f \in sent /\ f.payload.v2
      BY <2>2, <1>5 DEF Imu!Latest
    <3>2. \A n \in 0 .. mcu.up : n \in 0 .. mcu'.up
      BY <1>1, <1>3, <1>4 DEF Mcus
    <3> QED
      BY <3>1, <3>2, <1>1, <1>4 DEF TrueFrame
  <2> QED
    BY <2>1, <2>2
<1>7. mcu'.up - mcu.up \in Nat /\ clock' - clock = mcu'.up - mcu.up
  BY <1>1, <1>2, <1>3, <1>4 DEF Mcus
<1> QED
  BY <1>3, <1>4, <1>5, <1>6, <1>7, TimesSame

LEMMA TimesRestart ==
  ASSUME TimesInv, Imu!Restart
  PROVE  TimesInv' /\ Imu!MarksJumps
<1>1. mcu \in Mcus /\ clock \in Nat
  BY DEF TimesInv, ImuTyped
<1>2. PICK v2 \in BOOLEAN :
        mcu' = [mcu EXCEPT !.boot = @ + 1, !.up = 0, !.seq = 0, !.v2 = v2]
  BY DEF Imu!Restart
<1>3. mcu' \in Mcus /\ mcu'.boot > mcu.boot
  <2>1. mcu.boot + 1 \in Nat \ {0} /\ mcu.boot + 1 > mcu.boot
    BY <1>1 DEF Mcus
  <2>2. \A n \in Nat \ {0}, up \in Nat, seq \in Int :
          [mcu EXCEPT !.boot = n, !.up = up, !.seq = seq, !.v2 = v2] \in Mcus
    BY <1>1 DEF Mcus
  <2>3. mcu' = [mcu EXCEPT !.boot = mcu.boot + 1, !.up = 0, !.seq = 0, !.v2 = v2]
    BY <1>2
  <2>4. mcu'.boot = mcu.boot + 1
    BY <2>3, <1>1 DEF Mcus
  <2>5. 0 \in Nat /\ 0 \in Int
    OBVIOUS
  <2> QED
    BY <2>1, <2>2, <2>3, <2>4, <2>5
<1>4. sent' = {} /\ clock' = clock /\ UNCHANGED <<track, sample, truth>>
  BY DEF Imu!Restart
<1> QED
  BY <1>1, <1>3, <1>4, TimesSame

LEMMA TimesCorrupt ==
  ASSUME TimesInv, Imu!Corrupt
  PROVE  TimesInv' /\ Imu!MarksJumps
<1>1. mcu \in Mcus /\ clock \in Nat /\ mcu.v2
  BY DEF TimesInv, ImuTyped, Imu!Corrupt
<1> DEFINE p == Imu!Payload(mcu)
<1>2. PICK q : /\ q \in {[p EXCEPT !.session = 0], [p EXCEPT !.size = 28],
                        [p EXCEPT !.raw = (@ + 1) % Width]}
               /\ sent' = {Imu!Frame(q, mcu)}
  BY DEF Imu!Corrupt
<1>3. p \in ImuPayloads /\ p.raw = mcu.up % Width /\ p.v2 /\ p.time = mcu.up
  BY <1>1, PayloadTrue
<1> HIDE DEF p
<1>4. mcu.up \in Nat /\ mcu.boot \in Int /\ p.raw \in Int /\ (p.raw + 1) % Width \in Int
  BY <1>1, <1>3, WidthTyped DEF Mcus, ImuPayloads
<1>5. q \in ImuPayloads /\ ~Imu!Decodes(q)
  <2>1. CASE q = [p EXCEPT !.session = 0]
    BY <2>1, <1>3 DEF ImuPayloads, Imu!Decodes
  <2>2. CASE q = [p EXCEPT !.size = 28]
    BY <2>2, <1>3 DEF ImuPayloads, Imu!Decodes, Imu!Size
  <2>3. CASE q = [p EXCEPT !.raw = (@ + 1) % Width]
    <3>1. q \in ImuPayloads /\ q.raw = (p.raw + 1) % Width /\ q.time = p.time /\ q.v2
      BY <2>3, <1>3, <1>4 DEF ImuPayloads
    <3>2. \A n \in 0 .. Width - 1 : (n + 1) % Width # n
      <4> SUFFICES ASSUME NEW n \in 0 .. Width - 1 PROVE (n + 1) % Width # n
        OBVIOUS
      <4>1. Width \in Nat /\ Width > 1
        BY ImuAssumption
      <4>2. CASE n + 1 < Width
        BY <4>1, <4>2
      <4>3. CASE n + 1 = Width
        BY <4>1, <4>3
      <4> QED
        BY <4>1, <4>2, <4>3
    <3>3. p.raw \in 0 .. Width - 1
      BY <1>3, <1>4, WidthTyped
    <3>4. q.time % Width # q.raw
      BY <3>1, <3>2, <3>3, <1>3
    <3> QED
      BY <3>1, <3>4 DEF Imu!Decodes
  <2> QED
    BY <2>1, <2>2, <2>3, <1>2
<1>6. Imu!Frame(q, mcu) \in ImuFrames /\ Imu!Frame(q, mcu).payload = q
  BY <1>4, <1>5 DEF Imu!Frame, ImuFrames
<1>7. \A f \in sent' : f \in ImuFrames /\ TrueFrame(f)'
  BY <1>2, <1>5, <1>6 DEF TrueFrame
<1>8. UNCHANGED <<clock, mcu, track, sample, truth>>
  BY DEF Imu!Corrupt
<1>9. mcu'.up - mcu.up \in Nat /\ clock' - clock = mcu'.up - mcu.up
  BY <1>1, <1>4, <1>8
<1> QED
  BY <1>1, <1>7, <1>8, <1>9, TimesSame

LEMMA TimesSubscribe ==
  ASSUME TimesInv, Imu!on_data \/ Imu!off
  PROVE  TimesInv' /\ Imu!MarksJumps
<1>1. CASE Imu!on_data
  <2>1. /\ UNCHANGED <<clock, mcu, sent>>
        /\ track' = Imu!Fresh /\ sample' = Imu!NoSample /\ truth' = Imu!NoTruth
    BY <1>1 DEF Imu!on_data
  <2>2. Imu!Fresh \in Timelines /\ ~Imu!Fresh.seen
    BY DEF Imu!Fresh, Timelines
  <2>3. Imu!NoSample \in ImuSamples /\ ~Imu!NoSample.valid
    BY DEF Imu!NoSample, Imu!NoPayload, ImuSamples, ImuPayloads
  <2>4. Imu!NoTruth \in Truths
    BY DEF Imu!NoTruth, Truths
  <2>5. ImuTyped'
    BY <2>1, <2>2, <2>3, <2>4 DEF TimesInv, ImuTyped
  <2>6. \A f \in sent : TrueFrame(f)' = TrueFrame(f)
    BY <2>1 DEF TrueFrame
  <2> QED
    BY <2>1, <2>2, <2>3, <2>5, <2>6
       DEF TimesInv, TrackInv, Imu!ValidTimesAreTrue, Imu!MarksJumps
<1>2. CASE Imu!off
  <2>1. UNCHANGED <<clock, mcu, sent, track, sample, truth>>
    BY <1>2 DEF Imu!off
  <2>2. \A f \in sent : TrueFrame(f)' = TrueFrame(f)
    BY <2>1 DEF TrueFrame
  <2>3. clock \in Nat /\ mcu \in Mcus /\ sent \subseteq ImuFrames
    BY DEF TimesInv, ImuTyped
  <2>4. mcu'.up - mcu.up \in Nat /\ clock' - clock = mcu'.up - mcu.up /\ mcu'.boot = mcu.boot
    BY <2>1, <2>3 DEF Mcus
  <2>5. \A f \in sent' : TrueFrame(f)'
    BY <2>1, <2>2 DEF TimesInv
  <2> QED
    BY <2>1, <2>3, <2>4, <2>5, TimesSame
<1> QED
  BY <1>1, <1>2

LEMMA TimesInit ==
  Imu!Init => TimesInv
<1> SUFFICES ASSUME Imu!Init PROVE TimesInv
  OBVIOUS
<1>1. PICK v2 \in BOOLEAN :
        mcu = [boot |-> 1, up |-> 0, seq |-> 0, v2 |-> v2, samples |-> 0]
  BY DEF Imu!Init
<1>2. mcu \in Mcus
  BY <1>1 DEF Mcus
<1>3. /\ clock = 0 /\ sent = {} /\ track = Imu!Fresh /\ sample = Imu!NoSample
      /\ truth = Imu!NoTruth
  BY DEF Imu!Init
<1>4. track \in Timelines /\ ~track.seen
  BY <1>3 DEF Imu!Fresh, Timelines
<1>5. sample \in ImuSamples /\ ~sample.valid
  BY <1>3 DEF Imu!NoSample, Imu!NoPayload, ImuSamples, ImuPayloads
<1>6. truth \in Truths
  BY <1>3 DEF Imu!NoTruth, Truths
<1> QED
  BY <1>2, <1>3, <1>4, <1>5, <1>6 DEF TimesInv, ImuTyped, TrackInv, Imu!ValidTimesAreTrue

(* A valid sample says when it was taken, whatever wraps, silences, late frames and
   restarts came before it (imu.cpp:87); a V2 sample continues its boot or is marked as
   a jump (imu.cpp:78-85). *)
THEOREM TimesAreAlwaysTrue ==
  Spec => TimesAreTrue
<1> DEFINE IInv == part = "imu" => TimesInv
           Told == part = "imu" => Imu!ValidTimesAreTrue
           Marked == part = "imu" => Imu!MarksJumps
<1>1. Init => IInv
  BY TimesInit DEF Init
<1>2. IInv /\ [Next]_vars => IInv' /\ [Marked]_vars
  <2> SUFFICES ASSUME IInv, [Next]_vars PROVE IInv' /\ [Marked]_vars
    OBVIOUS
  <2>1. CASE Next
    <3> SUFFICES ASSUME part = "imu" \/ part' = "imu" PROVE TimesInv' /\ Imu!MarksJumps
      OBVIOUS
    <3>1. part = "imu" /\ Imu!Next
      BY <2>1 DEF Next
    <3> QED
      BY <3>1, TimesPoll, TimesSubscribe, TimesReceive, TimesAcquire, TimesRestart, TimesCorrupt
         DEF Imu!Next
  <2>2. CASE UNCHANGED vars
    <3>1. part' = part
      BY <2>2 DEF vars
    <3>2. ASSUME part = "imu" PROVE TimesInv'
      <4>1. UNCHANGED <<clock, mcu, sent, track, sample, truth>> /\ TimesInv
        BY <2>2, <3>2 DEF vars, imuVars
      <4>2. \A f \in sent : TrueFrame(f)' = TrueFrame(f)
        BY <4>1 DEF TrueFrame
      <4> QED
        BY <4>1, <4>2 DEF TimesInv, ImuTyped, TrackInv, Imu!ValidTimesAreTrue
    <3> QED
      BY <2>2, <3>1, <3>2
  <2> QED
    BY <2>1, <2>2
<1>3. IInv => Told
  BY DEF TimesInv
<1>4. Spec => [](part = "imu" => Imu!ValidTimesAreTrue) /\ [][part = "imu" => Imu!MarksJumps]_vars
  <2> HIDE DEF IInv
  <2> QED
    BY <1>1, <1>2, <1>3, PTL DEF Spec
<1> QED
  BY <1>4, Zenon DEF TimesAreTrue

-----------------------------------------------------------------------------
(* The grasp. *)

PolicyStates == {"ok", "fault"}
Branches == {"limp", "seed", "track", "push", "grip"}
Dirs == {-1, 0, 1}
Jaws == [pos : Int, vel : Int]
Policies ==
  [state : PolicyStates, target : Int, grasp : Grasps, told : Int, ramp : Int, ramped : BOOLEAN,
   latched : BOOLEAN, dir : Dirs, topup : Nat, anchor : Int, stallPos : Int, stall : Int,
   stalled : BOOLEAN, steadyPos : Int, steadyFor : Int, steady : BOOLEAN, arrived : BOOLEAN,
   holding : BOOLEAN]
Outs == [branch : Branches, torque : Int, budget : Int]

GraspTyped ==
  /\ gjaw \in Jaws
  /\ policy \in Policies
  /\ out \in Outs
  /\ refs \in Seq(Int) /\ refs # <<>>

(* A push is within the largest budget and of a target near where it began; a latched
   one has a direction.  There is none before the ramp is on the jaw, or after a fault. *)
PushKept(p) ==
  /\ p.topup <= Grasp!Default
  /\ ~p.ramped => p.topup = 0
  /\ p.state = "fault" => ~p.ramped
  /\ p.latched \/ p.topup > 0 => Grasp!Abs(p.target - p.anchor) <= Eps
  /\ p.latched => p.dir # 0

(* What a command asks of the motor, by the branch of the law it comes from. *)
WithinBudget(o, s) ==
  /\ o.branch = "limp" => o.torque = 0
  /\ o.branch \in {"seed", "track", "grip"} =>
       Grasp!Abs(o.torque) <= Grasp!More(o.budget, Preload + 1)
  /\ o.branch = "push" =>
       Grasp!Abs(o.torque + Kd * s.vel) <= Grasp!More(o.budget, Grasp!Default - TopUp)

GraspInv ==
  /\ GraspTyped
  /\ PushKept(policy)
  /\ WithinBudget(out, gjaw)
  /\ policy.told \in {0, Grasp!Less(MotionLimit, Grasp!Abs(out.torque))}

(* The push of q, which p became in a frame, next to that of p. *)
PushAfter(p, q) ==
  \/ q.topup <= p.grasp
  \/ q.topup = p.topup - TopUp
  \/ q.topup = p.topup /\ q.latched

(* What a frame leaves alone until travel_track_ pushes. *)
SamePush(p, q) ==
  /\ q.state = p.state /\ q.target = p.target /\ q.grasp = p.grasp /\ q.ramped = p.ramped
  /\ q.latched = p.latched /\ q.dir = p.dir /\ q.topup = p.topup /\ q.anchor = p.anchor

LEMMA GraspConstants ==
  /\ Kp \in Nat \ {0} /\ Kd \in Nat /\ Kp + Kd \in Nat \ {0} /\ Speed \in Nat /\ TopUp \in Nat
  /\ TopUp > 0 /\ GraspOpen \in Int /\ Preload \in Nat /\ MotionLimit \in Nat /\ Eps \in Nat
  /\ Progress \in Nat /\ Window \in Nat
  /\ \A g \in Grasps : g \in Nat /\ g > 0 /\ g <= Grasp!Default
  /\ Grasp!Default \in Grasps
<1>1. \E g \in Grasps : \A h \in Grasps : h <= g
  BY GraspAssumption
<1>2. Grasp!Default \in Grasps /\ \A h \in Grasps : h <= Grasp!Default
  BY <1>1 DEF Grasp!Default
<1> QED
  BY <1>2, GraspAssumption

(* The interval that the budget leaves to the ramp has a point, and the ramp in it asks
   for no more than the budget, damping included. *)
LEMMA RampWithinBudget ==
  ASSUME NEW prev \in Int, NEW advanced \in Int, NEW s \in Jaws, NEW most \in Nat,
         Kp + Kd <= 2 * most + 1,
         NEW ramp, ramp = Grasp!BoundedByBudget(prev, advanced, s, most)
  PROVE  /\ ramp \in Int
         /\ Kp * (ramp - s.pos) + Kd * ((ramp - prev) - s.vel) \in -most .. most
<1> DEFINE k == Kp + Kd
           b == Kp * s.pos + Kd * (prev + s.vel)
           low == Grasp!Up(b - most, k)
           high == (b + most) \div k
<1>1. /\ Kp \in Int /\ Kd \in Int /\ k \in Nat \ {0} /\ s.pos \in Int /\ s.vel \in Int /\ b \in Int
  BY GraspConstants DEF Jaws
<1>2. ramp = Grasp!Clamp(advanced, low, high)
  BY DEF Grasp!BoundedByBudget
<1>3. k <= 2 * most + 1
  OBVIOUS
<1>4. Kp * (ramp - s.pos) + Kd * ((ramp - prev) - s.vel) = k * ramp - b
      \/ ramp \notin Int
  BY <1>1
<1> HIDE DEF k, b
<1>5. \A x \in Int : /\ x \div k \in Int /\ k * (x \div k) <= x
                     /\ k * (x \div k) > x - k
  BY <1>1
<1>6. high \in Int /\ k * high <= b + most /\ k * high > b + most - k
  BY <1>1, <1>5
<1>7. low \in Int /\ k * low >= b - most /\ k * low < b - most + k
  <2> DEFINE d == (-(b - most)) \div k
  <2>1. d \in Int /\ k * d <= -(b - most) /\ k * d > -(b - most) - k
    BY <1>1, <1>5
  <2>2. low = -d
    BY DEF Grasp!Up
  <2> HIDE DEF d
  <2>3. k * (-d) = -(k * d)
    BY <2>1, <1>1
  <2> QED
    BY <2>1, <2>2, <2>3, <1>1
<1> HIDE DEF low, high
<1>8. low <= high
  <2>1. k * low <= b + most
    BY <1>1, <1>3, <1>6, <1>7
  <2>2. k * low < k * high + k
    <3>1. PICK lows \in Int : lows = k * low
      BY <1>1, <1>7
    <3>2. PICK highs \in Int : highs = k * high
      BY <1>1, <1>6
    <3>3. lows <= b + most /\ highs > b + most - k
      BY <2>1, <1>6, <3>1, <3>2, Zenon
    <3>4. lows < highs + k
      BY <3>3, <1>1
    <3> QED
      BY <3>4, <3>1, <3>2, Zenon
  <2>3. k * (high + 1) = k * high + k
    BY <1>1, <1>6
  <2>4. low >= high + 1 => k * low >= k * (high + 1)
    BY <1>1, <1>6, <1>7
  <2>5. ~(low >= high + 1)
    BY <2>2, <2>3, <2>4, <1>1, <1>6, <1>7
  <2> QED
    BY <2>5, <1>6, <1>7
<1>9. ramp \in Int /\ low <= ramp /\ ramp <= high
  BY <1>2, <1>6, <1>7, <1>8 DEF Grasp!Clamp
<1>10. k * low <= k * ramp /\ k * ramp <= k * high
  BY <1>1, <1>6, <1>7, <1>9
<1>11. k * ramp \in Int
  BY <1>1, <1>9
<1> QED
  BY <1>1, <1>4, <1>6, <1>7, <1>9, <1>10, <1>11


LEMMA ArithmeticTyped ==
  /\ \A x, y \in Int : /\ Grasp!Less(x, y) \in Int /\ Grasp!More(x, y) \in Int
                       /\ Grasp!Less(x, y) <= x /\ Grasp!Less(x, y) <= y
                       /\ Grasp!Less(x, y) \in {x, y}
                       /\ x <= Grasp!More(x, y) /\ y <= Grasp!More(x, y)
                       /\ Grasp!More(x, y) \in {x, y}
  /\ \A x \in Int : Grasp!Abs(x) \in Nat
  /\ \A x, low, high \in Int : Grasp!Clamp(x, low, high) \in Int
BY DEF Grasp!Less, Grasp!More, Grasp!Abs, Grasp!Clamp

(* What the push of a frame makes of a policy. *)
Pushes(p, r) ==
  /\ r \in Policies
  /\ r.topup <= Grasp!Default
  /\ r.latched \/ r.topup > 0 => Grasp!Abs(r.target - r.anchor) <= Eps
  /\ r.latched => r.dir # 0
  /\ PushAfter(p, r)
  /\ r.state = p.state /\ r.ramped = p.ramped /\ r.target = p.target /\ r.grasp = p.grasp
  /\ ~r.latched => r.topup <= Grasp!More(p.grasp, Grasp!Default - TopUp)

(* The push of a frame: within what its policy keeps, and its budget or a step down. *)
LEMMA PushedKept ==
  ASSUME NEW p \in Policies, PushKept(p), p.ramped, NEW s, NEW short \in BOOLEAN,
         NEW base \in Int, NEW dir \in Dirs, dir # 0, NEW shortBy \in Int
  PROVE  Pushes(p, Grasp!Pushed(p, s, short, base, dir, shortBy))
<1> DEFINE q == Grasp!Pushed(p, s, short, base, dir, shortBy)
<1> USE DEF Pushes
<1> DEFINE grown == Grasp!Less(p.grasp, Grasp!More(p.topup, base) + TopUp)
           up == [p EXCEPT !.topup = grown,
                           !.anchor = IF p.topup = 0 THEN p.target ELSE @,
                           !.latched = grown >= p.grasp,
                           !.dir = IF grown >= p.grasp THEN dir ELSE @]
           down == [p EXCEPT !.topup = IF short THEN Grasp!More(0, @ - TopUp) ELSE 0]
<1> DEFINE Good(r) == Pushes(p, r)
<1>1. /\ p.grasp \in Nat /\ p.grasp > 0 /\ p.grasp <= Grasp!Default /\ Grasp!Default \in Nat
      /\ TopUp \in Nat /\ TopUp > 0 /\ Eps \in Nat
      /\ p.topup \in Nat /\ p.topup <= Grasp!Default /\ p.target \in Int /\ p.anchor \in Int
      /\ p.latched \in BOOLEAN /\ p.dir \in Dirs
  BY GraspConstants DEF Policies, PushKept
<1>2. /\ grown \in Nat /\ grown <= p.grasp
      /\ Grasp!More(0, p.topup - TopUp) \in {0, p.topup - TopUp}
      /\ Grasp!More(0, p.topup - TopUp) \in Nat
      /\ Grasp!More(p.grasp, Grasp!Default - TopUp) \in Int
      /\ Grasp!More(p.grasp, Grasp!Default - TopUp) >= p.grasp
      /\ Grasp!More(p.grasp, Grasp!Default - TopUp) >= Grasp!Default - TopUp
      /\ Grasp!Abs(p.target - p.target) = 0
  BY <1>1 DEF Grasp!Less, Grasp!More, Grasp!Abs
<1> HIDE DEF grown
<1>3. Good(p) \/ ~p.latched
  BY <1>1 DEF PushAfter, PushKept
<1>4. Good(up) \/ p.latched
  <2>1. up \in Policies
    <3>1. \A t \in Nat, a \in Int, l \in BOOLEAN, d \in Dirs :
            [p EXCEPT !.topup = t, !.anchor = a, !.latched = l, !.dir = d] \in Policies
      BY DEF Policies
    <3>2. /\ (IF p.topup = 0 THEN p.target ELSE p.anchor) \in Int
          /\ (grown >= p.grasp) \in BOOLEAN
          /\ (IF grown >= p.grasp THEN dir ELSE p.dir) \in Dirs
      BY <1>1
    <3> QED
      BY <1>2, <3>1, <3>2, Zenon
  <2>2. /\ up.topup = grown /\ up.latched = (grown >= p.grasp)
        /\ up.anchor = (IF p.topup = 0 THEN p.target ELSE p.anchor)
        /\ up.dir = (IF grown >= p.grasp THEN dir ELSE p.dir)
        /\ up.state = p.state /\ up.ramped = p.ramped /\ up.target = p.target /\ up.grasp = p.grasp
    BY DEF Policies
  <2> HIDE DEF up
  <2>3. Grasp!Abs(up.target - up.anchor) <= Eps
    BY <2>2, <1>1, <1>2 DEF PushKept
  <2>4. up.topup <= p.grasp /\ up.topup <= Grasp!Default
    BY <2>2, <1>1, <1>2
  <2>5. up.latched => up.dir # 0
    BY <2>2
  <2>6. up.topup <= Grasp!More(p.grasp, Grasp!Default - TopUp)
    BY <2>2, <1>1, <1>2
  <2> QED
    BY <2>1, <2>2, <2>3, <2>4, <2>5, <2>6, Zenon DEF PushAfter
<1>5. Good(down) \/ p.latched
  <2>1. down \in Policies
    BY <1>1, <1>2 DEF Policies
  <2>2. /\ down.topup = (IF short THEN Grasp!More(0, p.topup - TopUp) ELSE 0)
        /\ down.latched = p.latched /\ down.anchor = p.anchor
        /\ down.state = p.state /\ down.ramped = p.ramped
        /\ down.target = p.target /\ down.grasp = p.grasp
    BY DEF Policies
  <2> HIDE DEF down
  <2>3. down.topup \in Nat /\ (down.topup = 0 \/ down.topup = p.topup - TopUp)
    BY <2>2, <1>1, <1>2
  <2>4. down.topup > 0 => p.topup > 0
    BY <2>3, <1>1
  <2>5. down.topup > 0 => Grasp!Abs(down.target - down.anchor) <= Eps
    BY <2>2, <2>4 DEF PushKept
  <2>6. down.topup <= Grasp!Default
    BY <2>3, <1>1
  <2>7. down.topup <= p.grasp \/ down.topup = p.topup - TopUp
    BY <2>3, <1>1
  <2>8. down.topup <= Grasp!More(p.grasp, Grasp!Default - TopUp)
    <3>1. down.topup = 0 \/ down.topup <= Grasp!Default - TopUp
      BY <2>3, <1>1
    <3> QED
      BY <2>3, <3>1, <1>1, <1>2
  <2> QED
    BY <2>1, <2>2, <2>5, <2>6, <2>7, <2>8, Zenon DEF PushAfter
<1>6. ASSUME NEW r, Good(r)
      PROVE  Good(Grasp!Released(r))
  <2>1. Grasp!Released(r) \in Policies
    BY <1>6 DEF Grasp!Released, Policies
  <2>2. LET t == Grasp!Released(r)
        IN /\ t.topup = 0 /\ ~t.latched /\ t.state = r.state /\ t.ramped = r.ramped
           /\ t.target = r.target /\ t.grasp = r.grasp
    BY <1>6 DEF Grasp!Released, Policies
  <2>3. 0 <= p.grasp /\ 0 <= Grasp!Default /\ ~(0 > 0)
        /\ 0 <= Grasp!More(p.grasp, Grasp!Default - TopUp)
    BY <1>1, <1>2
  <2> QED
    BY <1>6, <2>1, <2>2, <2>3, Zenon DEF PushAfter
<1> DEFINE moved == IF p.latched THEN p
                    ELSE IF short /\ Grasp!AtRest(p, s) THEN up ELSE down
<1>7. Good(moved)
  <2> HIDE DEF Good, up, down
  <2> QED
    BY <1>3, <1>4, <1>5
<1>8. q = moved \/ q = Grasp!Released(moved)
  BY DEF Grasp!Pushed, grown
<1> HIDE DEF moved, Good
<1>9. Good(q)
  BY <1>6, <1>7, <1>8
<1> QED
  BY <1>9 DEF Good

Results == [policy : Policies, out : Outs]

(* What a frame makes of a policy. *)
Kept(p, s, r) ==
  /\ r \in Results
  /\ PushKept(r.policy) /\ PushAfter(p, r.policy) /\ r.policy.grasp = p.grasp
  /\ WithinBudget(r.out, s)
  /\ r.policy.told \in {0, Grasp!Less(MotionLimit, Grasp!Abs(r.out.torque))}

LEMMA ResultReturns ==
  ASSUME NEW p \in Policies, NEW f, NEW branch \in Branches, NEW s, Grasp!Torque(f, s) \in Int,
         NEW r, r = Grasp!Result(p, f, branch, s)
  PROVE  /\ r \in Results
         /\ SamePush(p, r.policy)
         /\ r.out = [branch |-> branch, torque |-> Grasp!Torque(f, s), budget |-> p.grasp]
         /\ r.policy.told = Grasp!Less(MotionLimit, Grasp!Abs(r.out.torque))
<1>1. PICK torque \in Int : torque = Grasp!Torque(f, s)
  BY Zenon
<1>2. PICK told \in Int : told = Grasp!Less(MotionLimit, Grasp!Abs(torque))
  BY <1>1, ArithmeticTyped, GraspConstants
<1>3. r = [policy |-> [p EXCEPT !.told = told],
           out |-> [branch |-> branch, torque |-> torque, budget |-> p.grasp]]
  BY <1>1, <1>2, Zenon DEF Grasp!Result
<1>4. [p EXCEPT !.told = told] \in Policies
  BY DEF Policies
<1>5. [branch |-> branch, torque |-> torque, budget |-> p.grasp] \in Outs
  BY GraspConstants DEF Policies, Outs
<1>6. SamePush(p, [p EXCEPT !.told = told]) /\ [p EXCEPT !.told = told].told = told
  BY DEF Policies, SamePush
<1>7. /\ r.policy = [p EXCEPT !.told = told]
      /\ r.out = [branch |-> branch, torque |-> torque, budget |-> p.grasp]
      /\ r.out.torque = torque
  BY <1>3
<1>8. r \in Results
  BY <1>3, <1>4, <1>5 DEF Results
<1> QED
  BY <1>1, <1>2, <1>6, <1>7, <1>8, Zenon

(* A result keeps what its policy and its torque do. *)
LEMMA ResultKept ==
  ASSUME NEW p \in Policies, NEW q \in Policies, NEW f, NEW branch \in Branches, NEW s \in Jaws,
         Grasp!Torque(f, s) \in Int,
         PushKept(q), PushAfter(p, q), q.grasp = p.grasp,
         branch = "limp" => Grasp!Torque(f, s) = 0,
         branch \in {"seed", "track", "grip"} =>
           Grasp!Abs(Grasp!Torque(f, s)) <= Grasp!More(p.grasp, Preload + 1),
         branch = "push" =>
           Grasp!Abs(Grasp!Torque(f, s) + Kd * s.vel) <= Grasp!More(p.grasp, Grasp!Default - TopUp),
         NEW r, r = Grasp!Result(q, f, branch, s)
  PROVE  Kept(p, s, r)
<1>1. /\ r \in Results /\ SamePush(q, r.policy)
      /\ r.out = [branch |-> branch, torque |-> Grasp!Torque(f, s), budget |-> q.grasp]
      /\ r.policy.told = Grasp!Less(MotionLimit, Grasp!Abs(r.out.torque))
  BY ResultReturns
<1>2. r.out.branch = branch /\ r.out.torque = Grasp!Torque(f, s) /\ r.out.budget = p.grasp
  BY <1>1
<1>3. WithinBudget(r.out, s)
  BY <1>2, Zenon DEF WithinBudget
<1>4. PushKept(r.policy) /\ PushAfter(p, r.policy) /\ r.policy.grasp = p.grasp
  BY <1>1, Zenon DEF SamePush, PushKept, PushAfter
<1> QED
  BY <1>1, <1>3, <1>4, Zenon DEF Kept

(* A frame on the way: the ramp, the push and the grip each stay within the budget. *)
LEMMA TrackKept ==
  ASSUME NEW p \in Policies, PushKept(p), p.ramped, NEW s \in Jaws, NEW chase \in Int,
         NEW dir \in Dirs, dir # 0,
         NEW r, r = Grasp!travel_track(p, s, chase, dir)
  PROVE  Kept(p, s, r)
<1> DEFINE prev == Grasp!Reseated(p, s)
           advanced == Grasp!Advanced(prev, p.target, chase, dir)
           preload == Grasp!PreloadAt(advanced, p.target)
           most == Grasp!More(1, p.grasp - Grasp!Abs(preload))
           ramp == Grasp!BoundedByBudget(prev, advanced, s, most)
           gap == Grasp!Abs(ramp - p.target)
           parked == gap = 0 \/ (Grasp!Abs(chase - p.target) <= Eps /\ ramp = chase)
           spring == Kp * (p.target - s.pos)
           shortBy == dir * (p.target - s.pos)
           short == (parked \/ (p.topup > 0 /\ gap <= Eps)) /\ shortBy > Eps
           base == dir * spring + Grasp!More(0, dir * preload)
           moved == [p EXCEPT !.ramp = ramp]
           q == Grasp!Pushed(moved, s, short, base, dir, shortBy)
           pinned == spring - Kd * s.vel
           onTarget == [q EXCEPT !.ramp = p.target]
           pushed == Grasp!Pinned(p, dir * q.topup - spring)
           gripped == Grasp!Pinned(p, dir * p.grasp - pinned)
           tracked == [pos |-> ramp, kp |-> Kp, kd |-> Kd, ff |-> preload, vel |-> ramp - prev]
<1>1. r = IF ~q.latched /\ short /\ q.topup > base THEN Grasp!Result(onTarget, pushed, "push", s)
          ELSE IF q.latched /\ gap <= Eps THEN Grasp!Result(onTarget, gripped, "grip", s)
          ELSE Grasp!Result(q, tracked, "track", s)
  BY DEF Grasp!travel_track
<1>2. /\ p.grasp \in Nat /\ p.grasp > 0 /\ p.target \in Int /\ p.ramp \in Int /\ p.topup \in Nat
      /\ p.grasp \in Grasps /\ p.state # "fault"
      /\ s.pos \in Int /\ s.vel \in Int /\ Kp \in Nat \ {0} /\ Kd \in Nat /\ Speed \in Nat
      /\ Preload \in Nat /\ Eps \in Nat /\ dir \in Int
  BY GraspConstants DEF Policies, Jaws, PushKept, Dirs
<1>3. prev \in Int
  <2>1. p.grasp \div Kp \in Int
    BY <1>2
  <2> QED
    BY <2>1, <1>2 DEF Grasp!Reseated, Grasp!Clamp
<1> HIDE DEF prev
<1>4. advanced \in Int
  BY <1>2, <1>3 DEF Grasp!Advanced, Grasp!Clamp, Grasp!More, Grasp!Less
<1> HIDE DEF advanced
<1>5. preload \in Int /\ Grasp!Abs(preload) \in {0, Preload}
  BY <1>2, <1>4 DEF Grasp!PreloadAt, Grasp!Abs, Grasp!CloseDir
<1> HIDE DEF preload
<1>6. /\ most \in Nat /\ Kp + Kd <= 2 * most + 1
      /\ most + Grasp!Abs(preload) <= Grasp!More(p.grasp, Preload + 1)
  <2>1. Kp + Kd <= 2 * Grasp!More(1, p.grasp - Preload) + 1
    BY <1>2, ResolutionAssumption
  <2> QED
    BY <2>1, <1>2, <1>5 DEF Grasp!More
<1> HIDE DEF most
<1>7. /\ ramp \in Int
      /\ Kp * (ramp - s.pos) + Kd * ((ramp - prev) - s.vel) \in -most .. most
  BY <1>3, <1>4, <1>6, RampWithinBudget
<1> HIDE DEF ramp
<1>8. spring \in Int /\ shortBy \in Int /\ base \in Int /\ pinned \in Int
  <2>1. spring \in Int /\ shortBy \in Int /\ dir * preload \in Int /\ Kd * s.vel \in Int
    BY <1>2, <1>5
  <2>2. dir * spring \in Int
    BY <2>1, <1>2
  <2> QED
    BY <2>1, <2>2 DEF Grasp!More
<1> HIDE DEF spring, shortBy, base, pinned
<1>9. PICK sh \in BOOLEAN : sh = short
  BY Zenon
<1> HIDE DEF short, gap
<1>10. /\ moved \in Policies /\ moved.ramp = ramp /\ SamePush(p, moved)
  BY <1>7 DEF Policies, SamePush
<1> HIDE DEF moved
<1>11. PushKept(moved) /\ moved.ramped
  BY <1>10, Zenon DEF SamePush, PushKept
<1>12. q = Grasp!Pushed(moved, s, sh, base, dir, shortBy)
  BY <1>9
<1> HIDE DEF q
<1>13. Pushes(moved, q)
  BY <1>8, <1>10, <1>11, <1>12, PushedKept
<1>14. /\ PushKept(q) /\ PushAfter(p, q) /\ q.grasp = p.grasp /\ q.target = p.target
       /\ ~q.latched => q.topup <= Grasp!More(p.grasp, Grasp!Default - TopUp)
  BY <1>2, <1>10, <1>11, <1>13, Zenon DEF Pushes, PushKept, PushAfter, SamePush
<1>15. /\ onTarget \in Policies /\ SamePush(q, onTarget)
  BY <1>2, <1>13 DEF Pushes, Policies, SamePush
<1> HIDE DEF onTarget
<1>16. PushKept(onTarget) /\ PushAfter(p, onTarget) /\ onTarget.grasp = p.grasp
  BY <1>14, <1>15, Zenon DEF SamePush, PushKept, PushAfter
<1>17. q.topup \in Nat /\ p.grasp <= Grasp!More(p.grasp, Preload + 1)
  BY <1>2, <1>13 DEF Pushes, Policies, Grasp!More
<1>18. \A n \in Nat : Grasp!Abs(dir * n) = n
  BY DEF Dirs, Grasp!Abs
<1>19. ASSUME ~q.latched, r = Grasp!Result(onTarget, pushed, "push", s)
       PROVE  Kept(p, s, r)
  <2>1. Grasp!Torque(pushed, s) = dir * q.topup - Kd * s.vel
    <3>1. PICK push \in Int : push = dir * q.topup
      BY <1>2, <1>17
    <3>2. /\ pushed.pos = p.target /\ pushed.kp = Kp /\ pushed.kd = Kd
          /\ pushed.ff = push - spring /\ pushed.vel = 0
      BY <3>1 DEF Grasp!Pinned
    <3>3. Grasp!Torque(pushed, s) = spring + Kd * (0 - s.vel) + (push - spring)
      BY <3>2, Zenon DEF Grasp!Torque, spring
    <3>4. Kd * (0 - s.vel) = -(Kd * s.vel) /\ Kd * s.vel \in Int
      BY <1>2
    <3> HIDE DEF pushed
    <3> QED
      BY <3>1, <3>3, <3>4, <1>8
  <2>2. /\ Grasp!Torque(pushed, s) \in Int
        /\ Grasp!Torque(pushed, s) + Kd * s.vel = dir * q.topup
    <3>1. Kd * s.vel \in Int /\ dir * q.topup \in Int
      BY <1>2, <1>17
    <3> QED
      BY <2>1, <3>1
  <2>3. Grasp!Abs(Grasp!Torque(pushed, s) + Kd * s.vel)
          <= Grasp!More(p.grasp, Grasp!Default - TopUp)
    BY <2>2, <1>14, <1>17, <1>18, <1>19
  <2>4. "push" \in Branches /\ "push" # "limp" /\ "push" \notin {"seed", "track", "grip"}
    BY DEF Branches
  <2> HIDE DEF pushed
  <2> QED
    BY <1>15, <1>16, <1>19, <2>2, <2>3, <2>4, ResultKept
<1>20. ASSUME r = Grasp!Result(onTarget, gripped, "grip", s)
       PROVE  Kept(p, s, r)
  <2>1. Grasp!Torque(gripped, s) = dir * p.grasp
    <3>1. PICK grip \in Int : grip = dir * p.grasp
      BY <1>2
    <3>2. /\ gripped.pos = p.target /\ gripped.kp = Kp /\ gripped.kd = Kd
          /\ gripped.ff = grip - pinned /\ gripped.vel = 0
      BY <3>1 DEF Grasp!Pinned
    <3>3. Grasp!Torque(gripped, s) = spring + Kd * (0 - s.vel) + (grip - pinned)
      BY <3>2, Zenon DEF Grasp!Torque, spring
    <3>4. Kd * (0 - s.vel) = -(Kd * s.vel) /\ Kd * s.vel \in Int
      BY <1>2
    <3>5. pinned = spring - Kd * s.vel
      BY DEF pinned
    <3> HIDE DEF gripped
    <3> QED
      BY <3>1, <3>3, <3>4, <3>5, <1>8
  <2>2. /\ Grasp!Torque(gripped, s) \in Int
        /\ Grasp!Abs(Grasp!Torque(gripped, s)) <= Grasp!More(p.grasp, Preload + 1)
    BY <2>1, <1>2, <1>17, <1>18
  <2>3. "grip" \in Branches /\ "grip" # "limp" /\ "grip" # "push"
    BY DEF Branches
  <2> HIDE DEF gripped
  <2> QED
    BY <1>15, <1>16, <1>20, <2>2, <2>3, ResultKept
<1>21. ASSUME r = Grasp!Result(q, tracked, "track", s)
       PROVE  Kept(p, s, r)
  <2>1. /\ tracked.pos = ramp /\ tracked.kp = Kp /\ tracked.kd = Kd
        /\ tracked.ff = preload /\ tracked.vel = ramp - prev
    OBVIOUS
  <2> HIDE DEF tracked
  <2>2. PICK pull \in -most .. most : pull = Kp * (ramp - s.pos) + Kd * ((ramp - prev) - s.vel)
    BY <1>7, Zenon
  <2>3. Grasp!Torque(tracked, s) = pull + preload
    BY <2>1, <2>2, Zenon DEF Grasp!Torque
  <2>4. /\ Grasp!Torque(tracked, s) \in Int
        /\ Grasp!Abs(Grasp!Torque(tracked, s)) <= Grasp!More(p.grasp, Preload + 1)
    <3>1. Grasp!Abs(pull + preload) <= most + Grasp!Abs(preload) /\ pull + preload \in Int
      BY <1>5, <1>6 DEF Grasp!Abs
    <3>2. Grasp!Abs(pull + preload) \in Int /\ Grasp!More(p.grasp, Preload + 1) \in Int
          /\ most + Grasp!Abs(preload) \in Int
      BY <3>1, <1>2, <1>5, <1>6 DEF Grasp!Abs, Grasp!More
    <3> QED
      BY <2>3, <3>1, <3>2, <1>6
  <2>5. "track" \in Branches /\ "track" # "limp" /\ "track" # "push"
    BY DEF Branches
  <2> QED
    BY <1>13, <1>14, <1>21, <2>4, <2>5, ResultKept DEF Pushes
<1> QED
  BY <1>1, <1>19, <1>20, <1>21, Zenon

LEMMA SeedKept ==
  ASSUME NEW p \in Policies, PushKept(p), p.state # "fault", ~p.ramped, NEW s \in Jaws
  PROVE  Kept(p, s, Grasp!Seeded(p, s))
<1> DEFINE q == [p EXCEPT !.ramp = s.pos, !.ramped = TRUE]
           f == [Grasp!NoFrame EXCEPT !.pos = s.pos, !.kp = Kp]
<1>1. /\ s.pos \in Int /\ s.vel \in Int /\ Kp \in Int /\ Kd \in Int
      /\ p.grasp \in Nat /\ p.grasp \in Grasps /\ Preload \in Nat /\ p.topup = 0
  BY GraspConstants DEF Jaws, Policies, PushKept
<1>2. q \in Policies
  BY <1>1 DEF Policies
<1>3. /\ q.topup = p.topup /\ q.latched = p.latched /\ q.target = p.target
      /\ q.anchor = p.anchor /\ q.dir = p.dir /\ q.grasp = p.grasp /\ q.ramped
      /\ q.state = p.state
  BY DEF Policies
<1>4. Grasp!Torque(f, s) = 0
  <2>1. f.kp = Kp /\ f.pos = s.pos /\ f.kd = 0 /\ f.vel = 0 /\ f.ff = 0
    BY DEF Grasp!NoFrame
  <2> HIDE DEF f
  <2> QED
    BY <2>1, <1>1 DEF Grasp!Torque
<1>5. Grasp!Seeded(p, s) = Grasp!Result(q, f, "seed", s)
  BY DEF Grasp!Seeded
<1> HIDE DEF q, f
<1>6. PushKept(q)
  BY <1>3, Zenon DEF PushKept
<1>7. PushAfter(p, q)
  BY <1>1, <1>3 DEF PushAfter
<1>8. Grasp!Abs(Grasp!Torque(f, s)) <= Grasp!More(p.grasp, Preload + 1)
  BY <1>1, <1>4 DEF Grasp!Abs, Grasp!More
<1>9. /\ "seed" \in Branches /\ "seed" # "limp" /\ "seed" # "push" /\ Grasp!Torque(f, s) \in Int
  BY <1>4 DEF Branches
<1> QED
  BY <1>2, <1>3, <1>5, <1>6, <1>7, <1>8, <1>9, ResultKept

LEMMA LimpKept ==
  ASSUME NEW p \in Policies, PushKept(p), p.state = "fault", NEW s \in Jaws
  PROVE  Kept(p, s, Grasp!Limp(p, s))
<1> DEFINE q == [p EXCEPT !.told = 0, !.arrived = FALSE, !.holding = FALSE]
           f == [Grasp!NoFrame EXCEPT !.pos = s.pos]
           o == [branch |-> "limp", torque |-> Grasp!Torque(f, s), budget |-> 0]
<1>1. /\ s.pos \in Int /\ s.vel \in Int /\ p.grasp \in Nat /\ p.topup = 0
  BY GraspConstants DEF Jaws, Policies, PushKept
<1>2. q \in Policies
  <2>1. \A n \in Int, b, c \in BOOLEAN :
          [p EXCEPT !.told = n, !.arrived = b, !.holding = c] \in Policies
    BY DEF Policies
  <2>2. 0 \in Int /\ FALSE \in BOOLEAN
    OBVIOUS
  <2> QED
    BY <2>1, <2>2, Zenon
<1>3. SamePush(p, q) /\ q.told = 0
  BY DEF Policies, SamePush
<1>4. Grasp!Torque(f, s) = 0
  <2>1. f.kp = 0 /\ f.pos = s.pos /\ f.kd = 0 /\ f.vel = 0 /\ f.ff = 0
    BY DEF Grasp!NoFrame
  <2> HIDE DEF f
  <2> QED
    BY <2>1, <1>1 DEF Grasp!Torque
<1> HIDE DEF f
<1>5. o \in Outs /\ o.branch = "limp" /\ o.torque = 0
  BY <1>4 DEF Outs, Branches
<1>6. Grasp!Limp(p, s) = [policy |-> q, out |-> o]
  BY DEF Grasp!Limp, f
<1>7. /\ Grasp!Limp(p, s) \in Results /\ Grasp!Limp(p, s).policy = q /\ Grasp!Limp(p, s).out = o
  <2> HIDE DEF q, o
  <2> QED
    BY <1>2, <1>5, <1>6 DEF Results
<1> HIDE DEF q, o
<1>8. WithinBudget(o, s)
  BY <1>5 DEF WithinBudget
<1>9. PushKept(q) /\ q.grasp = p.grasp
  BY <1>3, Zenon DEF SamePush, PushKept
<1>10. PushAfter(p, q)
  BY <1>1, <1>3 DEF SamePush, PushAfter
<1>11. q.told \in {0, Grasp!Less(MotionLimit, Grasp!Abs(o.torque))}
  BY <1>3
<1> QED
  BY <1>7, <1>8, <1>9, <1>10, <1>11, Zenon DEF Kept

LEMMA WatchedSame ==
  ASSUME NEW p \in Policies, NEW s \in Jaws
  PROVE  Grasp!Watched(p, s) \in Policies /\ SamePush(p, Grasp!Watched(p, s))
<1> DEFINE moved == Grasp!Abs(s.pos - p.stallPos) > Progress
           retargeted == Grasp!Abs(p.target - p.steadyPos) > Progress
           stall == IF moved THEN 0 ELSE Grasp!Less(Window, p.stall + 1)
           steady == IF retargeted THEN 0 ELSE Grasp!Less(Window, p.steadyFor + 1)
<1>1. PICK a \in Int : a = IF moved THEN s.pos ELSE p.stallPos
  BY DEF Policies, Jaws
<1>2. PICK c \in Int : c = IF retargeted THEN p.target ELSE p.steadyPos
  BY DEF Policies
<1>3. p.stall + 1 \in Int /\ p.steadyFor + 1 \in Int /\ Window \in Int
  BY GraspConstants DEF Policies
<1>4. Grasp!Less(Window, p.stall + 1) \in Int /\ Grasp!Less(Window, p.steadyFor + 1) \in Int
  BY <1>3, ArithmeticTyped
<1>5. PICK b \in Int, d \in Int : b = stall /\ d = steady
  <2>1. stall \in Int /\ steady \in Int
    BY <1>4
  <2> QED
    BY <2>1, Zenon
<1>6. PICK e \in BOOLEAN : e = (b = Window)
  BY Zenon
<1>7. PICK f \in BOOLEAN : f = (d = Window)
  BY Zenon
<1>8. Grasp!Watched(p, s) =
        [p EXCEPT !.stallPos = a, !.stall = b, !.stalled = e,
                  !.steadyPos = c, !.steadyFor = d, !.steady = f]
  BY <1>1, <1>2, <1>5, <1>6, <1>7, Zenon DEF Grasp!Watched
<1>9. [p EXCEPT !.stallPos = a, !.stall = b, !.stalled = e,
                !.steadyPos = c, !.steadyFor = d, !.steady = f] \in Policies
  BY DEF Policies
<1>10. SamePush(p, [p EXCEPT !.stallPos = a, !.stall = b, !.stalled = e,
                             !.steadyPos = c, !.steadyFor = d, !.steady = f])
  BY DEF Policies, SamePush
<1> QED
  BY <1>8, <1>9, <1>10, Zenon

(* A frame of the law. *)
LEMMA StepKept ==
  ASSUME NEW p \in Policies, PushKept(p), NEW s \in Jaws, NEW chase \in Int
  PROVE  Kept(p, s, Grasp!step(p, s, chase))
<1> DEFINE w == Grasp!Watched(p, s)
           q == [w EXCEPT !.arrived = ~p.latched /\ Grasp!Abs(p.target - s.pos) <= Eps]
           dir == IF p.latched THEN p.dir ELSE IF p.target > s.pos THEN 1 ELSE -1
           r == IF p.ramped THEN Grasp!travel_track(q, s, chase, dir) ELSE Grasp!Seeded(q, s)
           held == [r EXCEPT !.policy.holding = Grasp!Holding(r.policy, r.out.branch, s)]
<1>1. CASE p.state = "fault"
  BY <1>1, LimpKept DEF Grasp!step
<1>2. CASE p.state # "fault"
  <2>1. Grasp!step(p, s, chase) = held
    BY <1>2 DEF Grasp!step
  <2>2. w \in Policies /\ SamePush(p, w)
    BY WatchedSame
  <2> HIDE DEF w
  <2>3. \A b \in BOOLEAN : /\ [w EXCEPT !.arrived = b] \in Policies
                           /\ SamePush(w, [w EXCEPT !.arrived = b])
    BY <2>2 DEF Policies, SamePush
  <2>4. q \in Policies /\ SamePush(w, q)
    BY <2>3, Zenon
  <2> HIDE DEF q
  <2>5. /\ PushKept(q) /\ SamePush(p, q)
    BY <2>2, <2>4, Zenon DEF SamePush, PushKept
  <2>6. dir \in Dirs /\ dir # 0
    BY DEF Dirs, PushKept, Policies
  <2> HIDE DEF dir
  <2>7. Kept(q, s, r)
    <3>1. CASE p.ramped
      <4>1. q.ramped
        BY <3>1, <2>5 DEF SamePush
      <4>2. Kept(q, s, Grasp!travel_track(q, s, chase, dir))
        BY <4>1, <2>4, <2>5, <2>6, TrackKept
      <4> QED
        BY <4>2, <3>1
    <3>2. CASE ~p.ramped
      <4>1. ~q.ramped /\ q.state # "fault"
        BY <3>2, <2>5, <1>2 DEF SamePush
      <4> QED
        BY <4>1, <3>2, <2>4, <2>5, SeedKept
    <3> QED
      BY <3>1, <3>2
  <2> HIDE DEF r
  <2>8. PICK b \in BOOLEAN : b = Grasp!Holding(r.policy, r.out.branch, s)
    BY Zenon DEF Grasp!Holding
  <2>9. /\ held.policy = [r.policy EXCEPT !.holding = b] /\ held.out = r.out
        /\ held = [policy |-> [r.policy EXCEPT !.holding = b], out |-> r.out]
    BY <2>7, <2>8 DEF Kept, Results
  <2>10. [r.policy EXCEPT !.holding = b] \in Policies
         /\ SamePush(r.policy, [r.policy EXCEPT !.holding = b])
         /\ [r.policy EXCEPT !.holding = b].told = r.policy.told
    BY <2>7 DEF Kept, Results, Policies, SamePush
  <2>11. held \in Results
    BY <2>7, <2>9, <2>10 DEF Kept, Results
  <2> HIDE DEF held
  <2>12. Kept(p, s, held)
    BY <2>5, <2>7, <2>9, <2>10, <2>11, Zenon DEF Kept, SamePush, PushKept, PushAfter
  <2> QED
    BY <2>1, <2>12
<1> QED
  BY <1>1, <1>2

LEMMA ReferencesTyped ==
  ASSUME NEW held \in Seq(Int), held # <<>>
  PROVE  Grasp!References(held) \subseteq Int
<1>1. \A i \in 1 .. Len(held) : held[i] \in Int
  OBVIOUS
<1>2. Len(held) \in Nat /\ Len(held) > 0
  OBVIOUS
<1>3. \A i \in 1 .. Len(held) - 1 :
        Grasp!Less(held[i], held[i + 1]) .. Grasp!More(held[i], held[i + 1]) \subseteq Int
  OBVIOUS
<1> QED
  BY <1>1, <1>2, <1>3 DEF Grasp!References

LEMMA PositionsTyped == Grasp!Positions \subseteq Int
BY GraspConstants DEF Grasp!Positions

LEMMA ReleasedKept ==
  ASSUME NEW p \in Policies, PushKept(p)
  PROVE  LET q == Grasp!Released(p)
         IN /\ q \in Policies /\ q.topup = 0 /\ ~q.latched
            /\ q.state = p.state /\ q.ramped = p.ramped /\ q.target = p.target
            /\ q.grasp = p.grasp /\ q.told = p.told
BY DEF Grasp!Released, Policies

(* A policy without a push keeps what a push must. *)
LEMMA NoPushKept ==
  ASSUME NEW p \in Policies, p.topup = 0, ~p.latched, p.state = "fault" => ~p.ramped
  PROVE  PushKept(p)
BY GraspConstants DEF PushKept

LEMMA FailedKept ==
  ASSUME NEW p \in Policies, PushKept(p)
  PROVE  LET q == Grasp!Failed(p)
         IN /\ q \in Policies /\ PushKept(q) /\ q.topup = 0 /\ ~q.latched /\ ~q.ramped
            /\ q.told = 0 /\ q.grasp = p.grasp
<1> DEFINE r == Grasp!Released(p)
           q == [r EXCEPT !.state = "fault", !.told = 0, !.holding = FALSE, !.ramped = FALSE,
                          !.stall = 0, !.stalled = FALSE, !.steadyFor = 0, !.steady = FALSE]
<1>1. r \in Policies /\ r.topup = 0 /\ ~r.latched /\ r.grasp = p.grasp
  BY ReleasedKept
<1>2. Grasp!Failed(p) = q
  BY DEF Grasp!Failed
<1> HIDE DEF r
<1>3. q \in Policies
  <2>1. \A st \in PolicyStates, n, m, k \in Int, a, b, c, d \in BOOLEAN :
          [r EXCEPT !.state = st, !.told = n, !.holding = a, !.ramped = b,
                    !.stall = m, !.stalled = c, !.steadyFor = k, !.steady = d] \in Policies
    <3> TAKE st \in PolicyStates, n, m, k \in Int, a, b, c, d \in BOOLEAN
    <3> QED
      BY <1>1 DEF Policies
  <2>2. 0 \in Int /\ FALSE \in BOOLEAN /\ "fault" \in PolicyStates
    BY DEF PolicyStates
  <2> QED
    BY <2>1, <2>2, Zenon
<1>4. /\ q.topup = 0 /\ ~q.latched /\ ~q.ramped /\ q.told = 0 /\ q.grasp = p.grasp
  BY <1>1 DEF Policies
<1> HIDE DEF q
<1>5. PushKept(q)
  BY <1>3, <1>4, NoPushKept
<1> QED
  BY <1>2, <1>3, <1>4, <1>5

LEMMA GraspFrame ==
  ASSUME GraspInv, Grasp!Frame
  PROVE  GraspInv' /\ Grasp!PushesFall
<1>1. PICK pos \in Int, fault \in BOOLEAN, chase \in Int :
        LET s == [pos |-> pos, vel |-> pos - gjaw.pos]
            r == Grasp!step(IF fault THEN Grasp!Failed(policy) ELSE policy, s, chase)
        IN gjaw' = s /\ policy' = r.policy /\ out' = r.out
  <2>1. gjaw.pos \in Int /\ Grasp!Positions \subseteq Int /\ Grasp!References(refs) \subseteq Int
    BY PositionsTyped, ReferencesTyped DEF GraspInv, GraspTyped, Jaws
  <2>2. (IF Grasp!stuck THEN {gjaw.pos}
         ELSE Grasp!Positions \cap (gjaw.pos - 1 .. gjaw.pos + 1)) \subseteq Int
    BY <2>1
  <2>3. (IF Grasp!stuck THEN {FALSE} ELSE BOOLEAN) \subseteq BOOLEAN
    OBVIOUS
  <2> QED
    BY <2>1, <2>2, <2>3, Zenon DEF Grasp!Frame
<1> DEFINE s == [pos |-> pos, vel |-> pos - gjaw.pos]
           p == IF fault THEN Grasp!Failed(policy) ELSE policy
           r == Grasp!step(p, s, chase)
<1>2. s \in Jaws
  BY DEF GraspInv, GraspTyped, Jaws
<1>3. /\ p \in Policies /\ PushKept(p) /\ p.grasp = policy.grasp
      /\ p.topup = 0 \/ p = policy
  BY FailedKept DEF GraspInv, GraspTyped
<1>4. gjaw' = s /\ policy' = r.policy /\ out' = r.out /\ refs' = refs
  BY <1>1 DEF Grasp!Frame
<1> HIDE DEF s, p
<1>5. Kept(p, s, r)
  BY <1>2, <1>3, StepKept
<1> HIDE DEF r
<1>6. GraspInv'
  BY <1>2, <1>4, <1>5 DEF GraspInv, GraspTyped, Kept, Results
<1>7. Grasp!PushesFall
  <2>1. /\ p.topup \in Nat /\ policy'.topup \in Nat /\ TopUp \in Nat /\ TopUp > 0
        /\ policy'.grasp = p.grasp /\ p.grasp \in Nat
        /\ PushAfter(p, policy')
    BY <1>3, <1>4, <1>5, GraspConstants DEF Kept, Results, Policies
  <2> QED
    BY <2>1, <1>3 DEF PushAfter, Grasp!PushesFall
<1> QED
  BY <1>6, <1>7

(* What a command that gives the policy no new push keeps. *)
LEMMA GraspKept ==
  ASSUME GraspInv, policy' \in Policies, PushKept(policy'),
         policy'.topup \in {0, policy.topup}, policy'.told \in {0, policy.told},
         refs' \in Seq(Int), refs' # <<>>, UNCHANGED <<gjaw, out>>
  PROVE  GraspInv' /\ Grasp!PushesFall
<1>1. policy'.grasp \in Nat
  BY GraspConstants DEF Policies
<1>2. GraspInv'
  BY DEF GraspInv, GraspTyped
<1>3. Grasp!PushesFall
  BY <1>1 DEF Grasp!PushesFall
<1> QED
  BY <1>2, <1>3

LEMMA GraspTargets ==
  ASSUME GraspInv, Grasp!set_target
  PROVE  GraspInv' /\ Grasp!PushesFall
<1>1. PICK raw \in Grasp!Positions, grasp \in Grasps :
        /\ policy' = Grasp!Targeted(policy, raw, grasp)
        /\ refs' \in {<<raw>>, Grasp!Sampled(refs, raw)}
  BY DEF Grasp!set_target
<1>2. raw \in Int /\ policy \in Policies /\ PushKept(policy) /\ policy.state # "fault"
  BY PositionsTyped DEF GraspInv, GraspTyped, Grasp!set_target
<1> DEFINE p == IF Grasp!NewApproach(policy, raw) THEN Grasp!Released(policy) ELSE policy
           q == [p EXCEPT !.target = raw, !.grasp = grasp]
<1>3. /\ p \in Policies /\ p.topup \in {0, policy.topup} /\ p.told = policy.told
      /\ p.state = policy.state /\ p.ramped = policy.ramped
      /\ \/ p.topup = 0 /\ ~p.latched
         \/ p = policy /\ ~Grasp!NewApproach(policy, raw)
  BY <1>2, ReleasedKept
<1>4. policy' = q
  BY <1>1 DEF Grasp!Targeted
<1> HIDE DEF p
<1>5. /\ q \in Policies /\ q.topup = p.topup /\ q.latched = p.latched /\ q.anchor = p.anchor
      /\ q.dir = p.dir /\ q.told = p.told /\ q.state = p.state /\ q.ramped = p.ramped
      /\ q.target = raw
  BY <1>2, <1>3 DEF Policies
<1> HIDE DEF q
<1>6. PushKept(q)
  <2>1. CASE p.topup = 0 /\ ~p.latched
    BY <2>1, <1>2, <1>3, <1>5, NoPushKept
  <2>2. CASE p = policy /\ ~Grasp!NewApproach(policy, raw)
    <3>1. q.latched \/ q.topup > 0 => Grasp!Abs(q.target - q.anchor) <= Eps
      <4>1. Grasp!Abs(raw - policy.anchor) \in Int /\ Eps \in Int
        BY <1>2, ArithmeticTyped, GraspConstants DEF Policies
      <4> QED
        BY <4>1, <2>2, <1>5 DEF Grasp!NewApproach
    <3> QED
      BY <3>1, <2>2, <1>2, <1>5 DEF PushKept
  <2> QED
    BY <2>1, <2>2, <1>3
<1>7. refs' \in Seq(Int) /\ refs' # <<>>
  <2>1. refs \in Seq(Int) /\ refs # <<>>
    BY DEF GraspInv, GraspTyped
  <2>2. <<raw>> \in Seq(Int) /\ <<raw>> # <<>>
    BY <1>2
  <2>3. Tail(refs) \in Seq(Int)
    BY <2>1
  <2>4. Grasp!Sampled(refs, raw) \in Seq(Int) /\ Grasp!Sampled(refs, raw) # <<>>
    BY <2>1, <2>3, <1>2 DEF Grasp!Sampled
  <2> QED
    BY <1>1, <2>2, <2>4
<1>8. UNCHANGED <<gjaw, out>>
  BY DEF Grasp!set_target, Grasp!Command
<1> QED
  BY <1>3, <1>4, <1>5, <1>6, <1>7, <1>8, GraspKept

LEMMA GraspEnds ==
  ASSUME GraspInv, Grasp!release \/ Grasp!hold_position \/ Grasp!reset
  PROVE  GraspInv' /\ Grasp!PushesFall
<1> DEFINE p == Grasp!Released(policy)
           f == Grasp!Failed(policy)
<1>1. /\ p \in Policies /\ p.topup = 0 /\ ~p.latched /\ p.state = policy.state
      /\ p.ramped = policy.ramped /\ p.told = policy.told
      /\ f \in Policies /\ f.topup = 0 /\ ~f.latched /\ ~f.ramped /\ f.told = 0
  BY ReleasedKept, FailedKept DEF GraspInv, GraspTyped
<1>2. gjaw.pos \in Int /\ GraspOpen \in Int /\ Grasp!Default \in Grasps
  BY GraspConstants DEF GraspInv, GraspTyped, Jaws
<1> HIDE DEF p, f
<1>3. UNCHANGED <<gjaw, out>>
  BY DEF Grasp!release, Grasp!hold_position, Grasp!reset, Grasp!Command
<1>4. refs' \in Seq(Int) /\ refs' # <<>>
  <2>1. refs' = <<GraspOpen>> \/ refs' = <<gjaw.pos>>
    BY Zenon DEF Grasp!release, Grasp!hold_position, Grasp!reset
  <2>2. \A n \in Int : <<n>> \in Seq(Int) /\ <<n>> # <<>>
    OBVIOUS
  <2> QED
    BY <2>1, <2>2, <1>2
<1>5. /\ policy' \in Policies /\ policy'.topup = 0 /\ ~policy'.latched
      /\ policy'.told \in {0, policy.told}
      /\ policy'.state = "fault" => ~policy'.ramped
  <2>1. CASE Grasp!release
    <3>1. policy' = [p EXCEPT !.target = GraspOpen, !.grasp = Grasp!Default]
          /\ policy.state # "fault"
      BY <2>1 DEF Grasp!release, p
    <3> QED
      BY <3>1, <1>1, <1>2 DEF Policies
  <2>2. CASE Grasp!hold_position
    <3>1. policy' = [p EXCEPT !.target = gjaw.pos, !.ramped = FALSE]
      BY <2>2 DEF Grasp!hold_position, p
    <3> QED
      BY <3>1, <1>1, <1>2 DEF Policies
  <2>3. CASE Grasp!reset
    <3>1. policy' = [f EXCEPT !.state = "ok", !.target = gjaw.pos, !.grasp = Grasp!Default,
                              !.arrived = TRUE]
      BY <2>3 DEF Grasp!reset, f
    <3>2. "ok" \in PolicyStates
      BY DEF PolicyStates
    <3> QED
      BY <3>1, <3>2, <1>1, <1>2 DEF Policies
  <2> QED
    BY <2>1, <2>2, <2>3
<1>6. PushKept(policy')
  BY <1>5, NoPushKept
<1> QED
  BY <1>3, <1>4, <1>5, <1>6, GraspKept

LEMMA GraspSame ==
  ASSUME GraspInv, UNCHANGED <<gjaw, policy, refs, out>>
  PROVE  GraspInv' /\ Grasp!PushesFall
BY GraspKept DEF GraspInv, GraspTyped

LEMMA GraspInit ==
  ASSUME Grasp!Init
  PROVE  GraspInv
<1>1. PICK pos \in Int :
        /\ gjaw = [pos |-> pos, vel |-> 0]
        /\ policy = [state |-> "ok", target |-> pos, grasp |-> Grasp!Default, told |-> 0,
                     ramp |-> 0, ramped |-> FALSE, latched |-> FALSE, dir |-> 0, topup |-> 0,
                     anchor |-> 0, stallPos |-> pos, stall |-> 0, stalled |-> FALSE,
                     steadyPos |-> pos, steadyFor |-> 0, steady |-> FALSE,
                     arrived |-> TRUE, holding |-> FALSE]
        /\ refs = <<pos>>
        /\ out = [branch |-> "limp", torque |-> 0, budget |-> 0]
  <2>1. 0 \in Int /\ GraspOpen \in Int
    BY GraspConstants
  <2> QED
    BY <2>1, Zenon DEF Grasp!Init
<1>2. policy \in Policies
  BY <1>1, GraspConstants DEF Policies, PolicyStates, Dirs
<1>3. policy.topup = 0 /\ ~policy.latched /\ policy.state = "ok" /\ policy.told = 0
  BY <1>1
<1>4. PushKept(policy)
  BY <1>2, <1>3, NoPushKept
<1>5. /\ gjaw \in Jaws /\ out \in Outs /\ refs \in Seq(Int) /\ refs # <<>>
      /\ out.branch = "limp" /\ out.torque = 0
  BY <1>1 DEF Jaws, Outs, Branches
<1>6. WithinBudget(out, gjaw)
  BY <1>5 DEF WithinBudget
<1> QED
  BY <1>2, <1>3, <1>4, <1>5, <1>6 DEF GraspInv, GraspTyped

LEMMA GraspStep ==
  ASSUME GraspInv, Grasp!Next
  PROVE  GraspInv' /\ Grasp!PushesFall
<1>1. ASSUME Grasp!Block
      PROVE  UNCHANGED <<gjaw, policy, refs, out>>
  BY <1>1 DEF Grasp!Block
<1> QED
  BY <1>1, GraspFrame, GraspTargets, GraspEnds, GraspSame DEF Grasp!Next

LEMMA GraspKeeps ==
  ASSUME part = "grasp" => GraspInv, [Next]_vars
  PROVE  /\ (part = "grasp" => GraspInv)'
         /\ part = "grasp" => Grasp!PushesFall
<1> SUFFICES ASSUME part' = "grasp" \/ part = "grasp"
             PROVE  GraspInv' /\ Grasp!PushesFall
  OBVIOUS
<1>1. CASE UNCHANGED vars
  BY <1>1, GraspSame DEF vars, graspVars
<1>2. CASE Next
  <2>1. part' = part
    BY <1>2 DEF Next
  <2>2. Grasp!Next
    BY <1>2, <2>1 DEF Next
  <2> QED
    BY <2>1, <2>2, GraspStep
<1> QED
  BY <1>1, <1>2

(* No more than the budget is asked of the motor, whatever the jaw and the caller do,
   but for a preload above the budget and for what is damped of a jaw that moves while
   it is pushed; a push that is above a lowered budget falls
   (force_position_controller.cpp:601, :730). *)
THEOREM TorqueIsAlwaysBounded == Spec => TorqueIsBounded
<1> DEFINE IInv == part = "grasp" => GraspInv
           Falls == part = "grasp" => Grasp!PushesFall
           Bounded == part = "grasp" => Grasp!TorqueIsBounded
<1>1. Init => IInv
  BY GraspInit DEF Init
<1>2. IInv /\ [Next]_vars => IInv' /\ Falls
  BY GraspKeeps
<1>3. IInv => Bounded
  BY DEF GraspInv, WithinBudget, Grasp!TorqueIsBounded
<1>4. Spec => []Bounded /\ [][Falls]_vars
  <2> HIDE DEF IInv, Bounded, Falls
  <2> QED
    BY <1>1, <1>2, <1>3, PTL DEF Spec
<1> QED
  BY <1>4, Zenon DEF TorqueIsBounded

(* A grip that is latched is of the target that is asked for
   (force_position_controller.cpp:412). *)
THEOREM LatchIsAlwaysCurrent == Spec => [](part = "grasp" => Grasp!LatchIsCurrent)
<1> DEFINE IInv == part = "grasp" => GraspInv
           Current == part = "grasp" => Grasp!LatchIsCurrent
<1>1. Init => IInv
  BY GraspInit DEF Init
<1>2. IInv /\ [Next]_vars => IInv'
  BY GraspKeeps
<1>3. IInv => Current
  BY DEF GraspInv, PushKept, Grasp!LatchIsCurrent
<1>4. Spec => []Current
  <2> HIDE DEF IInv, Current
  <2> QED
    BY <1>1, <1>2, <1>3, PTL DEF Spec
<1> QED
  BY <1>4

=============================================================================
