---------------------------- MODULE GripperConfig ----------------------------
(***************************************************************************)
(* What LeaderGripper and FollowerGripper keep and repair of their         *)
(* device's configuration: the position map, read once and kept            *)
(* (gripper_position.hpp), and the torque envelope in the reserved bytes   *)
(* of the follower's record (follower_gripper.cpp).                        *)
(* The device is external: it keeps the record it is given and its jaw     *)
(* goes where it is sent.  Angles and torques are small integers, a        *)
(* position is 0 .. Scale, and no torque stands for "unlimited" but 0.     *)
(***************************************************************************)
EXTENDS Integers, FiniteSets

CONSTANTS
  Kinds,      \* "leader", "follower"
  Travels,    \* calibrations: [valid, least, most, reverse]
  Specs,      \* ratings a motor may report: [rated, stall], 0 for none
  Envelopes,  \* envelopes a record may hold: [valid, enforce, layout, cont, peak]
  Rated,      \* MOTOR_RATED_TORQUE_NM
  StallCont,  \* MOTOR_STALL_CONT_TORQUE_NM
  Scale,      \* the position of an open jaw
  MaxFaults   \* bound on commands that are not simply done

VARIABLES
  device,  \* [kind, spec, travel, envelope, shaft], shaft its angle
  map,     \* pos_map_ once it is loaded, NoMap before
  encoder, \* the map a leader gave its normalizing Encoder
  asked,   \* where the jaw was last sent with the device's map, or Nowhere
  ensured, \* the last thing done to the envelope was an ensure_envelope() that
           \* returned and had the motor's ratings
  behind,  \* the record changed and the gripper was not told
  faults

vars == <<device, map, encoder, asked, ensured, behind, faults>>

NoMap == [valid |-> FALSE, least |-> 0, most |-> 0, reverse |-> FALSE]
Nowhere == -1

-----------------------------------------------------------------------------
(* GripperPosition *)

(* A map is of use if its record is marked as valid and spans something. *)
Usable(travel) == travel.valid /\ travel.most > travel.least
Direction(m) == IF m.reverse THEN -1 ELSE 1
Clamp(x, low, high) == IF x < low THEN low ELSE IF x > high THEN high ELSE x

to_position(m, raw) ==
  LET travel == raw * Direction(m) - m.least
  IN IF m.most <= m.least THEN 0 ELSE Clamp((travel * Scale) \div (m.most - m.least), 0, Scale)

(* Mutant: the direction is left out. *)
UnturnedRad(m, position) ==
  m.least + (Clamp(position, 0, Scale) * (m.most - m.least)) \div Scale

to_rad(m, position) ==
  (m.least + (Clamp(position, 0, Scale) * (m.most - m.least)) \div Scale) * Direction(m)

-----------------------------------------------------------------------------
(* A command and how it ends; "unsent" if the call did not come to it. *)

Outcomes == {"done", "refused", "lost", "unanswered"}
CarriedOut(o) == o \in {"done", "unanswered"}
Failed(o) == Cardinality({c \in DOMAIN o : o[c] \notin {"done", "unsent"}})

Calls(commands) ==
  {o \in [commands -> Outcomes \union {"unsent"}] : faults + Failed(o) <= MaxFaults}

Sends(o, c, condition) == (o[c] # "unsent") = condition
Spent(o) == faults' = faults + Failed(o)

-----------------------------------------------------------------------------
(* The position map: a follower's is in its record, a leader's is the greatest
   angle of its encoder, unless the caller supplied one. *)

Loaded == IF Usable(device.travel) THEN device.travel ELSE NoMap

(* ensure_position_map_ *)
ensure_position_map ==
  /\ map = NoMap
  /\ \E o \in Calls({"get"}) :
       /\ Sends(o, "get", TRUE)
       /\ Spent(o)
       /\ map' = IF o["get"] = "done" THEN Loaded ELSE NoMap
  /\ behind' = FALSE
  /\ UNCHANGED <<device, encoder, asked, ensured>>

(* reload_config; reload_position_map, which hands a new map to the Encoder. *)
reload ==
  /\ map # NoMap
  /\ \E o \in Calls({"get"}) :
       /\ Sends(o, "get", TRUE)
       /\ Spent(o)
       /\ map' = IF o["get"] = "done" THEN Loaded ELSE NoMap
  /\ encoder' = IF device.kind = "leader" /\ map' # NoMap THEN map' ELSE encoder
  /\ behind' = FALSE
  /\ UNCHANGED <<device, asked, ensured>>

(* set_position: a target that nothing answers. *)
set_position ==
  /\ device.kind = "follower"
  /\ map # NoMap
  /\ \E position \in 0 .. Scale + 1 :
       /\ device' = [device EXCEPT !.shaft = to_rad(map, position)]
       /\ asked' = IF behind THEN Nowhere ELSE Clamp(position, 0, Scale)
  /\ UNCHANGED <<map, encoder, ensured, behind, faults>>

(* The map is dropped when the device has answered. *)
DropMap(o) == IF o = "done" THEN NoMap ELSE map

(* set_gripper_config with a record of the caller's. *)
set_gripper_config ==
  /\ device.kind = "follower"
  /\ \E o \in Calls({"set"}), travel \in Travels, e \in Envelopes :
       /\ Sends(o, "set", TRUE)
       /\ Spent(o)
       /\ device' = IF CarriedOut(o["set"])
                    THEN [device EXCEPT !.travel = travel, !.envelope = e] ELSE device
       /\ map' = DropMap(o["set"])
       /\ behind' = (map' # NoMap /\ (behind \/ o["set"] = "unanswered"))
       /\ asked' = IF CarriedOut(o["set"]) THEN Nowhere ELSE asked
  /\ ensured' = FALSE
  /\ UNCHANGED encoder

(* A leader's angle is written by Calibration, which knows of no map. *)
write_encoder_max_rad ==
  /\ device.kind = "leader"
  /\ \E o \in Calls({"set"}), travel \in Travels :
       /\ Sends(o, "set", TRUE)
       /\ Spent(o)
       /\ device' = IF CarriedOut(o["set"]) THEN [device EXCEPT !.travel = travel] ELSE device
       /\ behind' = (map # NoMap /\ (behind \/ CarriedOut(o["set"])))
  /\ UNCHANGED <<map, encoder, asked, ensured>>

-----------------------------------------------------------------------------
(* The envelope.  NoSpec: the ratings could not be read. *)

NoSpec == [rated |-> 0, stall |-> 0]
SpecKnown(spec) == spec.rated > 0 /\ spec.stall > 0

recommend_envelope(spec) ==
  LET peak == IF spec.rated > 0 THEN spec.rated ELSE Rated
      least == IF StallCont < peak THEN StallCont ELSE peak
  IN [valid |-> TRUE, enforce |-> TRUE, layout |-> TRUE, peak |-> peak,
      cont |-> IF spec.stall > 0 THEN spec.stall ELSE least]

(* audit_envelope: what is wrong with a record.  One that is not enforced, or
   not understood, is looked at no further. *)
ValueIssues(e, spec) ==
  LET r == recommend_envelope(spec)
      Found == [PeakUnlimited |-> e.peak <= 0,
                ContUnlimited |-> e.cont <= 0,
                ContAboveStallRating |-> spec.stall > 0 /\ e.cont > spec.stall,
                NotAtSpec |-> SpecKnown(spec) /\ <<e.cont, e.peak>> # <<r.cont, r.peak>>,
                PeakNotAboveCont |-> e.cont > 0 /\ e.peak <= e.cont]
  IN {issue \in DOMAIN Found : Found[issue]}

audit_envelope(e, spec) ==
  IF ~e.valid THEN {"NotWritten"}
  ELSE IF ~e.enforce THEN {"NotEnforced"}
  ELSE IF ~e.layout THEN {"LayoutMismatch"}
  ELSE ValueIssues(e, spec)

needs_write(issues) == issues \ {"PeakNotAboveCont"} # {}

(* What is stored and stricter is kept when the ratings are not known. *)
repair_envelope(e, spec) ==
  LET r == recommend_envelope(spec)
      keep == audit_envelope(e, spec) \cap {"NotWritten", "LayoutMismatch"} = {}
              /\ ~SpecKnown(spec)
      cont == IF keep /\ e.cont \in 1 .. r.cont THEN e.cont ELSE r.cont
      peak == IF keep /\ e.peak \in 1 .. r.peak THEN e.peak ELSE r.peak
  IN [r EXCEPT !.cont = cont, !.peak = IF keep /\ peak <= cont THEN r.peak ELSE peak]

(* set_envelope reads the record ("again") and writes it back with another
   envelope in it, stamped with the layout of this SDK ("set"). *)
Rewritten(o, e) ==
  IF CarriedOut(o["set"]) THEN [device EXCEPT !.envelope = [e EXCEPT !.layout = TRUE]]
  ELSE device

set_envelope ==
  /\ device.kind = "follower"
  /\ \E o \in Calls({"again", "set"}), e \in Envelopes :
       /\ Sends(o, "again", TRUE)
       /\ Sends(o, "set", o["again"] = "done")
       /\ Spent(o)
       /\ device' = Rewritten(o, e)
       /\ map' = DropMap(o["set"])
  /\ ensured' = FALSE
  /\ behind' = (behind /\ map' # NoMap)
  /\ UNCHANGED <<encoder, asked>>

(* ensure_envelope: the record and the ratings are read, and it is repaired if
   it must be.  Ratings that cannot be read are passed over. *)
ensure_envelope ==
  /\ device.kind = "follower"
  /\ \E o \in Calls({"get", "spec", "again", "set"}) :
       LET spec == IF o["spec"] = "done" THEN device.spec ELSE NoSpec
           repairs == o["get"] = "done" /\ needs_write(audit_envelope(device.envelope, spec))
       IN /\ Sends(o, "get", TRUE)
          /\ Sends(o, "spec", o["get"] = "done")
          /\ Sends(o, "again", repairs)
          /\ Sends(o, "set", o["again"] = "done")
          /\ Spent(o)
          /\ device' = Rewritten(o, repair_envelope(device.envelope, spec))
          /\ map' = DropMap(o["set"])
          /\ ensured' = (o["spec"] = "done" /\ o["set"] = IF repairs THEN "done" ELSE "unsent")
  /\ behind' = (behind /\ map' # NoMap)
  /\ UNCHANGED <<encoder, asked>>

-----------------------------------------------------------------------------
Init ==
  /\ \E k \in Kinds, s \in Specs, e \in Envelopes, t \in Travels :
       /\ k = "leader" => e = CHOOSE one \in Envelopes : TRUE
       /\ k = "leader" => s = CHOOSE one \in Specs : TRUE
       /\ device = [kind |-> k, spec |-> s, envelope |-> e, travel |-> t, shaft |-> 0]
  /\ map = NoMap
  /\ encoder = NoMap
  /\ asked = Nowhere
  /\ ensured = FALSE
  /\ behind = FALSE
  /\ faults = 0

Next ==
  \/ ensure_position_map \/ reload \/ set_position
  \/ set_gripper_config \/ write_encoder_max_rad
  \/ set_envelope \/ ensure_envelope

Spec == Init /\ [][Next]_vars

-----------------------------------------------------------------------------
(* Unless its record was changed behind the gripper's back or by a write that
   went unanswered, the map in use is the device's: whatever was written or
   failed between, the jaw stands where it was last sent, read back in the
   units it was sent in. *)
MapIsCurrent ==
  map # NoMap /\ ~behind =>
    /\ map = device.travel
    /\ asked # Nowhere => to_position(map, device.shaft) = asked

(* ensure_envelope() settles it: once it returned with the motor's ratings at
   hand it has nothing more to write, whatever record it met and whatever
   failed before (follower_gripper.cpp:634). *)
EnsureSettles == ensured => ~needs_write(audit_envelope(device.envelope, device.spec))

=============================================================================
