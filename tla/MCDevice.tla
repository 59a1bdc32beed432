------------------------------ MODULE MCDevice ------------------------------
(***************************************************************************)
(* A small instance of Device.                                             *)
(***************************************************************************)
EXTENDS Device

(* A rate that is off, one that divides the scheduler's tick, one above the cap. *)
TheRates == {0, 100, 300}

(* Two calibrations of use, one reversed; one that spans nothing, one invalid. *)
Travel(valid, least, most, reverse) ==
  [valid |-> valid, least |-> least, most |-> most, reverse |-> reverse]
TheTravels ==
  {Travel(TRUE, 1, 5, TRUE), Travel(TRUE, 0, 2, FALSE),
   Travel(TRUE, 2, 2, FALSE), Travel(FALSE, 0, 2, FALSE)}

(* A motor with all its ratings, with one and with none. *)
Spec_(rated, stall) == [rated |-> rated, stall |-> stall]
TheSpecs == {Spec_(3, 2), Spec_(1, 0), Spec_(0, 0)}

(* Records never written, not enforced, of another layout, and every mixture of
   torques that are unlimited, too low and too high. *)
Envelope(valid, enforce, layout, cont, peak) ==
  [valid |-> valid, enforce |-> enforce, layout |-> layout, cont |-> cont, peak |-> peak]
TheEnvelopes ==
  {Envelope(FALSE, FALSE, FALSE, 0, 0), Envelope(TRUE, FALSE, TRUE, 1, 4),
   Envelope(TRUE, TRUE, FALSE, 4, 1)}
  \union {Envelope(TRUE, TRUE, TRUE, e[1], e[2]) :
            e \in {<<0, 4>>, <<4, 0>>, <<1, 1>>, <<1, 4>>, <<4, 4>>}}

(* A board that was named, one with its type only, one of older firmware; two
   handles, a scan and a terminal program on one port. *)
Board(sn, type, old) == [sn |-> sn, type |-> type, old |-> old]
TheFirmware ==
  {Board([digit |-> 1, tail |-> "m"], "Right", FALSE),
   Board(NoSn, "Left", FALSE), Board(NoSn, None, TRUE)}

=============================================================================
