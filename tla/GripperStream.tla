---------------------------- MODULE GripperStream ----------------------------
(***************************************************************************)
(* LeaderGripper and FollowerGripper (leader_gripper.cpp,                  *)
(* follower_gripper.cpp): opening, closing, and the stream or the polled   *)
(* exchange they start and stop.  What they were asked for and what the    *)
(* MCU does are two states, kept together by commands that may be refused, *)
(* lost on their way, or carried out and their answer lost.                *)
(* The grippers are not made for two threads: a call is one action.  What  *)
(* the exchange does while it runs is in Exchange.                         *)
(***************************************************************************)
EXTENDS Integers, FiniteSets

CONSTANTS
  Kinds,      \* "leader", "follower"
  Rates,      \* rates a caller asks for, 0 for off (Hz)
  Versions,   \* firmware versions
  MinVersion, \* kMinFirmware of the follower
  MaxFaults   \* bound on commands that are not simply done, and restarts of the MCU

VARIABLES
  mcu,       \* the MCU: [kind, version, mode, emits]
  link,      \* the transport: "closed", "running", "dead"
  version,   \* fw_version_, 0 when it could not be read
  streaming, \* streaming_
  sources,   \* streaming_sources_
  wanted,    \* the sources the caller gave a rate for, of the last start that returned
  exchange,  \* there is an exchange, and the link is half-duplex
  doubt,     \* a command about the stream was left unanswered
  faults     \* faults so far

vars == <<mcu, link, version, streaming, sources, wanted, exchange, doubt, faults>>

-----------------------------------------------------------------------------
(* stream_rate.hpp: what the firmware's scheduler makes of a request: the
   cap, then an integer divider of its tick, 10 where that would be 0. *)

effective_stream_rate_hz(requested, cap) ==
  LET rate == IF cap # 0 /\ (requested = 0 \/ requested > cap) THEN cap ELSE requested
      quotient == IF rate > 0 THEN 1000 \div rate ELSE 0
  IN 1000 \div (IF quotient = 0 THEN 10 ELSE quotient)

(* Sources: the IMU, and the jaw (motor status or encoder). *)
Sources == {"imu", "jaw"}
Cap(s) == IF mcu.kind = "follower" /\ s = "jaw" THEN 100 ELSE 0

(* Mutant: a rate of 0 with its bit set. *)
MaskOfAll(rates) == IF \E s \in Sources : rates[s] > 0 THEN Sources ELSE {}

(* A rate of 0 means off, and off is a cleared bit. *)
stream_source_mask(rates) == {s \in Sources : rates[s] > 0}

(* The MCU emits what the mask has, whatever its rate says. *)
Emission(mask, rates) ==
  [s \in Sources |-> IF s \in mask THEN effective_stream_rate_hz(rates[s], Cap(s)) ELSE 0]

Silence == [s \in Sources |-> 0]

-----------------------------------------------------------------------------
(* A command and how it ends; "unsent" if the call did not come to it. *)

Outcomes == {"done", "refused", "lost", "unanswered"}
CarriedOut(o) == o \in {"done", "unanswered"}

(* The outcomes of a call that sends these commands: a dead link answers none,
   and what does not go well is bounded. *)
Calls(commands) ==
  {o \in [commands -> Outcomes \union {"unsent"}] :
     IF link = "dead" THEN \A c \in commands : o[c] \in {"lost", "unsent"}
     ELSE faults + Cardinality({c \in commands : o[c] \notin {"done", "unsent"}}) <= MaxFaults}

Spent(o) ==
  faults' = IF link = "dead" THEN faults
            ELSE faults + Cardinality({c \in DOMAIN o : o[c] \notin {"done", "unsent"}})

Told(m, o, mode, emits) == IF CarriedOut(o) THEN [m EXCEPT !.mode = mode, !.emits = emits] ELSE m
Stopped(m, o) == Told(m, o, "idle", Silence)

-----------------------------------------------------------------------------
(* The constructors: a stream left behind is stopped, the version read; a
   follower known to be too old is refused. *)
Open ==
  /\ link = "closed"
  /\ \E o \in Calls({"stop", "version"}) :
       /\ "unsent" \notin {o["stop"], o["version"]}
       /\ Spent(o)
       /\ mcu' = Stopped(mcu, o["stop"])
       /\ doubt' = (doubt /\ ~CarriedOut(o["stop"]))
       /\ version' = IF o["version"] = "done" THEN mcu.version ELSE 0
       /\ link' = IF mcu.kind = "follower" /\ version' \in 1 .. MinVersion - 1
                  THEN "closed" ELSE "running"
  /\ streaming' = FALSE
  /\ sources' = {}
  /\ wanted' = {}
  /\ exchange' = FALSE

(* A start: the IMU is read first by a follower, the stream of before stopped,
   a leader's exchange probed, the IMU's format negotiated, the new stream
   started.  A stop that fails is passed over; every other failure ends it. *)
Steps == {"probe", "stop", "negotiate", "start"}

InTurn(o, rates, mode) ==
  LET follower == mcu.kind = "follower"
      imu == rates["imu"] > 0
      probes == IF follower THEN imu ELSE mode = "polled"
      probed == probes => o["probe"] = "done"
      reached == IF follower THEN probed ELSE TRUE
      agreed == probed /\ (imu => o["negotiate"] = "done")
  IN /\ (o["probe"] = "unsent") = ~probes
     /\ (o["stop"] = "unsent") = ~reached
     /\ (o["negotiate"] = "unsent") = ~(probed /\ imu)
     /\ (o["start"] = "unsent") = ~agreed

Start(mode, rates) ==
  \E o \in Calls(Steps) :
    LET mask == stream_source_mask(rates)
        stopped == Stopped(mcu, o["stop"])
    IN /\ InTurn(o, rates, mode)
       /\ Spent(o)
       /\ mcu' = Told(stopped, o["start"], mode, Emission(mask, rates))
       /\ doubt' = (o["start"] = "unanswered" \/ (doubt /\ ~CarriedOut(o["stop"])
                                                       /\ ~CarriedOut(o["start"])))
       /\ streaming' = (o["start"] = "done")
       /\ sources' = IF o["start"] = "done" THEN mask ELSE sources
       /\ wanted' = IF o["start"] = "done" THEN {s \in Sources : rates[s] > 0} ELSE wanted
       /\ exchange' = (o["start"] = "done" /\ mode = "polled")
       /\ UNCHANGED <<link, version>>

Asked(rates) ==
  /\ link # "closed"
  /\ ~streaming
  /\ stream_source_mask(rates) # {}
  /\ mcu.kind = "follower" => rates["imu"] <= 100

(* A leader's start_exchange() goes on with this when its firmware refuses the
   exchange, the probe of it or its mode. *)
start_streaming ==
  \E rates \in [Sources -> Rates] : Asked(rates) /\ Start("separate", rates)

start_exchange ==
  \E rates \in [Sources -> Rates] :
    /\ Asked(rates)
    /\ mcu.kind = "follower" => rates["jaw"] <= 100
    /\ Start("polled", rates)

(* A leader finds out that there is nothing to start when it has stopped. *)
StartNothing ==
  /\ link # "closed"
  /\ ~streaming
  /\ mcu.kind = "leader"
  /\ \E o \in Calls({"stop"}) :
       /\ o["stop"] # "unsent"
       /\ Spent(o)
       /\ mcu' = Stopped(mcu, o["stop"])
       /\ doubt' = (doubt /\ ~CarriedOut(o["stop"]))
  /\ UNCHANGED <<link, version, streaming, sources, wanted, exchange>>

(* stop_streaming: nothing is sent when nothing was started. *)
Hush(o) ==
  /\ o["stop"] # "unsent"
  /\ Spent(o)
  /\ mcu' = Stopped(mcu, o["stop"])
  /\ doubt' = ~CarriedOut(o["stop"])

stop_streaming ==
  /\ link # "closed"
  /\ streaming
  /\ \E o \in Calls({"stop"}) : Hush(o)
  /\ streaming' = FALSE
  /\ exchange' = FALSE
  /\ UNCHANGED <<link, version, sources, wanted>>

(* close, and the destructor: a dead link is not told anything. *)
Close ==
  /\ link # "closed"
  /\ IF streaming /\ link = "running"
     THEN \E o \in Calls({"stop"}) : Hush(o)
     ELSE /\ UNCHANGED <<mcu, faults>>
          /\ doubt' = (doubt \/ streaming)
  /\ link' = "closed"
  /\ streaming' = FALSE
  /\ exchange' = FALSE
  /\ UNCHANGED <<version, sources, wanted>>

-----------------------------------------------------------------------------
(* The MCU restarts (external): it is silent. *)
Restart ==
  /\ faults < MaxFaults
  /\ faults' = faults + 1
  /\ mcu' = Stopped(mcu, "done")
  /\ doubt' = streaming
  /\ UNCHANGED <<link, version, streaming, sources, wanted, exchange>>

(* The reader thread of the transport ends on an error. *)
ReaderDies ==
  /\ link = "running"
  /\ link' = "dead"
  /\ UNCHANGED <<mcu, version, streaming, sources, wanted, exchange, doubt, faults>>

Init ==
  /\ \E k \in Kinds, v \in Versions, mode \in {"idle", "separate"} :
       /\ mcu = [kind |-> k, version |-> v, mode |-> mode,
                 emits |-> [s \in Sources |-> IF mode = "idle" THEN 0 ELSE 100]]
       /\ doubt = (mode # "idle")
  /\ link = "closed"
  /\ version = 0
  /\ streaming = FALSE
  /\ sources = {}
  /\ wanted = {}
  /\ exchange = FALSE
  /\ faults = 0

Next ==
  \/ Open \/ Close \/ start_streaming \/ start_exchange \/ StartNothing \/ stop_streaming
  \/ Restart \/ ReaderDies

Spec == Init /\ [][Next]_vars

-----------------------------------------------------------------------------
(* Unless a command about the stream is in doubt (unanswered, not told, or the
   MCU restarted since), the MCU streams exactly the sources the gripper was
   asked for, in the mode it is in, and nothing when it is not streaming: no
   failure half way through a start or a stop leaves the two apart, and the
   next start or stop that is carried out ends the doubt
   (follower_gripper.cpp:403). *)
StreamIsAsTold ==
  ~doubt =>
    /\ mcu.mode = IF ~streaming THEN "idle" ELSE IF exchange THEN "polled" ELSE "separate"
    /\ streaming => sources = wanted /\ wanted = {s \in Sources : mcu.emits[s] > 0}
    /\ ~streaming => mcu.emits = Silence

=============================================================================
