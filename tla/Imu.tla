-------------------------------- MODULE Imu --------------------------------
(***************************************************************************)
(* IMU (components/imu.hpp, imu.cpp): the samples of the MCU and the time  *)
(* line each reader of them keeps.  A device gives its samples a time of   *)
(* 64 bits and the nonce of its boot (V2), or, an older one, the low bits  *)
(* of its time only; a Timeline extends those, with the host's clock as a  *)
(* check, and says when it cannot.  Two readers are modelled: read_once(), *)
(* which negotiates the format, and a subscription to the stream; a        *)
(* behaviour has one of the two, as they share no time line.               *)
(* The MCU, its clock and what the line does to a frame are external.      *)
(***************************************************************************)
EXTENDS Integers, Sequences, FiniteSets

CONSTANTS
  Width,     \* legacy times are modulo this (2^32 in the code)
  SeqWidth,  \* sequence numbers are modulo this (2^16)
  Margin,    \* a wrap starts in the last and ends in the first Margin of Width (2^28)
  Slack,     \* what a wrap may exceed the host's gap by (2 s)
  Delays,    \* how late a frame may arrive
  Steps,     \* times between two acquisitions
  Skips,     \* by how much the sequence number goes on
  MaxSamples, \* bound on the acquisitions modelled
  MaxBoots   \* bound on the restarts of the MCU

VARIABLES
  clock,   \* the host's time
  mcu,     \* the MCU: [boot, up, seq, v2, samples], up its time since the boot
  sent,    \* the frames of the stream: the latest, and the one before
  reader,  \* who reads: "poll" or "stream"
  track,   \* its Timeline, [seen, faulted, last, raw, seq, session, host]
  out,     \* the sample it had last
  truth,   \* what its samples' times are relative to, and where the last was taken
  subs     \* the transport's subscriptions: formats of a reader's callback

vars == <<clock, mcu, sent, reader, track, out, truth, subs>>

Readers == {"poll", "stream"}
Half == Width \div 2
Fresh == [seen |-> FALSE, faulted |-> FALSE, last |-> 0, raw |-> 0, seq |-> 0,
          session |-> 0, host |-> 0]
NoPayload == [v2 |-> FALSE, size |-> 0, raw |-> 0, time |-> 0, session |-> 0, seq |-> 0]
NoSample == [payload |-> NoPayload, time |-> 0, valid |-> FALSE, jump |-> FALSE]
NoTruth == [boot |-> 0, origin |-> 0, sampled |-> 0, of |-> 0]
Size(v2) == IF v2 THEN 44 ELSE 28

(* What the MCU sends of its state, and the state it was sent in. *)
Frame(p, m) == [payload |-> p, boot |-> m.boot, up |-> m.up]

Payload(m) ==
  [v2 |-> m.v2, size |-> Size(m.v2), raw |-> m.up % Width,
   time |-> IF m.v2 THEN m.up ELSE 0, session |-> IF m.v2 THEN m.boot ELSE 0, seq |-> m.seq]

-----------------------------------------------------------------------------
(* decode: a V2 payload names its boot, and its two times agree. *)
Decodes(p) ==
  /\ p.size = Size(p.v2)
  /\ p.v2 => p.session # 0 /\ p.time % Width = p.raw

Sample(p, time, valid, jump) == [payload |-> p, time |-> time, valid |-> valid, jump |-> jump]

(* A V2 sample: a new boot is a jump, an older time in the same boot is stale. *)
Stale(t, p) == t.seen /\ p.v2 /\ t.session = p.session /\ p.time < t.last

Native(t, p) == Sample(p, p.time, ~Stale(t, p), Stale(t, p) \/ (t.seen /\ t.session # p.session))

(* Mutant: the silence before a sample is not looked at. *)
AmbiguousAfterWrap(t, p, arrival) ==
  (p.raw - t.raw) % Width >= Half \/ (p.seq - t.seq) % SeqWidth >= SeqWidth \div 2

(* A legacy sample that cannot be placed: too long a silence, a step back that
   is no wrap, a format or an epoch that is not known to be the same. *)
Ambiguous(t, p, arrival) ==
  LET gap == arrival - t.host
      delta == (p.raw - t.raw) % Width
      seqDelta == (p.seq - t.seq) % SeqWidth
  IN \/ t.faulted
     \/ t.session # 0
     \/ gap < 0 \/ gap >= Half
     \/ delta >= Half
     \/ seqDelta >= SeqWidth \div 2
     \/ /\ p.raw < t.raw
        /\ \/ t.raw < Width - Margin
           \/ p.raw >= Margin
           \/ seqDelta = 0
           \/ delta > gap + Slack

Legacy(t, p, arrival) ==
  LET lost == t.seen /\ Ambiguous(t, p, arrival)
      time == IF t.seen /\ ~lost THEN t.last + ((p.raw - t.raw) % Width) ELSE p.raw
  IN Sample(p, time, ~lost, lost)

Decoded(t, p, arrival) == IF p.v2 THEN Native(t, p) ELSE Legacy(t, p, arrival)

(* Timeline::decode: a stale sample leaves the timeline as it was. *)
Tracked(t, p, arrival) ==
  IF Stale(t, p) THEN t
  ELSE LET s == Decoded(t, p, arrival)
       IN [seen |-> TRUE, faulted |-> IF t.seen THEN ~p.v2 /\ s.jump ELSE t.faulted,
           last |-> s.time, raw |-> p.raw, seq |-> p.seq, session |-> p.session, host |-> arrival]

(* What a valid sample says of the MCU's time is kept from the first one, or
   from the last that was marked as a jump. *)
Judged(s, f) ==
  LET anew == ~track.seen \/ (s.jump /\ s.valid)
  IN [boot |-> IF anew THEN f.boot ELSE truth.boot,
      origin |-> IF anew THEN f.up - s.time ELSE truth.origin,
      sampled |-> f.up, of |-> f.boot]

Takes(f, arrival) ==
  LET s == Decoded(track, f.payload, arrival)
  IN /\ track' = Tracked(track, f.payload, arrival)
     /\ out' = s
     /\ truth' = Judged(s, f)
     /\ UNCHANGED reader

-----------------------------------------------------------------------------
(* negotiate_time: only an MCU that does not know the command is read in the
   old format; every other answer but a nonce is an error. *)
Answers == {"nonce", "no nonce", "short", "unknown", "nack unknown", "nack", "silent"}
Negotiated(answer) ==
  CASE answer = "nonce" -> "v2"
    [] answer \in {"unknown", "nack unknown"} -> "legacy"
    [] OTHER -> "throws"

(* read_once: a request of its own, in the format just negotiated; the answer
   must have that format. *)
read_once ==
  /\ reader = "poll"
  /\ \E answer \in Answers :
       /\ Negotiated(answer) = IF mcu.v2 THEN "v2" ELSE "legacy"
       /\ Decodes(Payload(mcu))
  /\ Takes(Frame(Payload(mcu), mcu), clock)
  /\ UNCHANGED <<clock, mcu, sent, subs>>

(* on_data: both formats or, when the second cannot be had, neither. *)
on_data ==
  /\ reader = "stream"
  /\ subs = {}
  /\ \/ subs' = {"legacy", "v2"}
     \/ subs' = {}
  /\ track' = Fresh
  /\ out' = NoSample
  /\ truth' = NoTruth
  /\ UNCHANGED <<clock, mcu, sent, reader>>

off ==
  /\ subs # {}
  /\ subs' = {}
  /\ UNCHANGED <<clock, mcu, sent, reader, track, out, truth>>

(* A frame of the stream reaches the subscription: its payload is of its
   format's size and not the one before, byte for byte. *)
Deliver(f, delay) ==
  /\ (IF f.payload.v2 THEN "v2" ELSE "legacy") \in subs
  /\ Decodes(f.payload)
  /\ f.payload # out.payload
  /\ Takes(f, clock + delay)

Receive ==
  /\ \E f \in sent, delay \in Delays : Deliver(f, delay)
  /\ UNCHANGED <<clock, mcu, sent, subs>>

-----------------------------------------------------------------------------
(* The MCU (external). *)

(* The stream holds the latest sample, and a V2 frame the one before as well:
   what a reader is behind with, and what comes late. *)
Latest(frames, m) ==
  {Frame(Payload(m), m)}
    \union {f \in frames : f.payload.v2 /\ \A g \in frames : g.up <= f.up}

(* It acquires a sample and streams it. *)
Acquire ==
  /\ \E d \in Steps, k \in Skips :
       /\ mcu.samples < MaxSamples
       /\ clock' = clock + d
       /\ mcu' = [mcu EXCEPT !.up = @ + d, !.seq = (@ + k) % SeqWidth,
                               !.samples = @ + 1]
  /\ sent' = Latest(sent, mcu')
  /\ UNCHANGED <<reader, track, out, truth, subs>>

(* It restarts; what it streamed before is gone. *)
Restart ==
  /\ mcu.boot < MaxBoots
  /\ \E v2 \in BOOLEAN : 
       mcu' = [mcu EXCEPT !.boot = @ + 1, !.up = 0, !.seq = 0, !.v2 = v2]
  /\ sent' = {}
  /\ UNCHANGED <<clock, reader, track, out, truth, subs>>

(* A frame whose content does not hold together, though its CRC does. *)
Corrupt ==
  /\ mcu.v2
  /\ \E p \in {[Payload(mcu) EXCEPT !.session = 0], [Payload(mcu) EXCEPT !.size = 28],
               [Payload(mcu) EXCEPT !.raw = (@ + 1) % Width]} :
       sent' = {Frame(p, mcu)}
  /\ UNCHANGED <<clock, mcu, reader, track, out, truth, subs>>

Init ==
  /\ clock = 0
  /\ \E v2 \in BOOLEAN : mcu = [boot |-> 1, up |-> 0, seq |-> 0, v2 |-> v2, samples |-> 0]
  /\ sent = {}
  /\ reader \in Readers
  /\ track = Fresh
  /\ out = NoSample
  /\ truth = NoTruth
  /\ subs = {}

Next == read_once \/ on_data \/ off \/ Receive \/ Acquire \/ Restart \/ Corrupt

Spec == Init /\ [][Next]_vars

-----------------------------------------------------------------------------
(* A sample that is called valid has the time it was taken at, as far as its
   reader's first sample tells: wraps, silences of any length and late frames
   never shift it (imu.cpp:87).  Across a restart this is so in V2. *)
ValidTimesAreTrue ==
  out.valid /\ (truth.of = truth.boot \/ out.payload.v2) =>
    truth.sampled - out.time = truth.origin

(* In V2 no valid sample goes back in time unseen, and the first one of
   another boot is marked as a jump: an estimator that restarts at every jump
   integrates over one boot, forwards. *)
MarksJumps ==
  out'.valid /\ out'.payload.v2 /\ track.seen /\ track'.seen /\ out' # out
    => \/ out'.jump
       \/ track'.session = track.session /\ out'.time >= track.last

JumpsAreMarked == [][MarksJumps]_vars

=============================================================================
