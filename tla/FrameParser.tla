---------------------------- MODULE FrameParser ----------------------------
(***************************************************************************)
(* The framing of the serial line (frame.hpp, frame.cpp): a frame packed,  *)
(* byte-stuffed and delimited, and the parser that finds it again in what  *)
(* arrives: whole frames, damaged ones and noise, read in pieces of any    *)
(* length.                                                                 *)
(* A byte is <<n>>, n in 0..7, with three of them special; the header is   *)
(* one byte of identity and one of length.  The CRC is ideal: one symbol   *)
(* that holds the region it was computed over, so that damage never passes *)
(* it.                                                                     *)
(***************************************************************************)
EXTENDS Integers, Sequences, FiniteSets, SequencesExt

CONSTANTS
  Ids,          \* ADDR, SEQ, TYPE and CMD in one
  Payloads,     \* the payloads that are sent, sequences of bytes
  MaxFrameLen,  \* MAX_FRAME_LEN, in the model's bytes
  Buffers,      \* bounds a parser may be given for its buffer (max_buffered)
  TraceChunk,   \* bytes of an input record
  RingSize,     \* records of the trace
  MaxItems,     \* bound: frames and noise on the wire, all told
  MaxDamage,    \* bound: of these, damaged frames and noise
  MaxControls   \* bound: calls of reset(), set_trace_enabled(), take_trace()

VARIABLES
  wire,      \* bytes sent and not yet read
  parser,    \* the parser, one field for each member of the class
  popped,    \* frames taken by try_pop()
  heard,     \* bytes fed since the last reset()
  spoilt,    \* resync and overflow bytes counted before it
  budget     \* what the wire and the caller have done: [items, damage, controls]

vars == <<wire, parser, popped, heard, spoilt, budget>>

HEAD == <<1>>
TAIL == <<2>>
ESC == <<3>>
Special == {HEAD, TAIL, ESC}
Flip(b) == <<(b[1] + 4) % 8>>

MinFrameLen == 5
BodyMin == 3
MaxPayloadLen == MaxFrameLen - MinFrameLen

crc16_modbus(region) == <<8>> \o FlattenSeq(region)

stuff_data(bytes) ==
  FlattenSeq([i \in DOMAIN bytes |->
                IF bytes[i] \in Special THEN <<ESC, Flip(bytes[i])>> ELSE <<bytes[i]>>])

(* ESC takes the byte behind it along, unless it is the last one. *)
unstuff_data(bytes) ==
  LET escapes[i \in 0 .. Len(bytes)] ==
        i > 0 /\ bytes[i] = ESC /\ i < Len(bytes) /\ ~escapes[i - 1]
      kept(i) == CASE escapes[i] -> <<>>
                   [] escapes[i - 1] -> <<Flip(bytes[i])>>
                   [] OTHER -> <<bytes[i]>>
  IN FlattenSeq([i \in DOMAIN bytes |-> kept(i)])

pack_frame(f) ==
  LET region == <<HEAD, <<f.id>>, <<Len(f.payload)>>>> \o f.payload
  IN <<HEAD>> \o stuff_data(Tail(region) \o <<crc16_modbus(region)>>) \o <<TAIL>>

-----------------------------------------------------------------------------
(* try_parse_frame: what stands at the front of the bytes. *)

NoFrame == [id |-> 0, payload |-> <<>>]
Resync(reason, n) == [status |-> "resync", reason |-> reason, consumed |-> n, frame |-> NoFrame]
NeedMoreData == [status |-> "more", reason |-> "none", consumed |-> 0, frame |-> NoFrame]

(* The distance to the first of these bytes after the front one. *)
SkipTo(b, bytes) ==
  LET at == {i \in 2 .. Len(bytes) : bytes[i] = b}
  IN IF at = {} THEN Len(bytes) ELSE Min(at) - 1

(* The body between the delimiters, once it is unstuffed. *)
ParseBody(body, consumed) ==
  LET length == body[2][1]
      region == <<HEAD>> \o SubSeq(body, 1, 2 + length)
  IN IF Len(body) < BodyMin THEN Resync("short", 1)
     ELSE IF length > MaxPayloadLen \/ Len(body) # BodyMin + length THEN Resync("length", 1)
     ELSE IF body[BodyMin + length] # crc16_modbus(region) THEN Resync("crc", 1)
     ELSE [status |-> "success", reason |-> "none", consumed |-> consumed,
           frame |-> [id |-> body[1][1], payload |-> SubSeq(body, 3, 2 + length)]]

try_parse_frame(bytes) ==
  LET tail == SkipTo(TAIL, bytes)
  IN IF bytes[1] # HEAD THEN Resync("no head", SkipTo(HEAD, bytes))
     ELSE IF tail = Len(bytes)
     THEN IF Len(bytes) > MaxFrameLen THEN Resync("oversize", 1) ELSE NeedMoreData
     ELSE ParseBody(unstuff_data(SubSeq(bytes, 2, tail)), tail + 1)

-----------------------------------------------------------------------------
(* FrameParser *)

Reasons == {"no head", "oversize", "short", "length", "crc"}

(* trace_: the ring keeps the last RingSize records. *)
Traced(p, kind, offset, available) ==
  IF ~p.tracing THEN p
  ELSE LET full == Len(p.ring) = RingSize
           kept == IF full THEN Tail(p.ring) ELSE p.ring
       IN [p EXCEPT !.ring = Append(kept, [kind |-> kind, offset |-> offset, available |-> available]),
                    !.lost = IF full THEN @ + 1 ELSE @]

(* The first n bytes leave the buffer. *)
Drop(p, n) == [p EXCEPT !.rx = SubSeq(@, n + 1, Len(@)), !.offset = @ + n]

(* Mutant: what is buffered goes with a candidate that is rejected. *)
RejectedWhole(p, reason, n) ==
  Drop([p EXCEPT !.rejected[reason] = @ + 1, !.resync = @ + Len(p.rx)], Len(p.rx))

Rejected(p, reason, n) ==
  LET counted == [p EXCEPT !.rejected[reason] = @ + 1, !.resync = @ + n]
  IN Drop(Traced(counted, reason, p.offset, Len(p.rx)), n)

(* drain_'s look-ahead: later HEADs behind one that waits for its TAIL. *)
LaterFrames(bytes) ==
  {i \in 2 .. Len(bytes) :
     bytes[i] = HEAD /\ try_parse_frame(SubSeq(bytes, i, Len(bytes))).status = "success"}

(* One turn of drain_'s loop: nothing when the buffer is empty or waits. *)
Turned(p) ==
  LET r == try_parse_frame(p.rx)
      later == LaterFrames(p.rx)
      skipped == Min(later) - 1
  IN IF p.rx = <<>> THEN p
     ELSE CASE r.status = "success" ->
                 Drop([p EXCEPT !.ready = Append(@, r.frame)], r.consumed)
            [] r.status = "resync" -> Rejected(p, r.reason, r.consumed)
            [] later = {} -> p
            [] OTHER ->
                 Drop(Traced([p EXCEPT !.resync = @ + skipped],
                             "no head", p.offset, skipped), skipped)

(* Each turn but the last takes a byte at least out of the buffer. *)
Drained(p) ==
  LET after[n \in 0 .. Len(p.rx)] == IF n = 0 THEN p ELSE Turned(after[n - 1])
  IN after[Len(p.rx)]

(* The end of drain_: a buffer beyond its bound loses its oldest bytes. *)
Bounded(p) ==
  LET excess == Len(p.rx) - p.bound
  IN IF excess <= 0 THEN p
     ELSE Drop(Traced([p EXCEPT !.overflow = @ + excess], "oversize", p.offset, excess), excess)

(* feed: one input record for every TraceChunk bytes, then drain_. *)
InputTraced(p, at, n) ==
  LET starts == [k \in 1 .. (n + TraceChunk - 1) \div TraceChunk |-> (k - 1) * TraceChunk]
      Record(q, i) == Traced(q, "input", at + i, IF n - i < TraceChunk THEN n - i ELSE TraceChunk)
  IN FoldLeft(Record, p, starts)

Fed(p, bytes) ==
  LET t == InputTraced(p, p.offset + Len(p.rx), Len(bytes))
  IN Bounded(Drained([t EXCEPT !.rx = @ \o bytes]))

-----------------------------------------------------------------------------
(* The wire: whole frames, damaged frames and noise.  What is sent while the  *)
(* reader reads is not told from what was sent before, only where a read cuts *)
(* it: all is sent first.                                                     *)

Frames == {f \in [id : Ids, payload : Payloads] : Len(f.payload) <= MaxPayloadLen}

Send ==
  /\ heard = <<>> /\ parser.offset = 0
  /\ budget.items < MaxItems
  /\ UNCHANGED <<parser, popped, heard, spoilt>>

Spoil ==
  /\ Send
  /\ budget.damage < MaxDamage
  /\ budget' = [budget EXCEPT !.damage = @ + 1, !.items = @ + 1]

SendFrame ==
  /\ Send
  /\ budget' = [budget EXCEPT !.items = @ + 1]
  /\ \E f \in Frames : wire' = wire \o pack_frame(f)

(* A byte of a frame lost, or another one in its place. *)
SendDamaged ==
  /\ Spoil
  /\ \E f \in Frames :
       LET bytes == pack_frame(f)
       IN \E i \in DOMAIN bytes :
            \/ wire' = wire \o RemoveAt(bytes, i)
            \/ \E b \in (Special \union {<<0>>}) \ {bytes[i]} :
                 wire' = wire \o [bytes EXCEPT ![i] = b]

Noise ==
  /\ Spoil
  /\ \E b \in Special \union {<<0>>} : wire' = Append(wire, b)

feed ==
  /\ \E n \in 1 .. Len(wire) :
       /\ parser' = Fed(parser, SubSeq(wire, 1, n))
       /\ heard' = heard \o SubSeq(wire, 1, n)
       /\ wire' = SubSeq(wire, n + 1, Len(wire))
  /\ UNCHANGED <<popped, spoilt, budget>>

try_pop ==
  /\ parser.ready # <<>>
  /\ popped' = Append(popped, Head(parser.ready))
  /\ parser' = [parser EXCEPT !.ready = Tail(@)]
  /\ UNCHANGED <<wire, heard, spoilt, budget>>

Control ==
  /\ budget.controls < MaxControls
  /\ budget' = [budget EXCEPT !.controls = @ + 1]

(* The buffers are cleared, the counters stay. *)
reset ==
  /\ Control
  /\ parser' = [parser EXCEPT !.offset = @ + Len(parser.rx), !.rx = <<>>, !.ready = <<>>]
  /\ popped' = <<>>
  /\ heard' = <<>>
  /\ spoilt' = parser.resync + parser.overflow
  /\ UNCHANGED wire

set_trace_enabled ==
  /\ Control
  /\ \E on \in BOOLEAN :
       parser' = [parser EXCEPT !.tracing = on, !.ring = <<>>, !.lost = 0]
  /\ UNCHANGED <<wire, popped, heard, spoilt>>

(* The records are handed out; the count of those overwritten stays. *)
take_trace ==
  /\ Control
  /\ parser' = [parser EXCEPT !.ring = <<>>]
  /\ UNCHANGED <<wire, popped, heard, spoilt>>

-----------------------------------------------------------------------------
Init ==
  /\ wire = <<>>
  /\ \E n \in Buffers :
       parser = [bound |-> n, rx |-> <<>>, ready |-> <<>>, offset |-> 0,
                 resync |-> 0, overflow |-> 0, rejected |-> [r \in Reasons |-> 0],
                 tracing |-> FALSE, ring |-> <<>>, lost |-> 0]
  /\ popped = <<>>
  /\ heard = <<>>
  /\ spoilt = 0
  /\ budget = [items |-> 0, damage |-> 0, controls |-> 0]

Next ==
  \/ SendFrame \/ SendDamaged \/ Noise
  \/ feed \/ try_pop
  \/ reset \/ set_trace_enabled \/ take_trace

Spec == Init /\ [][Next]_vars

-----------------------------------------------------------------------------
(* The reference: the frames in a stream, wherever they stand.  A frame is a
   HEAD and the first TAIL behind it with no other HEAD between, and what is
   between parses. *)
FramesIn(bytes) ==
  LET spans == {s \in (DOMAIN bytes) \X (DOMAIN bytes) :
                  /\ s[1] < s[2]
                  /\ bytes[s[1]] = HEAD
                  /\ bytes[s[2]] = TAIL
                  /\ \A k \in s[1] + 1 .. s[2] - 1 : bytes[k] \notin {HEAD, TAIL}
                  /\ ParseBody(unstuff_data(SubSeq(bytes, s[1] + 1, s[2] - 1)), 0).status = "success"}
  IN SetToSortSeq(spans, LAMBDA s, t : s[1] < t[1])

FrameAt(s) == ParseBody(unstuff_data(SubSeq(heard, s[1] + 1, s[2] - 1)), 0).frame

(* A parser whose buffer holds a largest frame delivers every frame that arrived
   undamaged, once, in order and exactly, and nothing else: whatever stood
   before it, however the reads cut it (frame.cpp:302). *)
FramesDelivered ==
  parser.bound >= MaxFrameLen =>
    LET found == FramesIn(heard)
    IN popped \o parser.ready = [k \in 1 .. Len(found) |-> FrameAt(found[k])]

(* Every byte heard is in a frame delivered, counted as lost, or waiting; a
   buffer that holds a largest frame loses none to its bound. *)
BytesAccounted ==
  LET framed == FoldSeq(LAMBDA f, n : n + Len(pack_frame(f)), 0, popped \o parser.ready)
  IN /\ Len(heard) = framed + (parser.resync + parser.overflow - spoilt) + Len(parser.rx)
     /\ parser.overflow > 0 => parser.bound < MaxFrameLen

(* The records of a trace join up: each input begins where the one before it
   ended, and the last ends with what was fed (frame.hpp:170). *)
TraceJoins ==
  LET inputs == SelectSeq(parser.ring, LAMBDA r : r.kind = "input")
  IN \A k \in DOMAIN inputs :
       inputs[k].offset + inputs[k].available =
         IF k < Len(inputs) THEN inputs[k + 1].offset ELSE parser.offset + Len(parser.rx)

=============================================================================
