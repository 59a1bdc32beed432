------------------------------ MODULE Payloads -------------------------------
(***************************************************************************)
(* The payloads on the wire (protocol/payloads.hpp, packed, little endian) *)
(* and what the decoders of codec.cpp make of a payload by its length.  A  *)
(* layout is the sequence of its fields' widths in bytes; what is in them  *)
(* is left out.  Firmware of several ages is spoken to, and some payloads  *)
(* have grown since: their decoders take the older, shorter ones and leave *)
(* the rest zero.  The assumptions of this module are what the lengths     *)
(* must be for that to work; TLC evaluates them.                           *)
(***************************************************************************)
EXTENDS Integers, Sequences

Size(layout) ==
  LET upTo[i \in 0 .. Len(layout)] == IF i = 0 THEN 0 ELSE upTo[i - 1] + layout[i]
  IN upTo[Len(layout)]
Offset(layout, field) == Size(SubSeq(layout, 1, field - 1))

Bytes(n) == [i \in 1 .. n |-> 1]
Floats(n) == [i \in 1 .. n |-> 4]

-----------------------------------------------------------------------------
FirmwareVersion == Bytes(4)
SnInfo == Bytes(17)
ImuData == <<4, 2>> \o [i \in 1 .. 11 |-> 2]
ImuConfig == <<2, 2, 1, 1, 1, 1, 2>>
EncoderData == <<4, 4, 4, 2, 2>>
EncoderConfig == <<1, 4>>
EskinHeader == <<4, 1, 1, 1, 1, 2, 2>>
EskinConfig == <<1, 1, 1, 2>>
MotorPosCtrl == Floats(3)
MotorVelCtrl == Floats(3)
MotorTorqueCtrl == Floats(3)
MotorImpedanceCtrl == Floats(5)
MotorStatus == Floats(4) \o <<2>> \o Floats(3) \o <<1>>
MotorSpec == Bytes(8) \o Floats(7) \o Bytes(4)
MotorVersion == Bytes(8)
MotorFwVersionRecord == Bytes(8)
MotorCanXferReq == <<4>> \o Bytes(10) \o <<2, 4, 4>>
MotorCanXferResp == <<1, 1, 2, 4>> \o Bytes(8)
MotorModel == Bytes(10) \o Floats(2) \o Bytes(2)
HomeDiagReport == Bytes(4) \o <<4, 4, 4>> \o Floats(11) \o <<2, 2>>
MotorStatusExt == MotorStatus \o Bytes(4) \o [i \in 1 .. 7 |-> 4] \o Bytes(9)
MotorFaultReport ==
  Bytes(4) \o [i \in 1 .. 9 |-> 4] \o Bytes(12) \o <<4, 4>> \o Bytes(4)
MotorPrivateParam == <<2, 1, 1, 4>>
GripperConfig == <<4, 2, 2, 4, 4>> \o Bytes(16)
GripperEnvelope == <<4, 4>> \o Bytes(6) \o <<2>>
UartStats == [i \in 1 .. 7 |-> 4] \o <<2, 2, 4, 4, 4>>
UartRxErrors == [i \in 1 .. 7 |-> 4]
LogConfig == Bytes(2)
MotorControlStats ==
  <<1, 1, 2, 2, 2, 4>> \o [i \in 1 .. 7 |-> 4] \o <<2, 2, 4>>
GripperAutoCalConfig == <<4, 2, 2>> \o Floats(4) \o <<2, 2, 2, 1, 1>>
GripperAutoCalStallParam == <<4, 4, 2>>
GripperAutoCalStallParamEx == <<4, 4, 2, 2, 2, 1, 1>>
CameraFisheyeCal == Floats(8)
Ws2812Set == Bytes(5) \o <<2>>
Ws2812Effect == Bytes(4) \o <<2>> \o Bytes(6)
LeaderExchangeRequest == Bytes(4)
LeaderExchangeResponseHeader == Bytes(4) \o <<2, 2>>
ExchangeRequestHeader == Bytes(4)
ExchangeResponseHeader == Bytes(8)
StreamConfig == <<2, 1, 2, 2, 2, 2, 1>>
AckPayload == <<1, 1, 2>>
KeyStatusPayload == Bytes(2)
ImuMagCal == Floats(12)
SensorErrorReport == <<1, 1, 2, 4>>
OtaStart == <<4, 4>> \o Bytes(4)
OtaWriteBlockHeader == <<4, 2>>
OtaStatus == <<1, 1, 4, 2>>

(* The sizes the header's assertions pin, most of them lengths the firmware's
   own header gives. *)
Pinned ==
  {<<FirmwareVersion, 4>>, <<SnInfo, 17>>, <<ImuData, 28>>, <<ImuConfig, 10>>,
   <<EncoderData, 16>>, <<EncoderConfig, 5>>, <<EskinHeader, 12>>, <<EskinConfig, 5>>,
   <<MotorPosCtrl, 12>>, <<MotorVelCtrl, 12>>, <<MotorTorqueCtrl, 12>>,
   <<MotorImpedanceCtrl, 20>>, <<MotorStatus, 31>>, <<MotorSpec, 40>>, <<MotorVersion, 8>>,
   <<MotorFwVersionRecord, 8>>, <<MotorCanXferReq, 24>>, <<MotorCanXferResp, 16>>,
   <<MotorModel, 20>>, <<HomeDiagReport, 64>>, <<MotorStatusExt, 72>>,
   <<MotorFaultReport, 64>>, <<MotorPrivateParam, 8>>, <<GripperConfig, 32>>,
   <<GripperEnvelope, 16>>, <<UartStats, 44>>, <<UartRxErrors, 28>>, <<LogConfig, 2>>,
   <<MotorControlStats, 48>>, <<GripperAutoCalConfig, 32>>, <<GripperAutoCalStallParam, 10>>,
   <<GripperAutoCalStallParamEx, 16>>, <<CameraFisheyeCal, 32>>, <<Ws2812Set, 7>>,
   <<Ws2812Effect, 12>>, <<LeaderExchangeRequest, 4>>, <<LeaderExchangeResponseHeader, 8>>,
   <<ExchangeRequestHeader, 4>>, <<ExchangeResponseHeader, 8>>, <<StreamConfig, 12>>,
   <<AckPayload, 4>>, <<KeyStatusPayload, 2>>, <<ImuMagCal, 48>>, <<SensorErrorReport, 8>>,
   <<OtaStart, 12>>, <<OtaWriteBlockHeader, 6>>, <<OtaStatus, 8>>}

ASSUME SizesArePinned == \A p \in Pinned : Size(p[1]) = p[2]

-----------------------------------------------------------------------------
(* A decoder by the lengths it takes: one exactly, at least so many, or the
   operation's byte and the body. *)
pod_from_bytes(layout, len) == len = Size(layout)
cal_read_body(layout, len) == len = Size(layout) + 1

decode_motor_status(len) == len >= 18
decode_motor_status_ext(len) == len >= Size(MotorStatus)
decode_uart_stats(len) == len >= 32
decode_uart_rx_errors(len) == len = 72
decode_dev_type(len) == len >= 1
decode_sn(len) == TRUE

(* The e-skin frame says in its header how many cells follow, and of which
   kind. *)
decode_eskin(rows, cols, adc, len) ==
  len = Size(EskinHeader) + rows * cols * (IF adc THEN 2 ELSE 4)

encode_ota_write_block(length) == Size(OtaWriteBlockHeader) + length

(* A field that a payload of this length has a part of only. *)
Halved(layout, len) ==
  \E f \in DOMAIN layout : Offset(layout, f) < len /\ len < Offset(layout, f) + layout[f]

(* The lengths firmware of some age sends. *)
StatusLengths == {31, 59, 72}
UartLengths == {32, 36, 44, 72}

(* No field is read that is half there: every length a firmware sends ends
   between two fields, and the prefix shared with every earlier layout too. *)
ASSUME LengthsFallOnFields ==
  /\ \A len \in StatusLengths : decode_motor_status_ext(len) /\ ~Halved(MotorStatusExt, len)
  /\ \A len \in UartLengths : decode_uart_stats(len) /\ ~Halved(UartStats, len)
  /\ \A len \in {18} \union StatusLengths : decode_motor_status(len) /\ ~Halved(MotorStatus, len)
  /\ decode_uart_rx_errors(Size(UartStats) + Size(UartRxErrors))

(* The envelope is what a gripper's configuration has as its reserved bytes. *)
ASSUME EnvelopeOverlays ==
  Size(GripperConfig) - Size(GripperEnvelope) = Offset(GripperConfig, 6)

-----------------------------------------------------------------------------
(* A motor's firmware version: four bytes, written with the vendor's split of
   a leading byte 10 .. 19.  A text is the sequence of its numbers. *)
Invalid == <<>>

format_motor_fw_version(v) ==
  IF v[1] \in 10 .. 19 THEN <<v[1] \div 10, v[1] % 10>> \o Tail(v) ELSE v

parse_motor_fw_version(parts) ==
  LET joined == IF Len(parts) # 5 THEN parts
                ELSE IF parts[1] # 1 \/ parts[2] > 9 THEN Invalid
                ELSE <<10 + parts[2]>> \o SubSeq(parts, 3, 5)
  IN IF Len(joined) = 4 /\ \A i \in 1 .. 4 : joined[i] \in 0 .. 255 THEN joined ELSE Invalid

LeadingBytes == {0, 1, 9, 10, 11, 19, 20, 255}

(* What is written is read back; and no text but the one that is written of it
   and the plain four numbers are read as a version. *)
ASSUME VersionsReadBack ==
  /\ \A b \in LeadingBytes :
       LET v == <<b, 5, 0, 4>>
       IN parse_motor_fw_version(format_motor_fw_version(v)) = v
  /\ \A a \in 0 .. 20, b \in 0 .. 20 :
       LET v == parse_motor_fw_version(<<a, b, 5, 0, 4>>)
       IN v # Invalid => format_motor_fw_version(v) = <<a, b, 5, 0, 4>>
=============================================================================
