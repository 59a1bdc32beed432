------------------------------- MODULE Requests ------------------------------
(***************************************************************************)
(* The components' calls: Device, Calibration, Motor's administration,     *)
(* Encoder, Led and Diagnostics (components/*.cpp), each a request or a    *)
(* few in a row, what the firmware answers, and what the call makes of the *)
(* answer.  An error comes back in one of two forms, as a NACK, or as an   *)
(* answer like any other whose one byte is the error's code; which calls   *)
(* can tell it from a value depends on how they look at the answer.        *)
(* How a request gets there and back is in TransportRequests: here it is   *)
(* answered or times out.                                                  *)
(***************************************************************************)
EXTENDS Naturals, Sequences

CONSTANTS
  Table,      \* a request: what it does to which record, the lengths its caller
              \* takes, and by what it tells an error (RequestTable)
  Composed,   \* the calls that are several requests
  Newer,      \* the commands older firmware does not have
  ErrorForms, \* "nack", "byte"
  Values,     \* values a caller writes
  Unset,      \* a record never written
  Blank,      \* a record of zeros
  MaxFaults   \* bound on requests that are not simply carried out

VARIABLES
  record,  \* the record the calls of this run are about: no call is about two
  flash,   \* what the MCU has in it
  knows,   \* the firmware has every command
  call,    \* the call under way: [method, arg, step]; step 0 before and after
  result,  \* how it ended: [kind, value]
  refused, \* its last request was refused
  faults

vars == <<record, flash, knows, call, result, refused, faults>>

-----------------------------------------------------------------------------
Requests == DOMAIN Table
Reads == {r \in Requests : Table[r].does = "reads"}
Writes == Requests \ Reads
Records == {Table[r].record : r \in Requests}

Calls == Requests \union DOMAIN Composed
StepsOf(m) == IF m \in DOMAIN Composed THEN Composed[m] ELSE <<m>>

(* The writes that are read back, by the call or by the firmware's answer. *)
Verified == {"set_sn", "set_device_type", "set_motor_fw_version"}
Record(m) == Table[StepsOf(m)[Len(StepsOf(m))]].record

Takes(r, len) == len \in Table[r].takes
ByErrorCode == {r \in Requests : Table[r].errors = "code"}

Known(r) == knows \/ r \notin Newer

(* The length of a good answer; older firmware has shorter counters. *)
Length(r) ==
  IF r = "uart_rx_errors" /\ ~knows THEN 36
  ELSE CHOOSE len \in Table[r].takes : TRUE

-----------------------------------------------------------------------------
(* What a call makes of an answer: [form, len, value]. *)

Outcome(kind, value) == [kind |-> kind, value |-> value]
Failed == {"error", "timeout"}

IsError(r, a) ==
  \/ a.form = "nack"
  \/ a.form = "byte" /\ r \in ByErrorCode

(* An answer that is no error is the value, if its length is right: the byte
   of an error passes where a value may be one byte, or is not looked at. *)
Decoded(r, a) ==
  IF IsError(r, a) \/ ~Takes(r, a.len) THEN Outcome("error", a.value)
  ELSE Outcome(IF r \in Reads THEN "value" ELSE "done", a.value)

Calibrations == {"read_fisheye", "read_encoder_max_rad"}

(* A calibration that was never written is an error of its own, and read as no
   value: where it comes as an answer.  As a NACK, send_cmd throws it. *)
Reading(r, a) ==
  IF r \in Calibrations /\ a.form = "byte" /\ a.value = "CalNotSet"
  THEN Outcome("nothing", a.value)
  ELSE Decoded(r, a)

is_usable_fisheye_cal(v) == v \notin {Blank, Unset}

(* Mutant: nothing is compared. *)
NotCompared(read, arg) == TRUE

(* What was written is what is read back. *)
ReadBack(read, arg) == read = arg

(* The end of a call, by what its last request came to. *)
Finished(m, arg, o) ==
  IF m \in Verified /\ o.kind \notin Failed
  THEN Outcome(IF ReadBack(o.value, arg) THEN "done" ELSE "error", o.value)
  ELSE IF m = "resolve_fisheye" /\ o.kind # "timeout"
  THEN Outcome(IF o.kind = "value" /\ is_usable_fisheye_cal(o.value) THEN "value"
               ELSE "fallback", o.value)
  ELSE o

-----------------------------------------------------------------------------
Idle == [method |-> "none", arg |-> Unset, step |-> 0]
Nothing == Outcome("none", Unset)

Begin ==
  /\ call = Idle
  /\ \E m \in {n \in Calls : Record(n) = record}, v \in Values :
       call' = [method |-> m, arg |-> v, step |-> 1]
  /\ UNCHANGED <<record, flash, knows, result, refused, faults>>

Request == StepsOf(call.method)[call.step]

(* A request's outcome is the call's, or the next request's turn. *)
Goes(o) ==
  IF o.kind \in Failed \/ call.step = Len(StepsOf(call.method))
  THEN /\ result' = Finished(call.method, call.arg, o)
       /\ call' = [call EXCEPT !.step = 0]
  ELSE /\ call' = [call EXCEPT !.step = @ + 1]
       /\ UNCHANGED result

Fault == faults < MaxFaults /\ faults' = faults + 1

(* A calibration that was never written is not answered with a value. *)
Written == Request \in Calibrations => flash # Unset

Good(v) == [form |-> "good", len |-> Length(Request), value |-> v]

ServeRead ==
  /\ call.step > 0
  /\ Request \in Reads
  /\ Known(Request) /\ Written
  /\ Goes(Reading(Request, Good(flash)))
  /\ refused' = FALSE
  /\ UNCHANGED <<record, flash, knows, faults>>

(* A write is carried out and answered, with what the record has after it; the
   flash may not have taken it. *)
ServeWrite ==
  /\ call.step > 0
  /\ Request \in Writes
  /\ Known(Request)
  /\ \/ flash' = call.arg /\ UNCHANGED faults
     \/ UNCHANGED flash /\ Fault
  /\ Goes(Reading(Request, Good(flash')))
  /\ refused' = FALSE
  /\ UNCHANGED <<record, knows>>

(* It is refused: a command not known, a calibration never written, or for
   any reason the firmware has. *)
Reasons ==
  IF ~Known(Request) THEN {"InvalidCmd"}
  ELSE IF ~Written THEN {"CalNotSet"}
  ELSE {"SysBusy"}

Refuse ==
  /\ call.step > 0
  /\ IF Reasons = {"SysBusy"} THEN Fault ELSE UNCHANGED faults
  /\ \E form \in ErrorForms, e \in Reasons :
       Goes(Reading(Request, [form |-> form, len |-> 1, value |-> e]))
  /\ refused' = TRUE
  /\ UNCHANGED <<record, flash, knows>>

(* No answer: the request was carried out or not. *)
TimeOut ==
  /\ call.step > 0
  /\ Fault
  /\ flash' \in {flash} \union (IF Request \in Writes THEN {call.arg} ELSE {})
  /\ Goes(Outcome("timeout", Unset))
  /\ UNCHANGED <<record, knows, refused>>

Return ==
  /\ call.method # "none"
  /\ call.step = 0
  /\ call' = Idle
  /\ result' = Nothing
  /\ refused' = FALSE
  /\ UNCHANGED <<record, flash, knows, faults>>

-----------------------------------------------------------------------------
Init ==
  /\ record \in Records
  /\ flash \in {Unset, Blank}
  /\ knows \in BOOLEAN
  /\ call = Idle
  /\ result = Nothing
  /\ refused = FALSE
  /\ faults = 0

Next == Begin \/ ServeRead \/ ServeWrite \/ Refuse \/ TimeOut \/ Return

Spec == Init /\ [][Next]_vars

-----------------------------------------------------------------------------
(* A write that is verified and returns is in the flash, whatever the requests
   it is made of came to (device.cpp:54-66, 81-95, motor.cpp:244-280). *)
VerifiedIsStored ==
  call.method \in Verified /\ result.kind = "done" =>
    flash = call.arg

(* resolve_fisheye: what the unit has is used if it can be, and the reference
   values exactly when there is nothing to be had. *)
FallbackIsNeeded ==
  call.method = "resolve_fisheye" =>
    /\ result.kind = "value" => result.value = flash /\ result.value \in Values
    /\ result.kind = "fallback" => refused \/ flash \notin Values

(* A call that goes by the error's code, or whose value is more than a byte,
   does not return as if it had been served when it was refused. *)
RefusalsAreTold ==
  /\ refused
  /\ \A i \in DOMAIN StepsOf(call.method) :
       LET r == StepsOf(call.method)[i] IN r \in ByErrorCode \/ ~Takes(r, 1)
  => result.kind \notin {"value", "done"}

(* calibration.hpp:19-23: a calibration that was never written is "an expected
   state, not an error". *)
NotSetIsNoError ==
  call.method \in Calibrations /\ result.kind = "error" => result.value # "CalNotSet"
=============================================================================
