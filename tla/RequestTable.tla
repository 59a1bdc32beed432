---------------------------- MODULE RequestTable ----------------------------
(***************************************************************************)
(* The requests of Device, Calibration, Motor, Encoder, Led and            *)
(* Diagnostics (components/*.cpp) and what their callers look at in an     *)
(* answer: the data Requests runs on.                                      *)
(***************************************************************************)
EXTENDS Payloads

(* The requests of each component.  A row is what the request does to which
   record; the lengths of an answer it takes for a value; and how it tells an
   error: by ack_error_code, for which an answer of one byte that is not 0 is
   one ("code"), or by is_nack, which send_cmd has thrown by then ("nack"). *)

Lengths == {1, 2, 4, 5, 8, 16, 17, 20, 28, 31, 33, 36, 40, 48, 64, 72}
AtLeast(n) == {len \in Lengths : len >= n}
Exactly(layout) == {len \in Lengths : pod_from_bytes(layout, len)}
Body(layout) == {len \in Lengths : cal_read_body(layout, len)}

Row(does, about, takes, errors) ==
  [does |-> does, record |-> about, takes |-> takes, errors |-> errors]
Read(about, takes, errors) == Row("reads", about, takes, errors)
Write(about, errors) == Row("writes", about, Lengths, errors)

DeviceRequests ==
  [heartbeat |-> Read("uptime", AtLeast(8), "code"),
   reset |-> Write("uptime", "code"),
   get_sn |-> Read("sn", {len \in Lengths : decode_sn(len)}, "code"),
   write_sn |-> Write("sn", "code"),
   get_device_type |-> Read("type", {len \in Lengths : decode_dev_type(len)}, "nack"),
   write_device_type |-> Write("type", "code")]

CalibrationRequests ==
  [read_fisheye |-> Read("fisheye", Body(CameraFisheyeCal), "code"),
   write_fisheye |-> Write("fisheye", "code"),
   read_encoder_max_rad |-> Read("max_rad", Body(Floats(1)), "code"),
   write_encoder_max_rad |-> Write("max_rad", "code")]

MotorCommands ==
  [enable |-> Write("enabled", "nack"),
   disable |-> Write("enabled", "nack"),
   clear_fault |-> Write("fault", "nack"),
   set_position |-> Write("target", "nack"),
   set_velocity |-> Write("target", "nack"),
   set_torque |-> Write("target", "nack"),
   set_impedance |-> Write("target", "nack")]

MotorStatusRequests ==
  [read_status |-> Read("status", {len \in Lengths : decode_motor_status_ext(len)}, "nack"),
   read_status_ext |-> Read("status", {len \in Lengths : decode_motor_status_ext(len)}, "nack"),
   fault_report |-> Read("fault", Exactly(MotorFaultReport), "nack")]

MotorModelRequests ==
  [get_model |-> Read("model", AtLeast(Size(MotorModel)), "nack"),
   set_model |-> Write("model", "nack")]

MotorVersionRequests ==
  [motor_version |-> Read("fw_version", AtLeast(Size(MotorVersion)), "code"),
   set_motor_fw_version |->
     Row("writes", "fw_version", AtLeast(Size(MotorFwVersionRecord)), "code")]

MotorRelayRequests ==
  [can_ext_xfer |-> Row("writes", "bus", AtLeast(Size(MotorCanXferResp)), "code")]

MotorSettings ==
  [set_zero |-> Write("angle", "nack"),
   get_can_id |-> Read("can_id", {len \in Lengths : decode_dev_type(len)}, "nack"),
   set_can_id |-> Write("can_id", "nack"),
   switch_protocol |-> Write("protocol", "nack"),
   get_protocol |-> Read("protocol", {len \in Lengths : decode_dev_type(len)}, "nack"),
   get_private_param |-> Read("param", Exactly(MotorPrivateParam), "nack"),
   set_private_param |-> Write("param", "nack")]

MotorLimits ==
  [control_stats |-> Read("stats", Exactly(MotorControlStats), "nack"),
   set_startup_limit_torque |-> Write("limit", "nack"),
   get_startup_limit_torque |-> Read("limit", AtLeast(4), "nack"),
   get_spec |-> Read("spec", AtLeast(Size(MotorSpec)), "nack")]

EncoderRead == [read_once |-> Read("angle", Exactly(EncoderData), "nack")]
EncoderZero == [set_encoder_zero |-> Write("angle", "nack")]

LedRequests == [set_led |-> Write("led", "nack"), set_effect |-> Write("led", "nack")]

DiagnosticsRequests ==
  [uart_stats |-> Read("uart", {len \in Lengths : decode_uart_stats(len)}, "nack"),
   uart_rx_errors |-> Read("uart", {len \in Lengths : decode_uart_rx_errors(len)}, "code"),
   set_log_config |-> Row("writes", "log", Exactly(LogConfig), "nack")]

(* No request is in two of them. *)
Tables ==
  {DeviceRequests, CalibrationRequests, MotorCommands, MotorStatusRequests,
   MotorModelRequests, MotorVersionRequests, MotorRelayRequests, MotorSettings,
   MotorLimits, EncoderRead, EncoderZero, LedRequests, DiagnosticsRequests}

Table ==
  [r \in UNION {DOMAIN t : t \in Tables} |-> (CHOOSE t \in Tables : r \in DOMAIN t)[r]]

(* The calls that are more than their request. *)
Composed ==
  [set_sn |-> <<"get_sn", "write_sn", "get_sn">>,
   set_device_type |-> <<"write_device_type", "get_device_type">>,
   resolve_fisheye |-> <<"read_fisheye">>]

(* The commands older firmware does not have. *)
Newer ==
  {"read_fisheye", "write_fisheye", "read_encoder_max_rad", "write_encoder_max_rad",
   "motor_version", "set_motor_fw_version", "get_model", "set_model", "get_spec",
   "read_status_ext", "fault_report", "can_ext_xfer", "set_startup_limit_torque",
   "get_startup_limit_torque"}

=============================================================================
