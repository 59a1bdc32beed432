---------------------------- MODULE GilCallbacks ----------------------------
(***************************************************************************)
(* The Python bindings' side of a gripper or a Transport (python/bindings):*)
(* which calls give the interpreter lock (GIL) up while they run, how a    *)
(* worker thread (the dispatcher of transport.cpp, the capture thread of   *)
(* camera.cpp) enters a Python callback, how the callback object is freed, *)
(* and what becomes of all this when the interpreter finalizes.            *)
(*                                                                         *)
(* One object with one worker and one Python callback.  CPython and        *)
(* pybind11 are modelled from how the bindings use them: a Python thread   *)
(* runs only with the GIL, a destructor run by the garbage collector keeps *)
(* it, and a foreign thread that asks for it after finalization began is   *)
(* ended on the spot, which aborts the process.                            *)
(***************************************************************************)
EXTENDS Naturals, Functions

CONSTANTS
    Pythons,        \* Python threads of the program
    Main,           \* the one that finalizes the interpreter
    Careful,        \* TRUE: the object is closed before it is dropped
                    \*       and before the interpreter finalizes
    MaxFrames,      \* bound: frames the worker fans out
    None            \* nobody

VARIABLES
    gil,            \* who holds it
    interp,         \* "alive" or "gone": what interpreter_gone() sees
    call,           \* the kind of the binding each Python thread called
    stage,          \* "python", "in" (C++), "clear" (freeing), "back"
    worker,         \* where the worker thread is
    stopping,       \* stop_requested_
    object,         \* "open", "stopped" or "dropped"
    subscribed,     \* subs_ holds the callback
    copied,         \* so does the worker's snapshot (handle_data_)
    function,       \* the Python function: "none" "live" "freed" "leaked"
    frames,
    aborted

vars == <<gil, interp, call, stage, worker, stopping, object, subscribed,
          copied, function, frames, aborted>>

(***************************************************************************)
(* The bindings, class by class: whether one gives the lock up             *)
(* (py::gil_scoped_release at its head), whether it waits for the worker   *)
(* to end, and what it does to the callback.  A request waits for an       *)
(* answer, which the reader thread resolves without Python; a controller   *)
(* joins its own thread, which never enters Python.                        *)
(***************************************************************************)
Kind(releases, joins, does) ==
    [releases |-> releases, joins |-> joins, does |-> does]

Request     == Kind(TRUE, FALSE, "nothing")
HeldRequest == Kind(FALSE, FALSE, "nothing")
Subscribe   == Kind(FALSE, FALSE, "subscribe")
Unsubscribe == Kind(FALSE, FALSE, "unsubscribe")
Stop        == Kind(TRUE, TRUE, "stop")
Drop        == Kind(FALSE, TRUE, "drop")      \* a destructor releases nothing

Are(names, kind) == [n \in names |-> kind]
All(names) == Are(names, Request)

TransportBindings ==
    {All({"open", "send_cmd", "send_cmd_no_ack"}), Are({"subscribe"}, Subscribe),
     Are({"unsubscribe"}, Unsubscribe), Are({"stop", "close", "exit"}, Stop),
     Are({"del"}, Drop)}

SerialBusBindings ==
    {Are({"open", "read", "write", "flush_input", "flush_output", "list_ports"},
              HeldRequest)}

DiscoveryBindings ==
    {All({"scan_grippers", "find_one", "find_left", "find_right", "find_leader",
              "find_follower"})}

LeaderBindings ==
    {All({"open", "start_streaming", "start_exchange", "stop_streaming", "position",
              "pos_to_rad", "rad_to_pos", "position_map", "reload_position_map"}),
     Are({"close", "exit"}, Stop), Are({"del"}, Drop)}

FollowerStreamBindings ==
    {All({"open", "start_streaming", "start_exchange", "stop_streaming"})}

FollowerConfigBindings ==
    {All({"get_gripper_config", "set_gripper_config", "get_envelope", "set_envelope",
              "home_diag", "audit_envelope", "ensure_envelope",
              "get_auto_cal_config", "set_auto_cal_config",
              "set_auto_cal_stall_param"})}

FollowerBindings ==
    {All({"position", "pos_to_rad", "rad_to_pos", "position_map", "reload_config"}),
     Are({"close", "exit"}, Stop), Are({"del"}, Drop)}

MotorBindings ==
    {All({"enable", "disable", "clear_fault", "set_position", "set_velocity",
              "set_torque", "set_impedance", "submit_impedance", "submit_position",
              "submit_velocity", "submit_torque", "read_status"}),
     Are({"on_status"}, Subscribe), Are({"off"}, Unsubscribe)}

MotorAdminBindings ==
    {All({"set_zero", "get_can_id", "set_can_id", "switch_protocol", "get_protocol",
              "get_private_param", "set_private_param", "delivery_snapshot",
              "control_stats", "read_status_ext", "fault_report", "get_model",
              "set_model", "motor_version"})}

MotorFirmwareBindings ==
    {All({"set_motor_fw_version", "can_ext_xfer", "set_startup_limit_torque",
              "get_spec", "get_startup_limit_torque"})}

EncoderBindings ==
    {All({"read_once", "set_zero"}), Are({"on_data"}, Subscribe),
     Are({"off"}, Unsubscribe)}

ImuBindings ==
    {All({"read_once", "calibrate_accel_gyro", "set_mag_calibration",
              "start_mag_calibration", "stop_mag_calibration"}),
     Are({"on_data"}, Subscribe), Are({"off"}, Unsubscribe)}

KeyBindings ==
    {Are({"on_event"}, Subscribe), Are({"off"}, Unsubscribe)}

SensorErrorsBindings ==
    {Are({"on_report"}, Subscribe), Are({"off"}, Unsubscribe)}

LedBindings ==
    {All({"set", "off", "effect", "effect_off"})}

DiagnosticsBindings ==
    {All({"uart_rx_errors", "uart_stats", "set_log_config", "disable_logging"})}

DeviceBindings ==
    {All({"heartbeat", "reset", "get_sn", "set_sn", "get_device_type",
              "set_device_type"})}

CalibrationBindings ==
    {All({"read_fisheye", "resolve_fisheye", "write_fisheye", "read_encoder_max_rad",
              "write_encoder_max_rad"})}

ImpedanceBindings ==
    {All({"start", "stop", "set_target", "set_gains", "reset", "state", "snapshot",
              "enter", "exit"}), Are({"del"}, HeldRequest)}

ForcePositionBindings ==
    {All({"start", "stop", "release", "set_target", "hold_position", "reset",
              "snapshot", "enter", "exit"}), Are({"del"}, HeldRequest)}

OtaBindings ==
    {All({"update_from_file", "update_from_bytes", "get_status", "abort"})}

MotorOtaBindings ==
    {All({"preflight", "read_uid", "update_from_file", "update_from_bytes"})}

CameraBindings ==
    {All({"read", "set_undistorter"}), Are({"start"}, Subscribe), Are({"stop"}, Stop),
     Are({"del"}, Drop)}

BoundCalls ==
    UNION {Range(table) : table \in UNION
      {TransportBindings, SerialBusBindings, DiscoveryBindings, LeaderBindings,
       FollowerStreamBindings, FollowerConfigBindings, FollowerBindings,
       MotorBindings, MotorAdminBindings, MotorFirmwareBindings, EncoderBindings,
       ImuBindings, KeyBindings, SensorErrorsBindings, LedBindings,
       DiagnosticsBindings, DeviceBindings, CalibrationBindings,
       ImpedanceBindings, ForcePositionBindings, OtaBindings, MotorOtaBindings,
       CameraBindings}}

KeepsToJoin(k) == k.releases /\ ~k.joins     \* a stop() that keeps the lock

Releases(k) == k.releases

JoinsNothing(k) == FALSE                     \* a stop() that detaches the worker

JoinsWorker(k) == k.joins

Worker == "worker"
Gone   == interp = "gone"
InCall(t) == stage[t] # "python"

Init ==
    /\ gil = None /\ interp = "alive"
    /\ call = [t \in Pythons |-> HeldRequest]
    /\ stage = [t \in Pythons |-> "python"]
    /\ worker = "idle" /\ stopping = FALSE /\ object = "open"
    /\ subscribed = FALSE /\ copied = FALSE /\ function = "none"
    /\ frames = 0 /\ aborted = FALSE

\* What the program may call: one callback in all, nothing on an object that
\* is gone, and the last reference goes when no other call is under way.
Allowed(t, k) ==
    /\ object # "dropped"
    /\ k.does = "subscribe"   => object = "open" /\ function = "none"
    /\ k.does = "unsubscribe" => subscribed
    /\ k.does = "drop"        => /\ \A u \in Pythons \ {t} : ~InCall(u)
                                 /\ Careful => object = "stopped"

Enter(t, k) ==
    /\ gil = t /\ stage[t] = "python" /\ Allowed(t, k)
    /\ call' = [call EXCEPT ![t] = k]
    /\ stage' = [stage EXCEPT ![t] = "in"]
    /\ gil' = IF Releases(k) THEN None ELSE gil
    /\ stopping' = (stopping \/ JoinsWorker(k))
    /\ UNCHANGED <<interp, worker, object, subscribed, copied, function,
                   frames, aborted>>

\* Whoever lets the last reference go runs the deleter of
\* make_gil_safe_callback: a leak once the interpreter is gone, else the
\* decref under the lock (re-entrant for a thread that has it).
FreeAnyway(t) == TRUE                   \* a bare shared_ptr

CanFree(t)  == Gone \/ gil \in {None, t}
AfterFree   == IF function # "live" THEN function
               ELSE IF Gone THEN "leaked" ELSE "freed"

\* The C++ part of t's call is over: what it did, and what is left to free.
Work(t) ==
    LET does   == call[t].does
        clears == does \in {"stop", "drop", "unsubscribe"}
    IN  /\ stage[t] = "in"
        /\ JoinsWorker(call[t]) => worker = "ended"
        /\ subscribed' = ((subscribed \/ does = "subscribe") /\ ~clears)
        /\ function' = IF does = "subscribe" THEN "live" ELSE function
        /\ object' = IF does = "drop" THEN "dropped"
                     ELSE IF does = "stop" THEN "stopped" ELSE object
        /\ stage' = [stage EXCEPT ![t] =
                        IF clears /\ subscribed /\ ~copied THEN "clear"
                        ELSE "back"]
        /\ UNCHANGED <<gil, interp, call, worker, stopping, copied, frames,
                       aborted>>

Clear(t) ==
    /\ stage[t] = "clear" /\ CanFree(t)
    /\ function' = AfterFree
    /\ stage' = [stage EXCEPT ![t] = "back"]
    /\ UNCHANGED <<gil, interp, call, worker, stopping, object, subscribed,
                   copied, frames, aborted>>

\* Back in Python: the scoped release takes the lock again.
Return(t) ==
    /\ stage[t] = "back" /\ gil \in {None, t}
    /\ ~Gone
    /\ gil' = t
    /\ stage' = [stage EXCEPT ![t] = "python"]
    /\ call' = [call EXCEPT ![t] = HeldRequest]
    /\ UNCHANGED <<interp, worker, stopping, object, subscribed, copied,
                   function, frames, aborted>>

\* CPython: a thread running Python takes the lock, and hands it over.
Take(t) ==
    /\ gil = None /\ stage[t] = "python" /\ ~Gone
    /\ gil' = t
    /\ UNCHANGED <<interp, call, stage, worker, stopping, object, subscribed,
                   copied, function, frames, aborted>>

Yield(t) ==
    /\ gil = t /\ stage[t] = "python" /\ ~Gone
    /\ gil' = None
    /\ UNCHANGED <<interp, call, stage, worker, stopping, object, subscribed,
                   copied, function, frames, aborted>>

\* Py_Finalize: from here on only Main holds the lock, for ever.
Finalize ==
    /\ gil = Main /\ ~Gone
    /\ \A t \in Pythons : ~InCall(t)
    /\ Careful => object # "open"
    /\ interp' = "gone"
    /\ UNCHANGED <<gil, call, stage, worker, stopping, object, subscribed,
                   copied, function, frames, aborted>>

(***************************************************************************)
(* The worker: dispatch_loop_ and handle_data_ around call_into_python.    *)
(***************************************************************************)
WorkerGoes(from, to) == worker = from /\ worker' = to

\* The snapshot of subs_ for one frame; shutdown beats drain.
Snapshot ==
    /\ WorkerGoes("idle", "check")
    /\ ~stopping /\ subscribed /\ frames < MaxFrames
    /\ copied' = TRUE
    /\ frames' = frames + 1
    /\ UNCHANGED <<gil, interp, call, stage, stopping, object, subscribed,
                   function, aborted>>

\* call_into_python looks once, then asks for the lock.
Check ==
    /\ WorkerGoes("check", IF Gone THEN "release" ELSE "ask")
    /\ UNCHANGED <<gil, interp, call, stage, stopping, object, subscribed,
                   copied, function, frames, aborted>>

Ask ==
    /\ worker = "ask"
    /\ IF Gone
       THEN worker' = "ended" /\ aborted' = TRUE /\ UNCHANGED gil
       ELSE gil = None /\ gil' = Worker /\ worker' = "callback"
                       /\ UNCHANGED aborted
    /\ UNCHANGED <<interp, call, stage, stopping, object, subscribed, copied,
                   function, frames>>

CallbackReturns ==
    /\ WorkerGoes("callback", "release")
    /\ gil' = None
    /\ UNCHANGED <<interp, call, stage, stopping, object, subscribed, copied,
                   function, frames, aborted>>

\* The snapshot dies; with the last reference, so does the function.
Release ==
    /\ worker = "release"
    /\ \/ subscribed /\ UNCHANGED function
       \/ ~subscribed /\ CanFree(Worker) /\ function' = AfterFree
    /\ worker' = "idle"
    /\ copied' = FALSE
    /\ UNCHANGED <<gil, interp, call, stage, stopping, object, subscribed,
                   frames, aborted>>

End ==
    /\ WorkerGoes("idle", "ended")
    /\ stopping
    /\ UNCHANGED <<gil, interp, call, stage, stopping, object, subscribed,
                   copied, function, frames, aborted>>

Next ==
    \/ \E t \in Pythons :
          \/ \E k \in BoundCalls : Enter(t, k)
          \/ Work(t) \/ Clear(t) \/ Return(t) \/ Take(t) \/ Yield(t)
    \/ Finalize
    \/ Snapshot \/ Check \/ Ask \/ CallbackReturns \/ Release \/ End

Spec == Init /\ [][Next]_vars

-----------------------------------------------------------------------------
\* No thread waits for the worker with the lock in its hand while the worker
\* waits for the lock (gil_safe.hpp:54-60, module.cpp:458-470): every stop(),
\* close() and destructor gets to its end.
JoinsWithoutTheLock ==
    ~ \E t \in Pythons :
         /\ gil = t /\ stage[t] = "in" /\ JoinsWorker(call[t])
         /\ \/ worker = "ask" /\ ~Gone
            \/ worker = "release" /\ ~subscribed /\ ~Gone

\* No worker asks a finalized interpreter for its lock, which aborts the
\* process (gil_safe.hpp:33-42).
NeverAborted == ~aborted

\* The callback object is freed only by a thread that has the lock, or can
\* have it: a decref next to another thread's Python code corrupts the
\* interpreter (gil_safe.hpp:54-60, module.cpp:444-449).
FreesUnderTheLock ==
    function = "live" /\ function' = "freed"
      => gil = None \/ (gil # Worker /\ stage'[gil] # stage[gil])

FreedUnderTheLock == [][FreesUnderTheLock]_vars
=============================================================================
