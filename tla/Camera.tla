------------------------------- MODULE Camera -------------------------------
(***************************************************************************)
(* The wrist camera (components/camera.cpp): frames are either polled with *)
(* read() or streamed by a capture thread that start() spawns and stop()   *)
(* joins.  `running_` is the one atomic both sides go by; the thread       *)
(* handle and the OpenCV device behind it have no lock that covers both,   *)
(* so one thread of the program has to own start() and stop().             *)
(*                                                                         *)
(* A call is split where another thread can get in between: at the atomic  *)
(* exchange of running_, at the lock, and while the device is read.  The   *)
(* pixels (rectification, colour order) are abstracted away.               *)
(***************************************************************************)
EXTENDS Naturals, FiniteSets

CONSTANTS
    Owners,         \* threads of the program that start and stop the stream
    Pollers,        \* threads that poll frames with read()
    MaxStarts       \* bound: capture threads spawned

VARIABLES
    running,        \* running_
    worker,         \* worker_: 0, or the number of the thread it holds
    spawned,        \* capture threads spawned so far
    loop,           \* where each of them is in capture_loop_
    op,             \* where each caller is
    cap_mu          \* the caller that holds cap_mu_, or "free"

vars == <<running, worker, spawned, loop, op, cap_mu>>

Callers == Owners \union Pollers
Threads == 1..MaxStarts

Init ==
    /\ running = FALSE /\ worker = 0 /\ spawned = 0
    /\ loop = [n \in Threads |-> "unborn"]
    /\ op = [c \in Callers |-> "idle"]
    /\ cap_mu = "free"

Goes(c, stage) == op' = [op EXCEPT ![c] = stage]

(***************************************************************************)
(* read(): refused while the capture thread owns the device, then under    *)
(* cap_mu_ -- which capture_loop_ never takes.                             *)
(***************************************************************************)
ReadRefused == running

ReadEnter(c) ==
    /\ op[c] = "idle" /\ ~ReadRefused
    /\ Goes(c, "locking")
    /\ UNCHANGED <<running, worker, spawned, loop, cap_mu>>

ReadBegin(c) ==
    /\ op[c] = "locking" /\ cap_mu = "free"
    /\ cap_mu' = c
    /\ Goes(c, "reading")
    /\ UNCHANGED <<running, worker, spawned, loop>>

ReadEnd(c) ==
    /\ op[c] = "reading"
    /\ cap_mu' = "free"
    /\ Goes(c, "idle")
    /\ UNCHANGED <<running, worker, spawned, loop>>

\* start(): idempotent by running_.exchange(true); the handle is assigned
\* after it.
StartEnter(c) ==
    /\ op[c] = "idle" /\ ~running /\ spawned < MaxStarts
    /\ running' = TRUE
    /\ Goes(c, "spawning")
    /\ UNCHANGED <<worker, spawned, loop, cap_mu>>

Spawn(c) ==
    /\ op[c] = "spawning"
    /\ spawned' = spawned + 1
    /\ worker' = spawned'
    /\ loop' = [loop EXCEPT ![spawned'] = "check"]
    /\ Goes(c, "idle")
    /\ UNCHANGED <<running, cap_mu>>

\* stop(): running_.exchange(false), then the join.
StopEnter(c) ==
    /\ op[c] = "idle" /\ running
    /\ running' = FALSE
    /\ Goes(c, "joining")
    /\ UNCHANGED <<worker, spawned, loop, cap_mu>>

JoinedAtOnce == TRUE               \* a stop() that does not wait

Joined == worker # 0 => loop[worker] = "done"

Join(c) ==
    /\ op[c] = "joining" /\ Joined
    /\ worker' = 0
    /\ Goes(c, "idle")
    /\ UNCHANGED <<running, spawned, loop, cap_mu>>

\* capture_loop_: one pass reads the device and calls back; a failed grab
\* goes round again.
LoopGoes(n, from, to) ==
    /\ loop[n] = from
    /\ loop' = [loop EXCEPT ![n] = to]
    /\ UNCHANGED <<running, worker, spawned, op, cap_mu>>

Grab(n)     == running /\ LoopGoes(n, "check", "reading")
Leave(n)    == ~running /\ LoopGoes(n, "check", "done")
Deliver(n)  == LoopGoes(n, "reading", "callback")
Fail(n)     == LoopGoes(n, "reading", "check")
Returned(n) == LoopGoes(n, "callback", "check")

CaptureLoop(n) == Grab(n) \/ Leave(n) \/ Deliver(n) \/ Fail(n) \/ Returned(n)

Next ==
    \/ \E c \in Pollers : ReadEnter(c) \/ ReadBegin(c) \/ ReadEnd(c)
    \/ \E c \in Owners : StartEnter(c) \/ Spawn(c) \/ StopEnter(c) \/ Join(c)
    \/ \E n \in Threads : CaptureLoop(n)

Spec == Init /\ [][Next]_vars

-----------------------------------------------------------------------------
\* One thread at a time is inside cv::VideoCapture::read, which is not
\* reentrant: a poll and the capture thread, or two capture threads, never
\* share the device (camera.cpp:93-94, "disallow concurrent direct reads").
DeviceHasOneReader ==
    LET polls  == {c \in Callers : op[c] = "reading"}
        grabs  == {n \in Threads : loop[n] = "reading"}
    IN  Cardinality(polls) + Cardinality(grabs) <= 1

\* Once stop() has returned, every capture thread has ended: no callback runs
\* after it, and no thread handle is left that the next start() would assign
\* over, which ends the process (camera.cpp:111-119).
StopEndsCapture ==
    /\ ~running /\ (\A c \in Owners : op[c] = "idle")
          => worker = 0 /\ \A n \in Threads : loop[n] \in {"unborn", "done"}
    /\ \A c \in Owners : op[c] = "spawning" => worker = 0
=============================================================================
