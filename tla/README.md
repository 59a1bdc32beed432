# TLA+ verification of the TacCap gripper SDK

This directory models the C++ SDK (`src/cpp`) and its Python bindings: the
serial transport that every component talks through and its framing, the two
closed-loop motor controllers with their control laws, the polled and streamed
modes of both grippers, the firmware updates of the MCU and the motor, the
components' requests, the serial ports, the camera's thread and the
interpreter's lock. TLC checks the models on small instances. TLAPS proves, for every value of the
constants, the safety of the transport (requests and lanes), of the controllers'
shell, of their laws and of the exchange, that both firmware updates implement an atomic update,
that the IMU's valid times are right, and what the stream, the configuration, the ports, the
requests, the camera and the bindings promise. Only the parser, that a blocked jaw is gripped, and
what must eventually happen, are model-checked alone.

Run from this directory, for a run listed in `PROJECT.json`:

    tlc -workers 2 -config TransportRequests.cfg MCTransportRequests
    tlapm TransportRequestsProofs.tla

and so for TransportLanesProofs, MotorControllerProofs, ExchangeProofs,
OtaSessionProofs, MotorOtaProofs, FramesProofs and DeviceProofs.

## 1. The system

    application threads, Python
      |  Motor, Imu, Encoder, Calibration, OtaSession ...   one request per call
      |  ForcePositionController / ImpedanceController       worker thread each
      |  FollowerExchange / LeaderExchange                    worker, polled mode
      v
    bus::Transport
      send_cmd -> reserve seq, promise, (turn), write, wait, retry
      reader thread --ACK--> handle_ack_ -> promise
                    --DATA-> control queue -> control worker -> controllers
                             data queue    -> dispatch worker -> user callbacks
      v
    SerialBus, USB-CDC, MCU

| Component | State | Operations | Hard behaviours | What makes it correct |
|---|---|---|---|---|
| Transport, requests (`bus/transport.cpp`) | `next_seq_`, `reserved_seqs_`, `pending_acks_`, half-duplex turn, `running_`, reader | `send_cmd` in three retry modes, `send_cmd_no_ack`, `handle_ack_`, `fail_pending_`, `stop`, `set_half_duplex` | many callers, one reader; answers late, lost, in a short form; retries; the reader dying at any point | an answer reaches its own request; no number is shared or leaked; nobody waits on a dead link |
| Transport, lanes (`bus/transport.cpp`) | two bounded queues, `control_failed_`, two workers, two kinds of subscription, drop counters | `enqueue_data_`, `enqueue_control_`, `inject_data`, `subscribe`, `subscribe_control_`, their inverses, `stop` | overflow, unsubscribe against a running callback, lost wake-ups, stuck user callbacks | losses counted and never hidden from a controller; no callback after its owner is gone; stop returns |
| Force and impedance controllers | `running_`, `stop_requested_`, `latest_`, `pending_status_fault_`, `feedback_epoch_`, `queue_`, `observation_`, the policy | `start`, `stop`, `on_status_`, `run_`, `set_target`, `release`, `hold_position`, `reset` | four threads around one mutex; commands written outside it; late and re-ordered samples; restart | motion ends with fault evidence or a stale stream; targets are the newest; a stopped motor is quiet |
| Policies (`ForcePositionPolicy`, `ImpedancePolicy`) | fault state, target, ramp, grasp latch, torque guard | `reset`, `step`, `fail`, `set_target` | latching, arithmetic | Fault latches; the output is zero in Fault |
| FollowerExchange | mailbox of the latest command, `link_down`, statistics | `submit`, worker loop, `stop` | submit against exit, resend against newer command | a newer command is never replaced by an older one |
| LeaderExchange | worker, tick, continuation count, statistics | poll, continuation while the MCU has a backlog, rearm, `stop` | rearm outside the mutex against stop; a link that dies in a poll | backlog drained without starving the tick; stop leaves nothing armed |
| OtaSession, MotorOtaSession | offset, or pack cursor and resume count | start, blocks or packs, verify, apply or end, abort; resume and rewind | lost, late and cut answers; a device that fails half way; a callback that throws | success only of the image that runs; a failed update does not bar the next; the call returns |
| Frame parser (`bus/frame.cpp`) | receive buffer, ready frames, trace ring, counters | `pack_frame`, `feed`, `try_pop`, `reset`, trace control | noise, damage, pieces of any length, the buffer's bound | every undamaged frame, once, in order; every byte accounted for |
| FollowerGripper, LeaderGripper | transport, exchange, streaming flags, position map | open, close, start and stop of streams and of the exchange, `set_gripper_config`, `ensure_envelope` | each is several requests, any of which may be refused, lost, or carried out and its answer lost | what the object says agrees with what the MCU does, unless it was told otherwise |
| Motor | submission router, status cache, stray-fault filter | commands, requests, subscriptions | router copied, then called; two forms of error answer | refused is not taken for done |
| Imu | a time line per reader | `read_once`, `on_data`, negotiation of the format | a legacy clock of 32 bits that wraps, reboots, late frames | a time called valid is right |
| Encoder, Calibration, Key, Led, Diagnostics, SensorErrors, Device | a cached sample at most | one request each, or a few in a row | the two forms of an error; older firmware with shorter payloads | a verified write is in the flash |
| SerialBus, discovery | descriptor, lock, exclusive mode; what a scan found | open, move, close; `scan_all`, `find_*` | other handles and other programs between two system calls; crashes | a scan never disturbs a gripper, and notes what is in use |
| Camera | `running_`, thread handle, `cap_mu_` | `read`, `start`, `stop` | capture thread against stop and polls | no callback after stop |
| Python bindings | the interpreter's lock, callbacks | every bound call | callbacks on foreign threads, joins, finalization | no join with the lock in hand, no abort, frees under the lock |
| Codec and payloads | | byte layouts | lengths of several firmware ages | see Payloads |
| Log, monotonic condition variable, drift check, image geometry | | | | out of scope, section 7 |

`PROJECT.json` lists every component with its status and, under `hazards`, the
places where this code is hard to test and the properties that cover them.

## 2. The modules

**TransportRequests** -- `send_cmd()` and everything that touches its promise.
One action is one critical section of `pending_mu_`, one wait, one write, or one
move of the reader. `pc[s]` says where a calling thread is: `reserve` (about to
take `pending_mu_`), `turn` (half-duplex mutex), `write`, `wait` (on the future),
`expire` (timed out, entry not taken back yet), `sleep` (before the next
attempt), `finish` (about to `release()`). `pending` is `pending_acks_` with the
promise represented by the thread that waits for it; `hand` is the promise the
reader has moved out of the map and not resolved yet; `fut` is the future. A
thread whose wait timed out while the reader holds its promise is therefore a
state of the model (`DropFuture` then turns the late resolution into a no-op).
The MCU may answer each request in the echoed or in either short form, in any
order; frames may be lost on both ways and stay under way after the caller gave
up.

*One assumption about the link* (`Forget`): when the allocator draws a sequence
number again, no frame of the number's earlier use is still under way. The code
relies on it too: 256 numbers lie between two uses unless slots are reserved,
and `handle_ack_` matches nothing but number and command byte. A retry that keeps
its number (`SameSeq`) is not covered by the assumption, and needs none: its
late answers are answers to the same request.

**TransportLanes** -- the receive side. A frame is its index in the sequence of
received frames, which is also its time stamp (the control subscriptions compare
`Frame::received_at` with `since`). A worker goes through `check` (predicate
under the lane's mutex), `parking` (predicate false, mutex still held),
`parked` (blocked), `fan` (a frame in hand), `hits` (callbacks copied), `call`
(in a callback). The `parking` step is what makes a lost notification possible
at all, and the lock in `join_workers_` what prevents it. Producers are the
reader and, in exchange mode, the thread that calls `inject_data`. `log`, `called`,
`missed`, `enq` and `published` are history: what each subscriber was given, what
became of every frame, and the last frame received when a controller's subscription
was published.

**MotorController** -- the shell that the two controllers share almost line by
line; `kind` selects the places where they differ (targets queued or written at
once, observation invalidated by stop or not). `phase` follows the owner's
thread through `start()` and `stop()`. A sample is the clock value at which the
transport stamped it, and whether it is a fault by `status_fault_reason`; `lane`
holds the samples stamped and not delivered, in any order (two producers may
interleave between stamp and delivery, and `on_status_` has a check for it). A
command is *motion towards a target* or *zero*: the laws themselves, their torque
limits and the torque-capped hold of the impedance law, are behind that bit.
`wire` is the last command written. `blind` counts motion commands written on
known-bad or stale evidence, the quantity `FaultStopsMotion` bounds.
Submission is `Motor::send_mit` directly on the transport; a controller in
exchange mode hands over to a mailbox instead, which belongs to Exchange.

**Exchange** -- the polled mode of both grippers, `kind` selecting which. `owner`
follows the thread in `start_exchange()` and `stop_streaming()`: StopStream
(`quieting`), the leader's probe (`probing`), StartStream (`arming`), the
fall-back to `start_streaming()` (`starting`), then `routing`, `on`, and back
through `stopping`, `joining`, `joined`, `hushing`. `worker` is `run_()` of
FollowerExchange or LeaderExchange: `wait` for tick, target or stop; `write` and
`await` inside `send_cmd`; `fold` with the outcome in hand; `rearm` (leader, mutex
released). `caller` is a thread in `Motor::submit_()`: it copies the router, then
hands its target to the mailbox (`copied`) or writes it itself, with the
half-duplex turn (`turn`) or without (`bare`). Targets are numbered as they are
submitted, records as the MCU hands them out; a poll keeps its number through its
retries (exact matching of answers is what TransportRequests establishes, so the
number is not reused here), and the MCU answers a repeated poll from its cache,
as the fake devices of the tests do. `via` remembers to which running exchange
a record was handed out. A leader's continuation differs from a tick in time only,
and is the same step; malformed replies are left out. `send_cmd` accepts, between two
attempts of one number, a reply that the model takes for a stray; it then comes again
with the retry.

**AtomicUpdate, OtaSession, MotorOta** -- AtomicUpdate is what a firmware update
promises its caller: the device runs one whole image that was offered to it (or,
for the motor, none while it is being written); success is reported only of the
image that runs; a failure says nothing. OtaSession is `update_from_bytes()` step
by step over the transport's SameSeq retries: one request under way, requests and
answers lost or late, an MCU that caches its last answer, fails to write or loses
its power, and an OtaAbort after a failure. MotorOta is the pack loop: a reply is
matched by kind of frame and not by pack, so a late one is taken for the next;
the motor answers with an index to resume from; indices are sent modulo
`IndexRange`, as the code casts them to 16 bits. Both modules end with the
refinement mapping (`Caller == INSTANCE AtomicUpdate WITH ...`). The devices'
handlers are actions of their own, one per command or frame: the bank swap is
counted from the answer to OtaApply, and the motor has no image between its start
and end frames.

**FrameParser** -- `pack_frame`, `try_parse_frame` and the whole of `FrameParser`,
its trace ring included. A byte is a number below 8, three of them special; the
CRC is ideal (a symbol that holds its region), so damage is always seen. The
reference decoder `FramesIn` says which frames a byte stream contains, without
a buffer, and the parser's output is compared with it.

**Imu** -- a device that counts legacy time modulo `Width` or sends 64 bits and a
boot's nonce, a line that delays frames, and the `Timeline` of a reader. `truth`
remembers where the first sample of the reader was taken.

**ForcePositionLaw, ImpedanceLaw** -- the two policies, frame by frame, with
angles, torques and gains as integers and a frame as the unit of time. The jaw
moves as it likes or is blocked for good; in ImpedanceLaw the motor does what it was
told last. MotorController abstracts these laws to one bit, they say what is behind it.

**GripperStream** -- opening, starting, stopping and closing a gripper as one call
each (the classes are not made for two threads), a call being a set of commands
each *done*, *refused*, *lost* or *unanswered* (carried out, its answer lost).
`doubt` is true from a command about the stream that was left unanswered or not
told until the next that is carried out. **GripperConfig** -- the position map
cached from the device's record, `set_gripper_config()`, and the audit and repair
of the torque envelope. `behind` marks the one case in which the map may be
stale: the record was written behind the object's back or by an unanswered write.

**Ports** -- every system call of SerialBus's constructor and `close_()` a step, the
kernel's lock and exclusive mode, other handles and a program that knows no lock,
and `scan_all()` port by port.

**Payloads, RequestTable, Requests** -- the length of every payload and of what the
decoders take (the assumptions of Payloads are the header's `static_assert`s and the
rules by which lengths tell firmware ages apart); one row per request of Device,
Calibration, Motor, Encoder, Led and Diagnostics: what it does to which record,
which lengths its caller takes for a value, and how it looks for an error; and
the run of a call over an answer that is good, a NACK, an answer of one byte of
error, or none.

**Camera** -- `read()`, `start()`, `stop()` and `capture_loop_()`, split at the atomic
exchange, the lock and the device. **GilCallbacks** -- which bound call releases the
interpreter's lock, which joins the worker; the worker entering Python; the
freeing of the function; finalization.

**Device** -- the eight parts that share no state (both updates, stream,
configuration, ports, requests, camera, bindings), each an instance of its module;
its constants are declared with the assumptions the proofs need. A behaviour picks
one part in its initial state (`part`) and the variables of the others stay as they
are, so a run costs the sum of its parts and not their product. A property of
Device speaks of the part it names.

**Frames** -- the parser, the IMU and the two laws, composed as Device composes its
parts and with the assumptions their proofs need: gains, rates and budgets as the
constructors take them, frames that are late by less than half of what a legacy time counts
(`ImuAssumption`), and a unit of angle that is fine enough for a ramp to stop within any budget
(`ResolutionAssumption`; the code's angles are real numbers, the model's are integers).

**TransportRequestsProofs, TransportLanesProofs, MotorControllerProofs,
ExchangeProofs, OtaSessionProofs, MotorOtaProofs, FramesProofs, DeviceProofs** --
theorems, see section 5.

`MCTransportRequests`, `MCTransportLanes`, `MCFrames` and `MCDevice` supply constants, and
symmetry where it is sound. MCLanes extends TransportLanes: a behaviour is one of its
data lane or of its control lane (`lane`).

In each module a definition whose comment begins with "Mutant" is used by
nothing else. It replaces the definition below it in a deliberately wrong model, and the
property named with it in `PROJECT.json` must then fail.

## 3. The runs

| Run | Question | Instance |
|---|---|---|
| TransportRequests | Do numbers, promises, turn and answers stay with their call, and can everything block? (deadlock checked) | 2 callers, 2 numbers, 1 retry, NewSeq and SameSeq calls, 1 frame under way per direction |
| TransportRequestsLive | Does every call end, does stop() return? | 2 callers, 1 number, SameSeq, Once and no-ACK calls |
| Lanes | Is unsubscribe() late by one call at most, are losses counted once and never hidden from a controller, do callbacks end with the subscription and with stop(), and is a producer or stop() ever held up? | data lane: 2 producers, depth 1, 1 user, 2 frames of 2 kinds; control lane: depth 1, 1 controller, 3 frames |
| LanesLive | Does a stuck user callback delay the control lane? Does unsubscribe_control_() return? | depth 1, 1 user, 1 controller |
| LanesReaderFails (violation) | Does is_running() = false mean that no frame reaches a callback any more? | depth 1, 1 user |
| MotorController | Safety of both controllers through start, faults, stale streams, reset, stop, restart | clock to 3, timeout 2, 2 samples under way, 2 targets, queue 1 |
| MotorControllerLive | stop() returns, faults are answered, a dead stream invalidates | clock to 2, timeout 1, 1 target |
| ForceStopRetires (violation) | Does stop() of the force controller retire its observation? | force controller only |
| Exchange | Is the newest target kept and no answered one resent, is every record of a live exchange delivered once and in order, is a stopped MCU idle, do start and stop return? | both grippers, 2 sessions, 2 exchanges, 2 targets, 2 records, 1 retry, 1 frame per direction |
| ExchangeNacked (violation) | Are the exchanges counted as timeouts those without a reply? | follower only |
| Frames | Does the parser find every undamaged frame, are valid IMU times right, do the control laws bound torque and overload and grip what was asked for, and does a push above a lowered budget only fall? | 2 frames or noise, 1 damage, buffers of one frame and of less; time of width 16, 3 samples, 2 boots; 2 commands of a caller in each law; two grasp budgets, one below the preload and below what a push may have reached; 8 frames until a blocked jaw must be gripped |
| Device | Do both updates implement an atomic update, and is no sequence number drawn while something still bears it; do stream, configuration and answers agree with the device; do port, capture thread and interpreter lock have one owner? | 5 MCU and 2 motor updates, 2 faults each; 2 faults in a stream, configuration, port or request; 3 starts of the camera; 2 Python threads, 3 frames |

*Bounds and why they suffice.* Two callers and one or two numbers make every
conflict over a slot occur, including EBUSY and a slot given up by NewSeq and
drawn by the other caller; one retry reaches the timed-out attempt followed by a
fresh one. One frame per direction is enough for a stale answer to meet a newer
request, because the frame stays while the call retries. One-frame queues put
every enqueue at the limit; 3 frames are an overflow followed by a healthy
sample. In MotorController a clock of 3 with timeout 2 separates fresh, late and stale samples, and
two targets separate oldest from newest in a queue at its limit. In Exchange two sessions let a
caller hold the router of the first one, or a StartStream that came late, into the
second; two exchanges let the second reply of a retried poll meet another exchange,
and a target be resent or superseded. In Frames a
time of width 16 with steps of 1, 7 and 15 wraps in one step or several, and 3
samples are one before a wrap, one after it and one that is late; a second frame on
the wire is the one behind a damaged frame; 2 commands of a caller replace a target
that is latched, or set gains and a target under one ceiling, or lower the budget of a push under way. The preload of 3 is above the lower budget (2), which `TorqueIsBounded`
allows for, and below half of the higher one (7), so that `BlockedIsGripped` has no exception there. In Device an image is one block, two of which the last is short, or too large, and 2 or 3
packs, or one too many; 2 faults let a lost answer meet a failed write. Two faults fail at
most two of the 5 MCU updates, each of which costs at most the next, so that one is left
to succeed. Indices wrap at `IndexRange` = 3, which the
largest image just fits, as in the code. Two handles, a scan and a stranger are
every pair that may race for a port. The clock, the
targets, the frames and the link capacity are the only cut-offs (`MaxClock`,
`MaxTargets`, `MaxFrames`, `LinkCap`, `MaxInFlight`, `MaxSessions`, `MaxExchanges`,
`MaxRecords`, `MaxFaults` and the other `Max...` constants); behaviours simply end
there, which is why only the TransportRequests runs check deadlock. The liveness properties are of the form
that a cut-off cannot make true by itself: what they promise must happen from
any state, also the last one reached.

## 4. Fairness

Weak fairness is given to the SDK's own threads only: a calling thread inside
`send_cmd` (its waits are timed: `wait_for`, `try_lock_for`, `sleep_for`), the
reader (a `read()` returns within a VTIME tick), the two workers, the
controllers' worker, the exchange's worker (its waits are `wait_until` and the timed waits of
`send_cmd`), and the thread inside `stop()`, `unsubscribe_control_()`, `start_exchange()` or `stop_streaming()`. None is given to the MCU (OtaSession's,
see below, excepted), to the wire, to the rate of samples, to callers starting calls, or to anyone's wish to
stop. In the updates the calling thread goes on (its waits are timed) and, for
OtaSession, so does the MCU while no fault befalls it: `UpdateSucceeds` is about a
device that answers. User callbacks are not assumed to return; where a property needs it
(`StopReturns` of TransportLanes) it is the left side of the formula. The SDK's own
control callbacks do return: `on_status_` takes a mutex that no one holds across a
wait or a write.

Half-duplex turns are handed out by a `timed_mutex`; no fairness among its
waiters is assumed, a caller may always lose and then leaves by `TurnTimeout`.

## 5. What is proved

Every theorem is about the specification that TLC checks, and for every value of its
constants that the named ASSUMEs allow. Where a module has "Parameters" (the two update
modules, which Device instantiates) these are a hypothesis of their theorems, and
DeviceProofs discharges them from the ASSUMEs of Device. The pattern is the same
everywhere: one inductive invariant, a conjunction of named parts; a lemma for each part
with a step per action; PTL for the conclusion. TLC looked for
counterexamples to the larger inductive invariants before they were proved.

**TransportRequestsProofs** -- any finite set of callers, any set of commands,
sizes of the sequence space, retries, call modes and link capacity.

* `TypeCorrect`: `Spec => []TypeOK` (proved only; no run checks types)
* `SeqNeverShared`, `PromisesOwned`, `AnswersMatch`, `TurnReleased`,
  `NobodyWaitsOnDeadReader`: the five safety invariants of the run
* `NeverOverwritten`: the action property of the comment above
  `allocate_seq_locked_` (proved only)

None of the five is inductive alone. `AnswerIsOwn` needs to know which frames on
the link carry a reserved number (`LinkOwned`), and what the reader holds in its
hand (`OwnedByPoint`); both need `SeqExclusive` and `PendingOwned`, which need to
know at which points of `send_cmd` a slot is held; `DeadReaderWakesCallers` needs
`ReaderGone`, that `running_` was cleared before the reader went, because only
the check of `running_` under `pending_mu_` keeps a promise from being published
too late. The conjunction is `RequestsConsistent`.

**TransportLanesProofs** -- any producers, queue depths, users, controllers and number of
frames: `AccountedHolds`, `AtMostOneLateHolds`, `GoneMeansQuietHolds`, `NoSilentGapHolds`.

`Accounted` is inductive with the types. `AtMostOneLate` needs that a gone subscriber is
in a worker's hand at most once (`InStep`, `Lateness`); `GoneMeansQuiet` needs `Claims`
(`inflight` counts exactly the call in progress), `Joined` and `Emptied` (what each point of
`stop()` says about the threads and the queues) and `Held` (which subscriptions a worker may
still hold). `NoSilentGap` is the deep one: `Complete` says of every frame a controller should
have been given that it was, is on its way to it, is about to be offered, or that nothing
later of its producer will follow; that last case needs the order of a producer's frames from
the queue through the worker's hand to the log (`Order`, `NotYet`), and the first needs that
nothing is in the lane before the first subscription (`Untouched`, `Unlogged`).

**MotorControllerProofs** -- both controllers, any clock, timeout, queue length, number of
targets and samples under way: `FaultStopsMotionHolds`, `FaultsAreCurrentHolds`,
`StoppedForGoodHolds`, `TargetsCurrentHolds`.

`Blindness` says that evidence is in `pending_status_fault_` or in the policy until `reset()`
and that no motion command waits to be written after a blind one; `Evidence`, that a step which
would report a fault has a sample no older than the epoch; `Targets`, where the newest target is for
each kind; `Quieting` and `Retiring`, that motion is on the wire only until `stop()` has written
its zero frame, and that nothing makes the impedance controller's observation valid once it
was retired.

**ExchangeProofs** -- both grippers, any number of sessions, exchanges, targets, records,
retries and frames per direction: `NewestNotLostHolds`, `AnsweredNotResentHolds`,
`NoSilentLossHolds`, `DeliveredInOrderHolds`, `StoppedStaysStoppedHolds`.

`Mailbox` orders the target in the mailbox, the one in the exchange, the newest accepted and
the newest answered. `PollsInOrder` and `RepliesAreCached` say that the answer an exchange gets is
the one the MCU remembers, and so `Replayable` that the records handed out to it
can still be had, and `Deliveries` that they come after all that were injected. `Hushing` says that
behind the StopStream that ends a session no request follows which would wake the MCU again.

**OtaSessionProofs** -- any number of updates, faults, retries and images of any size.
`McuImplements`: OtaSession implements AtomicUpdate. The invariant `SessionConsistent`
says that the number of the request under way is borne by nothing else (`Numbered`), that behind it
come only its repeats (`InTurn`), that from the answer to OtaStart on the MCU's session is
this update's (`SessionIsMine`), and that an OtaApply that was granted was this
update's (`AppliedIsMine`). Without the first two an old `ok` would be taken for a new one.
Its hypothesis is `NumbersAreFresh`, that no sequence number is drawn while a request or answer on the
wire, or the answer the MCU remembers, still bears it; the number of faults is then unbounded.
`NumbersStayFresh` proves that hypothesis where fewer faults happen than `SeqRange` - 1 (the code draws
256 numbers in turn), and `SpecImplements` follows without it. The invariant is `Aging`. The age of
what is under way is how many numbers were drawn since its own. The oldest is in front, answers
are older than what the MCU remembers, and that is older than the requests behind it (`OldestFirst`).
No age exceeds the faults so far, but by one while the request under way may still be
answered (`Ages`), and on the wire not even then (`WireAges`): only a fault leaves anything behind. A
reboot, though, takes the request under way with it and counts as no fault, so that `WireAges` may fail
by one. Then `Anew` holds: only an OtaStart or OtaAbort is sent, and its answer, behind
all that is older, finds the wire clear.
`RetriesAreNeverBlocks`: no command that is late or was repeated is taken for a new one. The
invariant is `InStep`. It says of every block and OtaVerify on the wire that the session
will be where the request needs it when its turn comes (`WireFits`, and `RequestFits` for a retry):
it fits the session as it is (`Fits`), and in front of it are only its own repeats and those of the request
before it, which the MCU has answered and now only replays (`Behind`). An MCU that was restarted may take
an old OtaStart anew; the block behind it is then the first (`Opens`). That repeats stay together
(`RepeatsTogether`), that the caller's block is its next (`CallerAsks`), that what was granted is
in the flash (`GrantedIsHeld`) and that the session has the caller's size (`SizeIsMine`) is what
makes the next request fit when it is sent.

**MotorOtaProofs** -- any number of updates, faults, attempts and resumes, any images
that `IndexRange` can count. `PacksInPlaceHolds`: the bootloader holds in every place the
pack that was sent for it. It needs nothing of the bus: the invariant `Placed` says that the motor takes a pack
only where its index belongs, and an index means one place, since no image has more packs than there are
indices (`InPlace`). `MotorImplements`: MotorOta implements AtomicUpdate. The invariant
`UpdateConsistent` follows the motor's flash: empty from the accepted OtaStart to the first pack
(`Erased`), then this image's packs up to its position (`Filled`), so that an accepted OtaEnd means
that the image runs (`Ended`); `InTurn` says that behind the answer to OtaStart no older answer
follows. Hypothesis of `MotorImplements`: `BusIsClear`, that an update begins when no answer to an earlier
OtaStart is on its way. It is needed (section 6, item 17).

**FramesProofs** -- the two laws and the time line, for any jaw, caller and line, and any
constants that the assumptions of Frames allow.

* `OverloadAlwaysEnds`: the motor is above its rating no longer than `Hold` and one frame.
  `OverloadInv` compares two clocks: as long as there is no ceiling, the time above the rating is no
  longer than the guard's own wait, which ends it; with the ceiling in place the last command was a
  torque within the rating alone, so that whatever the jaw does the motor makes no more.
* `TimesAreAlwaysTrue`: the invariant and the action property. `TimesInv` says of every frame under
  way that its low bits are those of the time it was taken (`TrueFrame`), and of a reader that its time is
  right unless it was told of a fault (`TrackInv`). In the old format, the distance of the host's
  clock from the last sample is less than half a wrap; from it follows that the number of wraps in
  a silence is counted right (`LegacyGap`, by way of `ModDiff`).
* `TorqueIsAlwaysBounded`: the invariant and the action property, from `GraspInv`. A push is of a
  target near where it began and within the largest budget (`PushKept`), and every command, by the
  branch of the law it comes from, within its own (`WithinBudget`); a preload above the budget
  is exempt, and the damping of a push comes on top (section 6, item 12). The step about the ramp
  (`RampWithinBudget`) is arithmetic: the interval that the budget and the damping leave to the ramp has a point,
  and any ramp clamped to it asks for no more than the budget, damping included.
* `LatchIsAlwaysCurrent`: the half of `GripIsCurrent` that says a latched grip is of the target
  that is asked for; from `GraspInv` too.

**DeviceProofs** -- the parts of Device, each from an invariant of its own.

* `UpdatesImplement`: both updates at once, from the two modules above, with `BusIsClear` for the
  motor's. `UpdatesStayInStep` proves the two invariants of `UpdatesEnd` in the same way but without
  that hypothesis, and
  `UpdatesDrawFresh` its part about sequence numbers; what is left of it is liveness. `SeqAssumption`
  bounds the MCU's faults.
* `StreamIsAsToldHolds` (`StreamFollows`): any firmware versions, rates and lost commands. A closed
  link does not stream; without that the invariant would not survive `open()`.
* `ConfigIsCurrentHolds` (`ConfigFollows`): any calibrations, ratings and envelopes. The jaw stands
  where the device's map puts it also while the map is not loaded (`MapFollows`). Positions divide the
  travel without rest (`ConfigAssumption`), because the code computes them in floats.
* `PortsAreOwnedHolds` (`PortsFollow`): any number of boards, handles and other programs. Open
  handles and open descriptors correspond one to one (`Descriptors`), so that the kernel always has
  a free one; from the lock to the close the descriptor has the lock (`Locks`); who streams is open and
  unharmed (`Owned`); and where a scan is (`ScanRuns`).
* `AnswersAreTrueHolds` (`RequestsFollow`): a call under way has no result yet, and the reference
  calibration is read only in the row that falls back on it.
* `StopEndsCaptureHolds`: any number of starts and any set of polling threads, when at most one
  thread owns `start()` and `stop()` (`OneOwner`; the code has no lock that would make it
  unnecessary). `CaptureJoins` says that only the thread whose handle is held may still run
  (`HandleOfTheLiving`) and how `running_` and the handle follow each other through a call of the
  owner (`HandleFollows`).
* `GilIsRespectedHolds` (`PythonFollows`): any Python threads, when the program is
  `Careful` (section 6, item 10). A closed or dropped object has no worker (`WorkerHasEnded`), and who
  has the lock follows from where it is (`LockIsPlaced`).

*Model-checked only*: what must eventually happen, `UpdateSucceeds` and `UpdateEnds` among it
(the prover handles neither fairness nor ENABLED); `FramesDelivered`, which compares the parser with a
decoder that is defined by recursion over the bytes received, so that a proof would be an
induction over data; and the half of `GripIsCurrent` that says a blocked jaw is gripped
(`BlockedIsGripped`), a bounded form of liveness: that the ramp arrives and the window fills within
`Patience` frames is so of the instance's numbers, and the rounding of the model's
integers decides how many frames it takes.

## 6. Disagreements found

1. `transport.cpp:334`: a reader that dies of an I/O error clears `running_`
   but not the workers' flag, so the promise of the comment in `stop()` -- no
   queued frame reaches a callback once `is_running()` is false -- holds for
   `stop()` only. Run LanesReaderFails.
2. `force_position_controller.cpp:1232`: `stop()` never invalidates the
   observation that the comment of `on_status_` says it retires. Run
   ForceStopRetires; `RetiredForGood` (part of `StoppedForGood`) shows that the
   impedance controller does.
3. `follower_exchange.cpp:114`: `send_cmd` throws on a NACK, so a follower exchange
   that is refused is counted as a timeout ("exchanges without a reply"), its
   target is sent again at once, and the branch that counts NACKs is dead. Run
   ExchangeNacked.

No run is kept for the following. Items 4 to 9 and item 13 are stated as a property of the module
that is named, which TLC refutes on the module's instance in Device, Frames or ExchangeNacked:

4. `transport.cpp:158`: whether a request needs the half-duplex turn is decided before
   it is written, so a target submitted while `start_exchange()` runs may be
   written into the reply to the first poll, against `follower_gripper.hpp:536-537`
   (`OneDirection` of Exchange).
5. `calibration.hpp:19-23` calls a calibration that was never written "an expected
   state, not an error"; `send_cmd` throws on the NACK (`transport.cpp:452`) before
   `calibration.cpp:38` could look at its code (`NotSetIsNoError` of Requests).
6. `camera.cpp:93-94` means to "disallow concurrent direct reads"; `running_` is looked at before
   the lock is taken and the capture thread never takes it, so a poll that began before
   `start()` shares the device with it (`DeviceHasOneReader` of Camera).
7. `discovery.cpp:126` says "We do NOT guess"; an error of one byte is taken for a type
   (lines 163-167) or a serial number (182-184) (`SideIsSaid` of Ports, with
   `ErrorForms` including "byte").
8. `serial_bus.cpp:128-132` explains why the exclusive mode has to be cleared before
   a close; a constructor whose `apply_termios_()` throws (100-106) closes without
   (`NoModeLeftBehind` of Ports).
9. `impedance_controller.cpp:214-217` lets a caller who backs off out of the ceiling by the
   side the target was on when it engaged, which is not always the side the torque
   pushed to (`BackingOffReleases` of ImpedanceLaw).
10. A Python object that is dropped without `close()` joins its workers with the
   interpreter's lock in hand (`transport.cpp:40-42`, `bind_gripper.cpp:204`, 401, 475, 828), and a worker that looked at
   the interpreter before it was gone asks it for the lock (`gil_safe.hpp:81-82`):
   `GilIsRespected` fails with `Careful = FALSE`.
11. Calls that look at `is_nack` only take an error of one byte for a good answer where
   they use no value of it (ARCHITECTURE.md:35-45 describes both forms).
   `RefusalsAreTold` is stated for the other calls.
12. A `set_target()` with a grasp budget below `close_preload_nm` asks for more than that budget
   at the closed end (`force_position_controller.cpp:600-602` says the total never
   exceeds it); `TorqueIsBounded` allows for it. A preload above half of the budget
   leaves the ramp a lead that is less than what line 869 asks for, so that a jaw blocked short of a closed
   end may be held by preload and ramp, with the whole budget, and `holding()` stays false:
   `BlockedIsGripped` asks for the torque there, not for the report (`PreloadOutweighs`). And what a pinned
   command damps of a jaw that moves while it is pushed comes on top of the budget.
13. A `set_target()` that lowers the grasp budget and asks for the same position keeps what a
   push has reached (`force_position_controller.cpp:412-423` clears it for a new approach only), and the
   push then takes it back step by step (730), above the budget meanwhile; a test's comment says that
   "everything this class commands is bounded by the force the caller asked for"
   (`test_force_position_controller.cpp:535-536`). That is `PushIsCurrent` of ForcePositionLaw;
   `TorqueIsBounded` and `PushesFall` say what remains true.
14. A `set_gripper_config()` that was carried out and not answered leaves the old position
   map in use (`behind` in GripperConfig).
15. The look-ahead of `FrameParser::drain_` (`frame.cpp:302-335`) finds no frame that a
   step by one byte would not find, and `pack_frame` checks the length before stuffing
   against a limit of the stuffed frame (`frame.hpp:38-39`).
16. A controller that subscribes while the only other one leaves may miss a sample it was
   published for: `enqueue_control_` (`transport.cpp:538-541`) counts subscriptions before it takes the queue's lock
   (554, 565), so a sample that found nobody is skipped although a controller is
   published by then. `NoSilentGap` exempts a frame received before the publication when there
   are other controllers; with a single controller it holds of every frame.
17. A reply of the motor is matched by its kind of frame (`motor_ota.cpp:20-31`) and bears
   neither update nor pack. If answers to an OtaStart survive until the next update begins, a
   motor with an empty flash can be taken for one that holds the image: with 7 faults TLC finds
   `Implements` of MotorOta violated. `MotorImplements` therefore assumes `BusIsClear`.

## 7. Not modelled, and why

* Log, the monotonic condition variable and the drift check: wording, a wrapper of
  pthread (its wait is a step of TransportLanes) and a build-time text comparison.
* termios settings, `read()` and `write()` of SerialBus: what can go wrong there (an error, a timeout,
  lost bytes) are actions of the transport modules.
* The content of payloads: byte order, scaling, conversions to Python; their lengths are modelled.
* Image rectification and fisheye geometry: floating point, out of TLC's reach. Of the control
  laws, the velocity estimate, the recovery travel of a grasp that starts and the change of tuning
  while running.
* Motor's filter of stray status frames (`motor.cpp:325-368`) and `delivery_snapshot()`; the
  encoder's normalisation (`encoder.cpp:57-123`); the decoding of keys and sensor errors; the assembly
  of observations: arithmetic on one sample each. `ensure_envelope()`'s reading of the
  motor's status before it writes is left out.
* Steps that are one in the models and several in the code, where nothing in between is seen by
  another part: `open()` and `isatty()` (`OpenDevice` of Ports); `set_half_duplex(false)` and the write
  of StopStream (`Hush` of Exchange, `follower_gripper.cpp:432-440`); the injection of a reply's records and
  the statistics (`Fold`, `follower_exchange.cpp:104-120`); the second StopStream of
  `start_streaming()` after one that failed to start (`FallBack`, `leader_gripper.cpp:203-206`);
  the data and the control subscribers that `stop()` gives up (`ClearSubs` of TransportLanes).
* A firmware image of 4 GiB or more: its size is cast to 32 bits (`motor_ota.cpp:151`, `ota.cpp:165`).
  `on_progress()` may throw after any pack of a motor's update (`CallbackThrows`), in the code after
  every 256th and at the end.
* In Requests: a good answer of a length that the caller did not expect; the arguments that
  `set_sn()` and `set_device_type()` refuse before anything is sent; and a value that, read back, would
  look like an error byte (`device.cpp:69-78`, excluded by `ValuesAssumption`).
* `stop()` of one object called by two threads at once: the code excludes it by
  ownership, and neither Transport nor the controllers promise it.

## 8. Plan

Everything planned at first is modelled and checked, and the safety of every part but the
parser is proved. What is left:

1. An abstract mailbox that the exchange's worker implements with its resends.
2. Motor's stray-fault filter, and the composition of GripperStream with Exchange.
3. The parser's buffer apart from its bytes, so that at least its bookkeeping could be proved.
