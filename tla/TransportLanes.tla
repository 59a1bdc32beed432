--------------------------- MODULE TransportLanes ---------------------------
(***************************************************************************)
(* The receive side of bus::Transport: DATA frames go from the reader (or, *)
(* in a polled exchange, from the exchange worker through inject_data())   *)
(* to two queues, each with a worker thread that runs callbacks.           *)
(*                                                                         *)
(*   data     user callbacks; full queue: drop the oldest frame            *)
(*   control  motor status for the SDK's controllers; full queue: the lane *)
(*            latches closed (control_failed_)                             *)
(*                                                                         *)
(* A worker waits on a condition variable, so a notification that comes    *)
(* between its predicate check and its blocking would be lost; the model   *)
(* keeps the two steps apart.  One action is one critical section or one   *)
(* access to an atomic.                                                    *)
(*                                                                         *)
(* A definition whose comment begins with "Mutant" is used by no other: it *)
(* stands for a plausible mistake in the definition after it, and shows    *)
(* that a property of the runs would notice.                               *)
(***************************************************************************)
EXTENDS Integers, Sequences, FiniteSets

CONSTANTS
  Producers,    (* threads that hand frames over: subset of AllProducers   *)
  Depth,        (* [data |-> dispatch_queue_frames,                        *)
                (*  control |-> control_queue_frames]                      *)
  Users,        (* user subscriptions (subscribe)                          *)
  Controllers,  (* control subscriptions (subscribe_control_)              *)
  Streamed,     (* kinds of DATA the MCU sends, a subset of Kinds          *)
  MaxFrames,    (* bound: DATA frames received in a behaviour              *)
  None

AllProducers == {"reader", "exchange"}
Lanes == {"data", "control"}

ASSUME ProducersAssumption == Producers \subseteq AllProducers /\ "reader" \in Producers
ASSUME DepthAssumption == Depth \in [Lanes -> Nat \ {0}]
ASSUME SubscribersAssumption ==
  /\ IsFiniteSet(Users) /\ IsFiniteSet(Controllers)
  /\ Users \cap Controllers = {} /\ None \notin Users \cup Controllers

Kinds == {"status", "other"}   \* Cmd::GetMotorStatus and every other DATA
ASSUME FramesAssumption == MaxFrames \in Nat /\ Streamed \subseteq Kinds

VARIABLES
  stopReq,   (* stop_requested_                                            *)
  running,   (* running_                                                   *)
  stopper,   (* how far stop() is                                          *)
  ppc,       (* where each producer is; "top", "exited": the reader only   *)
  frames,    (* the frames received so far: a frame's index is its time    *)
  queue,     (* queue_ and control_queue_: indices of frames               *)
  failed,    (* control_failed_                                            *)
  wpc,       (* where the worker of each lane is                           *)
  wframe,    (* the frame it has taken, 0 if none                          *)
  hits,      (* the subscribers it has copied and not called yet           *)
  cur,       (* the subscriber whose callback runs                         *)
  dsub,      (* user subscription: "none", a kind, "gone"                  *)
  csub,      (* control subscription, see ControlStates                    *)
  since,     (* ControlSub::since, as the number of frames received        *)
  published, (* history: frames received when control_subs_ got it         *)
  inflight,  (* ControlSub::inflight                                       *)
  dropped,   (* stat_queue_dropped_, stat_control_queue_dropped_           *)
  offered,   (* history: frames given to each lane                         *)
  handled,   (* history: frames each lane has fanned out                   *)
  log,       (* history: frames each control callback was entered with     *)
  late       (* history: user callbacks entered after unsubscribe()        *)

threadVars  == <<stopReq, running, stopper>>
producerVars == <<ppc, frames>>
laneVars    == <<queue, failed, dropped, offered>>
workerVars  == <<wframe, hits, cur, handled, log, late>>
subVars     == <<dsub, csub, since, published>>
vars == <<stopReq, running, stopper, ppc, frames, queue, failed, wpc, wframe, hits, cur,
          dsub, csub, since, published, inflight, dropped, offered, handled, log, late>>

ProducerPoints == {"top", "read", "count", "control", "data", "exited"}
WorkerPoints == {"check", "parking", "parked", "fan", "hits", "call", "exited"}
StopPoints == {"no", "running", "joinReader", "wakeControl", "joinControl", "wakeData",
               "joinData", "clear", "drop", "dropControl", "done"}

(* A control subscription: since taken ("joining"), in control_subs_       *)
(* ("active"), erased from it ("leaving"), active cleared and waiting for  *)
(* inflight = 0 ("waiting"), unsubscribed ("gone"), erased by stop()       *)
(* ("cleared").                                                            *)
ControlStates == {"none", "joining", "active", "leaving", "waiting", "gone", "cleared"}
ActiveFlag(u) == csub[u] \in {"active", "leaving", "cleared"}

(* The worker of a lane holds the lane's mutex between its predicate and   *)
(* blocking on the condition variable.                                     *)
MutexFree(l) == wpc[l] # "parking"

(* notify_one / notify_all: only a blocked worker notices.                 *)
Notified(l) == [wpc EXCEPT ![l] = IF @ = "parked" THEN "check" ELSE @]

---------------------------------------------------------------------------
Init ==
  /\ stopReq = FALSE /\ running = TRUE /\ stopper = "no"
  /\ ppc = [p \in Producers |-> IF p = "reader" THEN "top" ELSE "read"]
  /\ frames = <<>>
  /\ queue = [l \in Lanes |-> <<>>]
  /\ failed = FALSE
  /\ wpc = [l \in Lanes |-> "check"]
  /\ wframe = [l \in Lanes |-> 0]
  /\ hits = [l \in Lanes |-> {}]
  /\ cur = [l \in Lanes |-> None]
  /\ dsub = [u \in Users |-> "none"]
  /\ csub = [u \in Controllers |-> "none"]
  /\ since = [u \in Controllers |-> 0]
  /\ published = [u \in Controllers |-> 0]
  /\ inflight = [u \in Controllers |-> 0]
  /\ dropped = [l \in Lanes |-> 0]
  /\ offered = [l \in Lanes |-> 0]
  /\ handled = [l \in Lanes |-> 0]
  /\ log = [u \in Controllers |-> <<>>]
  /\ late = [u \in Users |-> 0]

---------------------------------------------------------------------------
(* The producers *)

(* reader_loop_(): the flag is looked at before each read() only.          *)
ReaderTop ==
  /\ ppc["reader"] = "top"
  /\ ppc' = [ppc EXCEPT !["reader"] = IF stopReq THEN "exited" ELSE "read"]
  /\ UNCHANGED <<threadVars, frames, laneVars, wpc, workerVars, subVars, inflight>>

(* reader_loop_(): read() came back and the parser holds no more frames.   *)
ReadDone ==
  /\ ppc["reader"] = "read"
  /\ ppc' = [ppc EXCEPT !["reader"] = "top"]
  /\ UNCHANGED <<threadVars, frames, laneVars, wpc, workerVars, subVars, inflight>>

(* reader_loop_(): read() throws; the workers are not told to stop.        *)
ReadFails ==
  /\ ppc["reader"] = "read"
  /\ running' = FALSE
  /\ ppc' = [ppc EXCEPT !["reader"] = "exited"]
  /\ UNCHANGED <<stopReq, stopper, frames, laneVars, wpc, workerVars, subVars, inflight>>

(* A DATA frame is parsed (reader) or decoded from a reply (exchange):     *)
(* dispatch_() and inject_data() offer motor status to the control lane.   *)
Receive(p) ==
  /\ ppc[p] = "read"
  /\ Len(frames) < MaxFrames
  /\ \E k \in Streamed :
       /\ frames' = Append(frames, [kind |-> k, from |-> p])
       /\ ppc' = [ppc EXCEPT ![p] = IF k = "status" THEN "count" ELSE "data"]
  /\ UNCHANGED <<threadVars, laneVars, wpc, workerVars, subVars, inflight>>

(* enqueue_control_(): control_sub_count_ is read without a lock.          *)
CountSubs(p) ==
  /\ ppc[p] = "count"
  /\ ppc' = [ppc EXCEPT ![p] = IF \E u \in Controllers : csub[u] = "active"
                               THEN "control" ELSE "data"]
  /\ UNCHANGED <<threadVars, frames, laneVars, wpc, workerVars, subVars, inflight>>

(* The frame a producer is handing over: its latest one.                   *)
Handing(p) ==
  CHOOSE n \in 1 .. Len(frames) :
    /\ frames[n].from = p
    /\ \A m \in n + 1 .. Len(frames) : frames[m].from # p

(* Mutant: a full control queue loses its oldest frame and goes on.        *)
EnqueueControlEvicts(p) ==
  LET full == Len(queue["control"]) >= Depth["control"]
      kept == IF full THEN Tail(queue["control"]) ELSE queue["control"]
  IN
  /\ ppc[p] = "control"
  /\ MutexFree("control")
  /\ ppc' = [ppc EXCEPT ![p] = "data"]
  /\ queue' = [queue EXCEPT !["control"] = Append(kept, Handing(p))]
  /\ dropped' = [dropped EXCEPT !["control"] = IF full THEN @ + 1 ELSE @]
  /\ offered' = [offered EXCEPT !["control"] = @ + 1]
  /\ wpc' = Notified("control")
  /\ UNCHANGED <<threadVars, frames, failed, workerVars, subVars, inflight>>

(* enqueue_control_(): a full queue closes the lane and empties it.        *)
EnqueueControl(p) ==
  LET full == Len(queue["control"]) >= Depth["control"] IN
  /\ ppc[p] = "control"
  /\ MutexFree("control")
  /\ ppc' = [ppc EXCEPT ![p] = "data"]
  /\ offered' = [offered EXCEPT !["control"] = @ + 1]
  /\ \/ /\ failed
        /\ dropped' = [dropped EXCEPT !["control"] = @ + 1]
        /\ UNCHANGED <<queue, failed, wpc>>
     \/ /\ ~failed /\ full
        /\ failed' = TRUE
        /\ dropped' = [dropped EXCEPT !["control"] = @ + Len(queue["control"]) + 1]
        /\ queue' = [queue EXCEPT !["control"] = <<>>]
        /\ UNCHANGED wpc
     \/ /\ ~failed /\ ~full
        /\ queue' = [queue EXCEPT !["control"] = Append(@, Handing(p))]
        /\ wpc' = Notified("control")
        /\ UNCHANGED <<failed, dropped>>
  /\ UNCHANGED <<threadVars, frames, workerVars, subVars, inflight>>

(* enqueue_data_(): a full queue loses its oldest frame.                   *)
EnqueueData(p) ==
  LET full == Len(queue["data"]) >= Depth["data"]
      kept == IF full THEN Tail(queue["data"]) ELSE queue["data"]
  IN
  /\ ppc[p] = "data"
  /\ MutexFree("data")
  /\ ppc' = [ppc EXCEPT ![p] = "read"]
  /\ queue' = [queue EXCEPT !["data"] = Append(kept, Handing(p))]
  /\ dropped' = [dropped EXCEPT !["data"] = IF full THEN @ + 1 ELSE @]
  /\ offered' = [offered EXCEPT !["data"] = @ + 1]
  /\ wpc' = Notified("data")
  /\ UNCHANGED <<threadVars, frames, failed, workerVars, subVars, inflight>>

---------------------------------------------------------------------------
(* dispatch_loop_() and control_loop_() *)

(* cv.wait(): the predicate is evaluated under the lane's mutex.           *)
(* Shutdown beats drain.                                                   *)
Check(l) ==
  /\ wpc[l] = "check"
  /\ IF ~stopReq /\ queue[l] # <<>>
     THEN /\ wframe' = [wframe EXCEPT ![l] = Head(queue[l])]
          /\ queue' = [queue EXCEPT ![l] = Tail(@)]
     ELSE UNCHANGED <<wframe, queue>>
  /\ wpc' = [wpc EXCEPT ![l] = IF stopReq THEN "exited"
                               ELSE IF queue[l] # <<>> THEN "fan" ELSE "parking"]
  /\ UNCHANGED <<threadVars, producerVars, failed, dropped, offered, hits, cur, handled, log,
                 late, subVars, inflight>>

(* cv.wait(): the mutex is released and the thread blocks, in one step.    *)
Park(l) ==
  /\ wpc[l] = "parking"
  /\ wpc' = [wpc EXCEPT ![l] = "parked"]
  /\ UNCHANGED <<threadVars, producerVars, laneVars, workerVars, subVars, inflight>>

(* Mutant: a list that unsubscribe() does not touch is matched.            *)
MatchingAll(l) ==
  IF l = "data" THEN { u \in Users : dsub[u] # "none" }
  ELSE { u \in Controllers : csub[u] # "none" }

(* The subscriptions a frame goes to.                                      *)
Matching(l) ==
  IF l = "data" THEN { u \in Users : dsub[u] = frames[wframe[l]].kind }
  ELSE { u \in Controllers : csub[u] = "active" }

(* Mutant: callbacks run under the subscription mutex, so the lanes wait   *)
(* for each other.                                                         *)
SnapshotShared(l) ==
  /\ wpc[l] = "fan"
  /\ \A k \in Lanes : wpc[k] # "call"
  /\ hits' = [hits EXCEPT ![l] = Matching(l)]
  /\ wpc' = [wpc EXCEPT ![l] = "hits"]
  /\ UNCHANGED <<threadVars, producerVars, laneVars, wframe, cur, handled, log, late, subVars,
                 inflight>>

(* The matching callbacks are copied under the subscription mutex.         *)
Snapshot(l) ==
  /\ wpc[l] = "fan"
  /\ hits' = [hits EXCEPT ![l] = Matching(l)]
  /\ wpc' = [wpc EXCEPT ![l] = "hits"]
  /\ UNCHANGED <<threadVars, producerVars, laneVars, wframe, cur, handled, log, late, subVars,
                 inflight>>

(* handle_data_(): the next user callback is entered.                      *)
EnterUser ==
  /\ wpc["data"] = "hits"
  /\ \E u \in hits["data"] :
       /\ hits' = [hits EXCEPT !["data"] = @ \ {u}]
       /\ cur' = [cur EXCEPT !["data"] = u]
       /\ late' = [late EXCEPT ![u] = IF dsub[u] = "gone" THEN @ + 1 ELSE @]
  /\ wpc' = [wpc EXCEPT !["data"] = "call"]
  /\ UNCHANGED <<threadVars, producerVars, laneVars, wframe, handled, log, subVars, inflight>>

(* control_loop_(): under the subscription's mutex, skip it or enter it.   *)
EnterControl ==
  /\ wpc["control"] = "hits"
  /\ \E u \in hits["control"] :
       /\ hits' = [hits EXCEPT !["control"] = @ \ {u}]
       /\ IF ActiveFlag(u) /\ wframe["control"] > since[u]
          THEN /\ inflight' = [inflight EXCEPT ![u] = @ + 1]
               /\ cur' = [cur EXCEPT !["control"] = u]
               /\ log' = [log EXCEPT ![u] = Append(@, wframe["control"])]
               /\ wpc' = [wpc EXCEPT !["control"] = "call"]
          ELSE UNCHANGED <<inflight, cur, log, wpc>>
  /\ UNCHANGED <<threadVars, producerVars, laneVars, wframe, handled, late, subVars>>

(* Mutant: the claim is not given back.                                    *)
LeaveCallbackKeepsClaim(l) ==
  /\ wpc[l] = "call"
  /\ wpc' = [wpc EXCEPT ![l] = "hits"]
  /\ cur' = [cur EXCEPT ![l] = None]
  /\ UNCHANGED <<threadVars, producerVars, laneVars, wframe, hits, handled, log, late, subVars,
                 inflight>>

(* The callback returns or throws; a control one gives its claim back.     *)
LeaveCallback(l) ==
  /\ wpc[l] = "call"
  /\ wpc' = [wpc EXCEPT ![l] = "hits"]
  /\ cur' = [cur EXCEPT ![l] = None]
  /\ inflight' = IF l = "control" THEN [inflight EXCEPT ![cur[l]] = @ - 1] ELSE inflight
  /\ UNCHANGED <<threadVars, producerVars, laneVars, wframe, hits, handled, log, late, subVars>>

(* All callbacks have run: the frame is done with.                         *)
FannedOut(l) ==
  /\ wpc[l] = "hits"
  /\ hits[l] = {}
  /\ wpc' = [wpc EXCEPT ![l] = "check"]
  /\ wframe' = [wframe EXCEPT ![l] = 0]
  /\ handled' = [handled EXCEPT ![l] = @ + 1]
  /\ UNCHANGED <<threadVars, producerVars, laneVars, hits, cur, log, late, subVars, inflight>>

---------------------------------------------------------------------------
(* Subscribers: any thread, callbacks included *)

Subscribe(u) ==
  /\ dsub[u] = "none"
  /\ \E k \in Streamed : dsub' = [dsub EXCEPT ![u] = k]
  /\ UNCHANGED <<threadVars, producerVars, laneVars, wpc, workerVars, csub, since, published,
                 inflight>>

(* unsubscribe() of a user callback does not wait for it.                  *)
Unsubscribe(u) ==
  /\ dsub[u] \in Kinds
  /\ dsub' = [dsub EXCEPT ![u] = "gone"]
  /\ UNCHANGED <<threadVars, producerVars, laneVars, wpc, workerVars, csub, since, published,
                 inflight>>

(* subscribe_control_(): refused (throws) once the lane is closed;         *)
(* otherwise since is taken, before the subscription is published.         *)
SubscribeControl(u) ==
  /\ csub[u] = "none"
  /\ MutexFree("control")
  /\ ~failed
  /\ csub' = [csub EXCEPT ![u] = "joining"]
  /\ since' = [since EXCEPT ![u] = Len(frames)]
  /\ UNCHANGED <<threadVars, producerVars, laneVars, wpc, workerVars, dsub, published, inflight>>

(* subscribe_control_(): pushed on control_subs_ and counted.              *)
PublishControl(u) ==
  /\ csub[u] = "joining"
  /\ csub' = [csub EXCEPT ![u] = "active"]
  /\ published' = [published EXCEPT ![u] = Len(frames)]
  /\ UNCHANGED <<threadVars, producerVars, laneVars, wpc, workerVars, dsub, since, inflight>>

(* unsubscribe_control_(): erased from control_subs_; not found if stop()  *)
(* cleared it.                                                             *)
EraseControl(u) ==
  /\ csub[u] \in {"active", "cleared"}
  /\ csub' = [csub EXCEPT ![u] = IF @ = "active" THEN "leaving" ELSE "gone"]
  /\ UNCHANGED <<threadVars, producerVars, laneVars, wpc, workerVars, dsub, since, published,
                 inflight>>

(* unsubscribe_control_(): active = false under the subscription's mutex.  *)
DeactivateControl(u) ==
  /\ csub[u] = "leaving"
  /\ csub' = [csub EXCEPT ![u] = "waiting"]
  /\ UNCHANGED <<threadVars, producerVars, laneVars, wpc, workerVars, dsub, since, published,
                 inflight>>

(* Mutant: unsubscribe_control_() does not wait for the callback.          *)
ControlIdleAtOnce(u) ==
  /\ csub[u] = "waiting"
  /\ csub' = [csub EXCEPT ![u] = "gone"]
  /\ UNCHANGED <<threadVars, producerVars, laneVars, wpc, workerVars, dsub, since, published,
                 inflight>>

(* unsubscribe_control_(): idle.wait(inflight == 0), then it returns.      *)
ControlIdle(u) ==
  /\ csub[u] = "waiting"
  /\ inflight[u] = 0
  /\ csub' = [csub EXCEPT ![u] = "gone"]
  /\ UNCHANGED <<threadVars, producerVars, laneVars, wpc, workerVars, dsub, since, published,
                 inflight>>

---------------------------------------------------------------------------
(* stop() *)

StopRequest ==
  /\ stopper = "no"
  /\ stopReq' = TRUE
  /\ stopper' = "running"
  /\ UNCHANGED <<running, producerVars, laneVars, wpc, workerVars, subVars, inflight>>

StopRunning ==
  /\ stopper = "running"
  /\ running' = FALSE
  /\ stopper' = "joinReader"
  /\ UNCHANGED <<stopReq, producerVars, laneVars, wpc, workerVars, subVars, inflight>>

JoinReader ==
  /\ stopper = "joinReader"
  /\ ppc["reader"] = "exited"
  /\ stopper' = "wakeControl"
  /\ UNCHANGED <<stopReq, running, producerVars, laneVars, wpc, workerVars, subVars, inflight>>

(* Mutant: the worker is notified without taking the lane's mutex.         *)
WakeUnlocked(l) ==
  /\ stopper = IF l = "control" THEN "wakeControl" ELSE "wakeData"
  /\ wpc' = Notified(l)
  /\ stopper' = IF l = "control" THEN "joinControl" ELSE "joinData"
  /\ UNCHANGED <<stopReq, running, producerVars, laneVars, workerVars, subVars, inflight>>

(* join_workers_(): the lane's mutex is taken once before notify_all(), so *)
(* the worker has either seen the flag or is really blocked.               *)
WakeWorker(l) ==
  /\ stopper = IF l = "control" THEN "wakeControl" ELSE "wakeData"
  /\ MutexFree(l)
  /\ wpc' = Notified(l)
  /\ stopper' = IF l = "control" THEN "joinControl" ELSE "joinData"
  /\ UNCHANGED <<stopReq, running, producerVars, laneVars, workerVars, subVars, inflight>>

JoinWorker(l) ==
  /\ stopper = IF l = "control" THEN "joinControl" ELSE "joinData"
  /\ wpc[l] = "exited"
  /\ stopper' = IF l = "control" THEN "wakeData" ELSE "clear"
  /\ UNCHANGED <<stopReq, running, producerVars, laneVars, wpc, workerVars, subVars, inflight>>

(* clear_subs_(): both lists (the workers are gone).                       *)
ClearSubs ==
  /\ stopper = "clear"
  /\ csub' = [u \in Controllers |-> IF csub[u] = "active" THEN "cleared" ELSE csub[u]]
  /\ dsub' = [u \in Users |-> IF dsub[u] \in Kinds THEN "gone" ELSE dsub[u]]
  /\ stopper' = "drop"
  /\ UNCHANGED <<stopReq, running, producerVars, laneVars, wpc, workerVars, since, published,
                 inflight>>

(* Mutant: what is still queued vanishes without being counted.            *)
DropQueuedUncounted(l) ==
  /\ stopper = IF l = "data" THEN "drop" ELSE "dropControl"
  /\ queue' = [queue EXCEPT ![l] = <<>>]
  /\ stopper' = IF l = "data" THEN "dropControl" ELSE "done"
  /\ UNCHANGED <<stopReq, running, producerVars, failed, dropped, offered, wpc, workerVars,
                 subVars, inflight>>

(* What is still queued is counted as dropped: the user callbacks' frames, *)
(* then, under its own mutex, the control lane's.                          *)
DropQueued(l) ==
  /\ stopper = IF l = "data" THEN "drop" ELSE "dropControl"
  /\ dropped' = [dropped EXCEPT ![l] = @ + Len(queue[l])]
  /\ queue' = [queue EXCEPT ![l] = <<>>]
  /\ stopper' = IF l = "data" THEN "dropControl" ELSE "done"
  /\ UNCHANGED <<stopReq, running, producerVars, failed, offered, wpc, workerVars, subVars,
                 inflight>>

---------------------------------------------------------------------------
ReaderStep == ReaderTop \/ ReadDone
HandOver(p) == CountSubs(p) \/ EnqueueControl(p) \/ EnqueueData(p)
WorkerStep(l) ==
  \/ Check(l) \/ Park(l) \/ Snapshot(l) \/ FannedOut(l)
  \/ l = "data" /\ EnterUser
  \/ l = "control" /\ EnterControl
Unsubscribing(u) == DeactivateControl(u) \/ ControlIdle(u)
StopStep ==
  \/ StopRunning \/ JoinReader \/ ClearSubs
  \/ \E l \in Lanes : WakeWorker(l) \/ JoinWorker(l) \/ DropQueued(l)

Next ==
  \/ ReaderStep \/ ReadFails
  \/ \E p \in Producers : Receive(p) \/ HandOver(p)
  \/ \E l \in Lanes : WorkerStep(l) \/ LeaveCallback(l)
  \/ \E u \in Users : Subscribe(u) \/ Unsubscribe(u)
  \/ \E u \in Controllers : SubscribeControl(u) \/ PublishControl(u) \/ EraseControl(u)
                            \/ Unsubscribing(u)
  \/ StopRequest \/ StopStep

Spec == Init /\ [][Next]_vars

(* Threads run, a read() ends within a VTIME tick, the SDK's control       *)
(* callbacks return.  User callbacks need not.                             *)
FairSpec ==
  /\ Spec
  /\ WF_vars(ReaderStep)
  /\ \A p \in Producers : WF_vars(HandOver(p))
  /\ \A l \in Lanes : WF_vars(WorkerStep(l))
  /\ WF_vars(LeaveCallback("control"))
  /\ \A u \in Controllers : WF_vars(Unsubscribing(u))
  /\ WF_vars(StopStep)

---------------------------------------------------------------------------
(* Properties *)

Subscribers(l) == IF l = "data" THEN Users ELSE Controllers

(* Every variable stays in its type; no queue outgrows its configured       *)
(* depth.                                                                   *)
TypeOK ==
  /\ stopReq \in BOOLEAN /\ running \in BOOLEAN /\ failed \in BOOLEAN
  /\ stopper \in StopPoints
  /\ ppc \in [Producers -> ProducerPoints]
  /\ frames \in Seq([kind : Kinds, from : Producers])
  /\ queue \in [Lanes -> Seq(Nat \ {0})]
  /\ \A l \in Lanes : Len(queue[l]) <= Depth[l]
  /\ wpc \in [Lanes -> WorkerPoints]
  /\ wframe \in [Lanes -> Nat]
  /\ \A l \in Lanes : hits[l] \subseteq Subscribers(l) /\ cur[l] \in Subscribers(l) \cup {None}
  /\ dsub \in [Users -> Kinds \cup {"none", "gone"}]
  /\ csub \in [Controllers -> ControlStates]
  /\ since \in [Controllers -> Nat] /\ published \in [Controllers -> Nat]
  /\ inflight \in [Controllers -> 0 .. 1]
  /\ dropped \in [Lanes -> Nat] /\ offered \in [Lanes -> Nat] /\ handled \in [Lanes -> Nat]
  /\ log \in [Controllers -> Seq(Nat \ {0})]
  /\ late \in [Users -> Nat]

(* Loss accounting: every frame given to a lane is queued, in the worker's *)
(* hand, fanned out, or counted once in the lane's drop counter, through   *)
(* eviction, overflow, the closed lane and stop().                         *)
Accounted ==
  \A l \in Lanes :
    offered[l] = handled[l] + dropped[l] + Len(queue[l]) + (IF wframe[l] = 0 THEN 0 ELSE 1)

(* A controller sees every motor status of a producer between the first    *)
(* and the last it was given: after a loss the lane never goes on with a   *)
(* newer, healthy sample (enqueue_control_).  What was received before it  *)
(* was published may be missing if another controller had left meanwhile.  *)
NoSilentGap ==
  \A u \in Controllers :
    \A i, j \in 1 .. Len(log[u]) :
      \A n \in log[u][i] .. log[u][j] :
        /\ frames[n].kind = "status"
        /\ frames[n].from = frames[log[u][i]].from
        /\ frames[n].from = frames[log[u][j]].from
        /\ n > published[u] \/ Controllers = {u}
        => \E k \in i .. j : log[u][k] = n

(* A user callback is entered at most once after unsubscribe(), for the    *)
(* frame being fanned out, however many frames are queued.                 *)
AtMostOneLate == \A u \in Users : late[u] <= 1

(* When unsubscribe_control_() has returned, the callback is not running   *)
(* and is never entered again: the controller may be destroyed.            *)
UnsubscribedIsQuiet ==
  \A u \in Controllers : csub[u] = "gone" => cur["control"] # u /\ inflight[u] = 0

(* When stop() has returned, no callback runs or is about to, no worker    *)
(* holds a copy of one, and nothing the reader received is left in a queue.*)
StopSettles ==
  stopper = "done" => \A l \in Lanes :
    /\ hits[l] = {} /\ cur[l] = None
    /\ \A i \in 1 .. Len(queue[l]) : frames[queue[l][i]].from # "reader"

(* No callback runs for a controller that has unsubscribed                 *)
(* (unsubscribe_control_), nor any once stop() has returned.               *)
GoneMeansQuiet == UnsubscribedIsQuiet /\ StopSettles

(* The control lane is drained whatever the user callbacks do, even one    *)
(* that never returns.                                                     *)
ControlLaneIndependent ==
  queue["control"] # <<>> /\ ~stopReq ~> queue["control"] = <<>> \/ stopReq

(* No subscriber ever keeps the reader from going back to read().          *)
ProducersNeverBlock ==
  \A p \in Producers : ppc[p] \in {"count", "control", "data"} ~> ppc[p] = "read"

(* unsubscribe_control_() returns.                                         *)
UnsubscribeReturns ==
  \A u \in Controllers : csub[u] \in {"leaving", "waiting"} ~> csub[u] = "gone"

(* stop() returns, provided user callbacks do: no notification is lost.    *)
StopReturns ==
  []<>(wpc["data"] # "call") => (stopper # "no" ~> stopper = "done")

(* stop(): "anyone who sees is_running() == false knows the workers are    *)
(* already committed to exiting -- no window where the transport looks     *)
(* stopped but a queued frame can still reach a callback".                 *)
NotRunningMeansQuiet ==
  [][~running => \A l \in Lanes : wframe'[l] \in {wframe[l], 0}]_vars
============================================================================
